-------------------------- MODULE MCObservations --------------------------
(***************************************************************************)
(* The hooks' bookkeeping.  None of the four parts reads another's state:  *)
(* each is explored with the others at rest, which leaves out no state of  *)
(* any of them.                                                            *)
(***************************************************************************)
EXTENDS HookRecords, TLC

Observing ==
    /\ CaptureInit /\ HookInit /\ AgyInit /\ shadow = Empty
    /\ Next
    /\ UNCHANGED <<captureVars, hookVars, agyVars>>

Capturing ==
    /\ Init /\ HookInit /\ AgyInit /\ shadow = Empty
    /\ CaptureNext
    /\ UNCHANGED <<vars, hookVars, agyVars>>

Noting ==
    /\ Init /\ CaptureInit /\ AgyInit /\ shadow = Empty
    /\ HookNext
    /\ UNCHANGED <<vars, captureVars, agyVars>>

Conversing ==
    /\ Init /\ CaptureInit /\ HookInit
    /\ AgyNext
    /\ UNCHANGED <<vars, captureVars, hookVars>>

ApartSpec ==
    RecordsInit /\ [][Observing \/ Capturing \/ Noting \/ Conversing]_recordsVars

Symmetry ==
    Permutations(Procs) \cup Permutations(Sessions) \cup Permutations(Packs)
=============================================================================
