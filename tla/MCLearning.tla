----------------------------- MODULE MCLearning -----------------------------
(***************************************************************************)
(* What a pack holds, and what is learnt from its use.  A pack reads       *)
(* nothing that is learnt, but for the choice of its lines: packs are made *)
(* at the start of the learning.  Weight units are eighths: a claim adds   *)
(* 1.0, an edge below 0.3 goes.                                            *)
(***************************************************************************)
EXTENDS Learning, Packing

AllInit == Init /\ PackingInit

Using == PackingInit /\ Next /\ UNCHANGED packingVars

Making == Init /\ PackingNext /\ UNCHANGED vars

AllSpec == AllInit /\ [][Using \/ Making]_<<vars, packingVars>>

Symmetry ==
    Permutations(Nodes) \cup Permutations(Sessions) \cup Permutations(Procs)
=============================================================================
