---------------------------- MODULE HookRecords ----------------------------
(***************************************************************************)
(* What the hooks keep from one to the next: observations, captures, the   *)
(* last hook's session and Antigravity's conversations.  The four keep     *)
(* their own tables and files and none reads another's; their steps        *)
(* interleave.                                                             *)
(***************************************************************************)
EXTENDS Observations, Capture, HookSession, AgySession

recordsVars == <<vars, captureVars, hookVars, agyVars>>

RecordsInit == Init /\ CaptureInit /\ HookInit /\ AgyInit

RecordsNext ==
    \/ Next /\ UNCHANGED <<captureVars, hookVars, agyVars>>
    \/ CaptureNext /\ UNCHANGED <<vars, hookVars, agyVars>>
    \/ HookNext /\ UNCHANGED <<vars, captureVars, agyVars>>
    \/ AgyNext /\ UNCHANGED <<vars, captureVars, hookVars>>

RecordsSpec == RecordsInit /\ [][RecordsNext]_recordsVars

\* Every variable of every part keeps its type.
TypesOK == TypeOK /\ CaptureTypeOK /\ HookTypeOK /\ AgyTypeOK
=============================================================================
