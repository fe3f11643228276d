-------------------------- MODULE MCSyncScheduler --------------------------
(* MCSyncScheduler.cfg: one unit is a second, with the code's poll of 5 s, *)
(* the shortest minimum interval the configuration admits and a debounce   *)
(* below the poll.  MCSyncStarved.cfg: one unit is 5 s, with the shipped   *)
(* debounce of 60 s and minimum interval of 300 s.                         *)
EXTENDS SyncScheduler
============================================================================
