---------------------------- MODULE MCGraphSync ----------------------------
(* The scheduler and one process of commands and hooks.  The source starts *)
(* at version 1; graph.json and the code graph start empty.                *)
EXTENDS GraphSync
=============================================================================
