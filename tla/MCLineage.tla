----------------------------- MODULE MCLineage -----------------------------
(* Every two decisions resemble each other.                                *)
EXTENDS Lineage

AllNear == {p \in Decisions \X Decisions : p[1] # p[2]}
=============================================================================
