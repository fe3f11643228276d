--------------------------- MODULE MCNeuronStore ---------------------------
(* Two processes and a few node ids, of which captures use at most two.    *)
(* Processes and ids are interchangeable and every property checked is a   *)
(* safety property.                                                        *)
EXTENDS NeuronStore, TLC

Symmetry == Permutations(Neurons) \cup Permutations(Procs)

TwoCaptures == Cardinality(captured \cup DOMAIN draft \cup file) <= 2
=============================================================================
