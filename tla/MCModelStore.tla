---------------------------- MODULE MCModelStore ----------------------------
(***************************************************************************)
(* ModelStore with two names that share a layer and a config.              *)
(***************************************************************************)
EXTENDS ModelStore, TLC

CONSTANTS n1, n2, d1, c1

\* The first is served with or without its layer (a model that runs elsewhere has
\* none); the other comes into being by copy and create only.
MCRegistry == [n \in {n1, n2} |-> IF n = n1 THEN {{d1, c1}, {c1}} ELSE {}]

\* Requests are alike, and no property is a liveness property.
JobSymmetry == Permutations(Jobs)
=============================================================================
