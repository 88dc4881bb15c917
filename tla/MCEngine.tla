------------------------------ MODULE MCEngine ------------------------------
(***************************************************************************)
(* Instances of Engine for TLC.  The checkpoints are told apart by Preload *)
(* and Stuck, so only the request slots are symmetric, and only in runs    *)
(* without liveness properties.                                            *)
(***************************************************************************)
EXTENDS Engine, TLC

RequestSymmetry == Permutations(Requests)

\* EveryRequestAnswered of one slot.  The slots are alike, in the actions and in
\* the fairness, so what holds of one holds of all.
OneRequestAnswered == RequestAnswered(CHOOSE r \in Requests : TRUE)
=============================================================================
