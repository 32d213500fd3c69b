--------------------------- MODULE MCMutationLock ---------------------------
(* MutationLock on a small instance.                                       *)
EXTENDS MutationLock, TLC

CONSTANTS w1, w2, w3   \* the worker processes

Symmetric == Permutations(Workers)
=============================================================================
