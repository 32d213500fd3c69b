---------------------------- MODULE MCRefreshFuse ----------------------------
(* RefreshFuse on a small instance.                                        *)
EXTENDS RefreshFuse, TLC

CONSTANTS c1, c2, s0, s1, x   \* candidates, contents, a source

Symmetric == Permutations(Candidates)
==============================================================================
