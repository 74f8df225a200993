--------------------------- MODULE MCTokenRotation ---------------------------
(* TLC instances of TokenRotation and of its refinement of AuthService.      *)
EXTENDS TokenPromise, TLC

Workers == Permutations(Threads)
=============================================================================
