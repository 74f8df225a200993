--------------------------- MODULE MCAttemptLimiter ---------------------------
(* TLC instance of AttemptLimiter.                                           *)
EXTENDS AttemptLimiter, TLC

Same == Permutations(Workers) \cup Permutations(Addresses)
=============================================================================
