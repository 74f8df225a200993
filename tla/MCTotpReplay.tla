----------------------------- MODULE MCTotpReplay -----------------------------
(* TLC instance of TotpReplay: three codes, whose windows overlap.           *)
EXTENDS TotpReplay, TLC

ThreeCodes == {0, 2, 4}
Same == Permutations(Verifiers)
=============================================================================
