---------------------------- MODULE MCClientVault ----------------------------
(* ClientVault for TLC: the tools are interchangeable.                       *)
EXTENDS ClientVault, TLC

SameTools == Permutations(Tools)
=============================================================================
