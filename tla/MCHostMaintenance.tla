-------------------------- MODULE MCHostMaintenance --------------------------
(* HostMaintenance for TLC: every set of rules and every set of missing files *)
(* occurs on one of the servers; which goes with which makes no difference,   *)
(* for no command on the one reads the other.                                 *)
EXTENDS HostMaintenance

MissingOn ==
  CHOOSE m \in [Found -> Missing] : \A files \in Missing : \E fw \in Found : m[fw] = files

Chosen == {<<fw, MissingOn[fw]>> : fw \in Found}

\* What HardeningWholeOrUndone assumes of them.
ASSUME ChosenAssumption == \A s \in Servers : Usual(s[1])
=============================================================================
