------------------------------ MODULE MCGateway ------------------------------
(* TLC instance of Gateway: every pair of certificate directories, and every *)
(* kind of address with and without WireGuard.                               *)
EXTENDS Gateway, TLC

Chosen ==
  {s \in Settings : \/ s.named /\ s.numeric /\ s.wireguard
                    \/ s.certs = [ram |-> "private", disk |-> "private"]}
Same == Permutations(Workers) \cup Permutations(Addresses) \cup Permutations(Codes)
=============================================================================
