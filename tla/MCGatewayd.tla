----------------------------- MODULE MCGatewayd -----------------------------
(***************************************************************************)
(* Instances of Gatewayd for TLC.                                          *)
(***************************************************************************)
EXTENDS Gatewayd, TLC

CONSTANTS a, b

\* The membership of b expires early, that of a outlives the run.
MCMemberUntil == a :> MaxNow @@ b :> 0

Symmetry == Permutations(Nonces) \cup Permutations(Tasks) \cup Permutations(Addrs)
=============================================================================
