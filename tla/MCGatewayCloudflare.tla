------------------------- MODULE MCGatewayCloudflare -------------------------
(***************************************************************************)
(* Instances of GatewayCloudflare for TLC.                                 *)
(***************************************************************************)
EXTENDS GatewayCloudflare, TLC

CONSTANTS a, b

\* The membership of b expires early, that of a outlives the run.
MCMemberUntil == a :> MaxNow @@ b :> 1

Symmetry == Permutations(Nonces) \cup Permutations(Addrs)
=============================================================================
