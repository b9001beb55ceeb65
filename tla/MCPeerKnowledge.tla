-------------------------- MODULE MCPeerKnowledge --------------------------
(***************************************************************************)
(* Small instance of PeerKnowledge for TLC: two Sisters in each of the ways *)
(* the command line lets them find each other.                              *)
(***************************************************************************)
EXTENDS PeerKnowledge

NoPeers == [s \in Sisters |-> {}]
Base == [backend |-> "iroh", members |-> {"a", "b"}, gateways |-> {}, garbled |-> {}, mdns |-> FALSE,
         irohPeer |-> NoPeers, peers |-> NoPeers, rekey |-> FALSE, cuts |-> FALSE, slow |-> FALSE,
         faulty |-> {"b"}, faults |-> 1]

MCScenarios ==
    { [Base EXCEPT !.gateways = {"g1"}, !.rekey = TRUE, !.cuts = TRUE, !.faults = 2],
      [Base EXCEPT !.gateways = {"g1", "g2"}, !.garbled = {<<"g1", "a">>, <<"g1", "b">>}, !.faulty = {"a"}],
      [Base EXCEPT !.mdns = TRUE, !.cuts = TRUE, !.faulty = {"a", "b"}, !.faults = 2],
      [Base EXCEPT !.irohPeer = [NoPeers EXCEPT !["b"] = {"a"}], !.slow = TRUE, !.faults = 2],
      [Base EXCEPT !.backend = "tcp", !.peers = [s \in Sisters |-> {"a", "b"} \ {s}],
                   !.faulty = {"a", "b"}, !.slow = TRUE, !.faults = 2],
      [Base EXCEPT !.members = Sisters, !.rekey = TRUE, !.faulty = {"a", "b"}, !.faults = 2,
                   !.irohPeer = [NoPeers EXCEPT !["a"] = {"b", "c"}, !["c"] = {"b"}]] }
=============================================================================
