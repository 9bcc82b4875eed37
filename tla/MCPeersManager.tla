--------------------------- MODULE MCPeersManager ---------------------------
(***************************************************************************)
(* Two threads, two nodes, and two addresses on two IPs: both nodes may    *)
(* be at the same address, one may move, and one may be another's rival    *)
(* for an IP, a slot or a place.  Threads and nodes are interchangeable.   *)
(***************************************************************************)
EXTENDS PeersManager, TLC

MCAddrs == {"a", "b"}
MCIps == {"ipa", "ipb"}
MCIp == [a |-> "ipa", b |-> "ipb"]
MCSymmetry == Permutations(Threads) \cup Permutations(Nodes)
=============================================================================
