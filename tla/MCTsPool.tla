------------------------------ MODULE MCTsPool ------------------------------
(* Three records, two interchangeable peers, and TIDs that share a user    *)
(* priority, map to different ones and are not served at all.              *)
EXTENDS TsPool, TLC

MCTIDs == {0, 3, 5, 8}
MCPeers == Permutations(Addrs)
=============================================================================
