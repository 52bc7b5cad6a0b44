---------------------------- MODULE MCPeerAssist ----------------------------
(* Nodes that claim, and one more that only reports the struggling peer.     *)
EXTENDS PeerAssist, TLC

ThreeNodes == 1 .. 3
TwoClaimers == {1, 2}
NodeThree == {3}

=============================================================================
