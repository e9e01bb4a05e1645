---------------------------- MODULE MCPeerClient ----------------------------
(* Instances of PeerClient for TLC.                                        *)
EXTENDS PeerClient, TLC

\* Calls of Subscribe are interchangeable (safety runs only).
CallSymmetry == Permutations(Calls)
=============================================================================
