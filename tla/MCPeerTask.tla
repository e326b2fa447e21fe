------------------------------- MODULE MCPeerTask -------------------------------
(* PeerTask on small instances. *)
EXTENDS PeerTask

CONSTANT t1
================================================================================
