---------------------------- MODULE MCConnections ----------------------------
(* A node that wants one connection and keeps one: two peers, the first of   *)
(* which both dials and is dialled.                                          *)
EXTENDS Connections, TLC
CONSTANTS p, q, in1, in2, out1
MCPeerOf == (in1 :> p) @@ (in2 :> q) @@ (out1 :> p)
MCValue == (p :> 1) @@ (q :> 0)
===============================================================================
