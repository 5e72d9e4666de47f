---------------------------- MODULE MCWebRTCSignal ----------------------------
(* Peer a dials b, which has the same relay, twice, and c, which has another. *)
EXTENDS WebRTCSignal, TLC
CONSTANTS a, b, c, r1, r2, d1, d2, d3
MCRelayOf == (a :> r1) @@ (b :> r1) @@ (c :> r2)
MCSrc == [d \in Dials |-> a]
MCDst == (d1 :> b) @@ (d2 :> b) @@ (d3 :> c)
DialSymmetry == Permutations({d1, d2})
===============================================================================
