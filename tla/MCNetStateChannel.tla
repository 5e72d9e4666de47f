------------------------- MODULE MCNetStateChannel -------------------------
(***************************************************************************)
(* Small channels over several hosts for TLC: the peers of MCStateChannel, *)
(* on host 0 and on others, or behind a host 0 that only relays.           *)
(***************************************************************************)
EXTENDS NetStateChannel, MCStateChannel

ASSUME MCAssumption == NoMaster /\ TwoHosts /\ OneSender /\ Mirrored

Pair == <<bob, carol>>

(* carol, who is not the relay, is the only one to send. *)
CarolSends == Sends(0, 3, 0)
=============================================================================
