------------------------------ MODULE MCIdentify ------------------------------
(* Two nodes with the limits of config.ts, and one protocol with a topology. *)
EXTENDS Identify, TLC
CONSTANTS a, b, s1, s2, x
MCInbound == [k \in Kinds |-> IF k = "ping" THEN 2 ELSE 1]
MCVersion == (a :> 3) @@ (b :> 1)
SlotSymmetry == Permutations(Slots)
MCOutbound == [k \in Kinds |-> 1]
===============================================================================
