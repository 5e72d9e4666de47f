------------------------------ MODULE Routing ------------------------------
(***************************************************************************)
(* The way of a message through the tree of machines (channels.ss).  A     *)
(* machine is a path of names: IPs first, that of the proxy in front of    *)
(* the physical machine included, then sub-machines.  On every machine     *)
(* process 00 talks to the outside, process 0 relays for the others.       *)
(*                                                                         *)
(* Each process that gets a message that is not for it (procph0-reroute)   *)
(* works out the next one from its own address only (gaddr-next).          *)
(***************************************************************************)
EXTENDS Integers, Sequences, SequencesExt

CONSTANTS
  Machine,  \* the machines' paths
  Ip,       \* the names that are IPs
  Number,   \* the processes of a machine other than 0 and 00
  Proxied   \* machines that cannot be connected to from outside

ASSUME RoutingAssumption ==
  /\ Machine \subseteq Seq(STRING)
  /\ \A m \in Machine : m # <<>> /\ Head(m) \in Ip
  /\ \A m \in Machine : Len(m) > 1 => Front(m) \in Machine
  /\ {"0", "00"} \cap Number = {}
  /\ Proxied \subseteq Machine

(* A GADDR, NPATH:HOST. *)
Address == [path: Machine, host: Number \cup {"0", "00"}]

Addr(p, h) == [path |-> p, host |-> h]

VARIABLES
  from, to, \* the ends of the route
  at,       \* the process that has the message
  status,   \* "way", "there", "failed" (by an error) or "lost" (given up)
  hops      \* how many times it has been sent

vars == <<from, to, at, status, hops>>

(* A process sends nothing to itself. *)
Init ==
  /\ from \in Address /\ to \in Address \ {from}
  /\ at = from
  /\ status = "way"
  /\ hops = 0

-----------------------------------------------------------------------------
Relays(h) == h \in {"0", "00"}

(* post: on the machine, processes other than 0 and 00 know process 0 only. *)
post(a, b) == Addr(b.path, IF Relays(a.host) THEN b.host ELSE "0")

(* up: to the machine above, or from root to root. *)
up(a, b) ==
  IF ~Relays(a.host) THEN Addr(a.path, "0")
  ELSE Addr(IF Len(a.path) = 1 THEN <<Head(b.path)>> ELSE Front(a.path), "00")

(* Faulty: down to process 00 of the last machine too. *)
DownTo00(a, b) == Addr(SubSeq(b.path, 1, Len(a.path) + 1), "00")

(* down: to 00 of the machine below, or to 0 of the last one. *)
down(a, b) ==
  Addr(SubSeq(b.path, 1, Len(a.path) + 1),
       IF Len(b.path) = Len(a.path) + 1 THEN "0" ELSE "00")

(* gaddr-next *)
gaddr_next(a, b) ==
  IF a.path = b.path THEN post(a, b)
  ELSE IF IsPrefix(a.path, b.path) THEN down(a, b)
  ELSE up(a, b)

(* Faulty: within the machine as well. *)
ErrsWithin(a, b) == IsPrefix(a.path, b.path) /\ a.host # "00"

(* Only 00 can go down: otherwise, an error. *)
Errs(a, b) == IsStrictPrefix(a.path, b.path) /\ a.host # "00"

(* npath-phys: the IPs at the beginning of a path. *)
Phys(p) == SubSeq(p, 1, CHOOSE n \in 1 .. Len(p) :
  /\ \A i \in 1 .. n : p[i] \in Ip
  /\ n = Len(p) \/ p[n + 1] \notin Ip)

(* gpath-unreachable? for the hop from a to n: a proxied machine's 00 is   *)
(* only reached from that physical machine.                                *)
Unreachable(a, n) ==
  n.host = "00" /\ n.path \in Proxied /\ n.path # Phys(a.path)

(* channel-send, by the sender and then by procph0-reroute. *)
Hop ==
  /\ status = "way"
  /\ ~Errs(at, to)
  /\ LET n == gaddr_next(at, to)
     IN  /\ ~Unreachable(at, n)
         /\ at' = n
         /\ status' = IF n = to THEN "there" ELSE "way"
  /\ hops' = hops + 1
  /\ UNCHANGED <<from, to>>

Fail ==
  /\ status = "way"
  /\ Errs(at, to)
  /\ status' = "failed"
  /\ UNCHANGED <<from, to, at, hops>>

GiveUp ==
  /\ status = "way"
  /\ ~Errs(at, to)
  /\ Unreachable(at, gaddr_next(at, to))
  /\ status' = "lost"
  /\ UNCHANGED <<from, to, at, hops>>

Next == Hop \/ Fail \/ GiveUp

Spec == Init /\ [][Next]_vars

(* The processes on the way run their loops. *)
FairSpec == Spec /\ WF_vars(Next)

-----------------------------------------------------------------------------
(* Properties *)

Common(p, q) == CHOOSE n \in 0 .. Len(p) :
  /\ n <= Len(q)
  /\ \A i \in 1 .. n : p[i] = q[i]
  /\ n < Len(p) /\ n < Len(q) => p[n + 1] # q[n + 1]

(* The shortest way in the tree: out of the machine through 0, up to the   *)
(* common ancestor or from root to root, down, and in through 0 or 00.     *)
Distance(a, b) ==
  LET c == Common(a.path, b.path)
      exit == IF Relays(a.host) THEN 0 ELSE 1
      rise == IF c = 0 THEN Len(a.path) ELSE Len(a.path) - c
      fall == Len(b.path) - (IF c = 0 THEN 1 ELSE c)
      gate == IF fall > 0 THEN "0" ELSE IF rise > 0 THEN "00"
              ELSE IF exit = 1 THEN "0" ELSE a.host
  IN  IF a = b THEN 0
      ELSE exit + rise + fall + (IF b.host = gate THEN 0 ELSE 1)

(* Hop by hop, with nothing but its own address, each process sends the    *)
(* message along the shortest way (gaddr-next, channels.ss:208-276): it    *)
(* neither loops nor makes a detour.                                       *)
ShortestWay ==
  status \in {"way", "there"} => hops + Distance(at, to) = Distance(from, to)

(* What is not in the way of an error or of a proxied machine arrives.     *)
Arrives ==
  ( /\ ~Errs(from, to)
    /\ \A m \in Proxied : ~IsPrefix(m, from.path) /\ ~IsPrefix(m, to.path) )
    ~> (status = "there")

=============================================================================
