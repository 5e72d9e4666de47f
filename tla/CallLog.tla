------------------------------ MODULE CallLog -------------------------------
(***************************************************************************)
(* What a state channel promises its users, without messages: there is one *)
(* sequence of calls; each peer executes a prefix of it, one call at a     *)
(* time, and passes to the next call only when the current one is settled. *)
(*                                                                         *)
(* A call is settled at a peer when all the other peers have executed it,  *)
(* but for its sender: the mark the sender puts on the call when it        *)
(* transmits it is taken for its ack as soon as one other peer's ack       *)
(* carries it.                                                             *)
(***************************************************************************)
EXTENDS Naturals, Sequences

CONSTANTS Peer, Sender, Request

Asked == [from: Sender, req: Request]

VARIABLES
  asked,    \* the calls users have sent to the channel
  log,      \* those executed by some peer, in the order agreed
  applied,  \* applied[p]: how many of them p has executed
  settled   \* settled[p]: how many of those are settled at p

logVars == <<asked, log, applied, settled>>

LogTypeOK ==
  /\ asked \subseteq Asked
  /\ log \in Seq(Asked)
  /\ applied \in [Peer -> Nat]
  /\ settled \in [Peer -> Nat]

LogInit ==
  /\ asked = {}
  /\ log = <<>>
  /\ applied = [p \in Peer |-> 0]
  /\ settled = [p \in Peer |-> 0]

(* Users send calls, one or (sync) several at a time. *)
Ask ==
  /\ asked' \in SUBSET Asked
  /\ asked \subseteq asked'
  /\ UNCHANGED <<log, applied, settled>>

Apply(p) ==
  /\ settled[p] = applied[p]
  /\ applied' = [applied EXCEPT ![p] = @ + 1]
  /\ UNCHANGED <<asked, settled>>

(* p is the first to execute a call: this decides its place in the log. *)
Lead(p) ==
  /\ applied[p] = Len(log)
  /\ \E c \in asked :
       /\ \A i \in DOMAIN log : log[i] # c
       /\ log' = Append(log, c)
  /\ Apply(p)

Follow(p) ==
  /\ applied[p] < Len(log)
  /\ Apply(p)
  /\ UNCHANGED log

(* The peers whose execution of call n is awaited by p. *)
Awaited(p, n) ==
  LET others == Peer \ {p, log[n].from}
  IN  IF others = {} THEN Peer \ {p} ELSE others

Settle(p) ==
  LET n == settled[p] + 1
  IN  /\ n = applied[p]
      /\ \A q \in Awaited(p, n) : applied[q] >= n
      /\ settled' = [settled EXCEPT ![p] = n]
      /\ UNCHANGED <<asked, log, applied>>

LogNext == Ask \/ \E p \in Peer : Lead(p) \/ Follow(p) \/ Settle(p)

LogSpec == LogInit /\ [][LogNext]_logVars

=============================================================================
