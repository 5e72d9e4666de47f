----------------------- MODULE StateChannelInvariants -----------------------
(***************************************************************************)
(* What the proofs about the replication protocol keep: the inductive      *)
(* invariants, of one host and of several, and what any step does to one   *)
(* process.  All of it is for any group, servlet and bound.                *)
(***************************************************************************)
EXTENDS NetStateChannel

(***************************************************************************)
(* What the acks of a channel are worth: what becomes of a call on its     *)
(* way, fresh in OUT and in the others' IN, logged once under a number of  *)
(* its own, acked under that number.                                       *)
(***************************************************************************)

(* TypeOK and QueueState support each other.                               *)
QueueInv == TypeOK /\ QueueState

(* What a process has sent, or has yet to transmit.                        *)
OutFresh ==
  \A p \in Proc : \A i \in DOMAIN out[p] :
    LET m == out[p][i]
    IN  m.from = p /\ ~m.ack /\ ~m.ackall /\ m.sign \subseteq {p}

(* What a process other than the master has received is not acked by all,  *)
(* and a call itself bears its sender's mark at most.                      *)
InFresh ==
  \A p \in Proc \ Master : \A i \in DOMAIN in[p] :
    LET m == in[p][i]
    IN  ~m.ackall /\ (~m.ack => m.sign \subseteq {m.from})

(* A replay list numbers its entries from 0.                               *)
RlNumbered ==
  \A p \in Proc : \A k \in DOMAIN rl[p] : rl[p][k].innb = k - 1 /\ ~rl[p][k].ack

(* A call is in IN once, its acks aside.                                   *)
ReceivedOnce ==
  \A p \in Proc : \A i, j \in DOMAIN in[p] :
    ~in[p][i].ack /\ ~in[p][j].ack /\ SameCall(in[p][i], in[p][j]) => i = j

(* Each entry of the replay list is a call of IN that has been processed   *)
(* and has kept the number of its entry.                                   *)
Processed(p, k, i) ==
  i < inptr[p] /\ ~in[p][i].ack /\ in[p][i].innb = k - 1 /\ SameCall(in[p][i], rl[p][k])

LoggedProcessed ==
  \A p \in Proc : \A k \in DOMAIN rl[p] : \E i \in DOMAIN in[p] : Processed(p, k, i)

(* m's call is the entry of q's replay list that m's number designates.    *)
LoggedAt(q, m) ==
  m.innb + 1 \in DOMAIN rl[q] /\ SameCall(m, rl[q][m.innb + 1])

(* The marks of an ack are true.                                           *)
AcksTrue ==
  \A p \in Peer : \A i \in DOMAIN in[p] :
    in[p][i].ack => \A q \in (in[p][i].sign \cap Peer) \ {in[p][i].from} : LoggedAt(q, in[p][i])

(* ACK* stands for the marks of all the peers.                             *)
MarkedByAll ==
  \A p \in Proc \ Master : \A k \in DOMAIN rl[p] :
    rl[p][k].ackall => Peer \subseteq rl[p][k].sign

SafetyInv ==
  /\ QueueInv
  /\ OutFresh
  /\ InFresh
  /\ RlNumbered
  /\ ReceivedOnce
  /\ LoggedProcessed
  /\ AcksTrue
  /\ SignedMeansLogged
  /\ MarkedByAll
  /\ CommittedReachMaster

-----------------------------------------------------------------------------
(***************************************************************************)
(* The peers are mirrors of one another: every peer receives the group's   *)
(* calls in the same order, and what becomes of a call depends on the      *)
(* calls logged before it only.  It also depends on the servlet.           *)
(***************************************************************************)

(* The methods that p may be called for.                                   *)
Handles(p) ==
  IF p \in Peer THEN Method[Group] \cup Method[p]
  ELSE IF p \in Master THEN Method[p] \cup (Method[Group] \cap Committed)
  ELSE {}

(***************************************************************************)
(* A servlet whose values are S[p] at process p: its methods and their     *)
(* returns keep them, and a call that is volatile or has failed leaves     *)
(* SELF alone.                                                             *)
(***************************************************************************)
Servlets(S) ==
  /\ \A p \in Proc : Self0[p] \in S[p]
  /\ \A p \in Proc : \A s \in S[p], u \in Proc, f \in Handles(p) :
       /\ Exec(s, u, f) \in S[p]
       /\ f \in Volatile \/ ~Accepts(s, u, f) => Exec(s, u, f) = s
  /\ \A p \in Peer, m \in Master : \A s \in S[p], u, c \in Proc, f \in Handles(m) :
       Return(s, u, c, f) \in S[p]

-----------------------------------------------------------------------------
(* SELF is the replay of IN!: what the calls on their way may be.          *)

(* A return is for an entry of the master's replay list.                   *)
ReturnOf(m) ==
  \E a \in Master : m.ret + 1 \in DOMAIN rl[a] /\ rl[a][m.ret + 1].func = m.func

Sendable(m) ==
  IF IsReturn(m) THEN m.to = Group /\ ReturnOf(m)
  ELSE m.to \in DOMAIN Method /\ m.func \in Method[m.to]

(* The master also receives the committed calls of the group.              *)
Destined(p, m) ==
  \/ p \in Dest(m.to)
  \/ p \in Master /\ m.to = Group /\ ~IsReturn(m) /\ m.func \in Committed

SameRequest(m, n) == SameCall(m, n) /\ m.to = n.to /\ m.func = n.func /\ m.ret = n.ret

OutSendable == \A p \in Proc : \A i \in DOMAIN out[p] : Sendable(out[p][i])

InSendable ==
  \A p \in Proc : \A i \in DOMAIN in[p] :
    ~in[p][i].ack => Sendable(in[p][i]) /\ Destined(p, in[p][i])

EntryRequest ==
  \A p \in Proc : \A k \in DOMAIN rl[p], i \in DOMAIN in[p] :
    Processed(p, k, i) => SameRequest(rl[p][k], in[p][i])

AwaitsGroup == \A p \in Proc : cond[p] # 0 => rl[p][cond[p]].to = Group

ReplayInv(S) ==
  /\ SafetyInv
  /\ OutSendable
  /\ InSendable
  /\ EntryRequest
  /\ AwaitsGroup
  /\ \A p \in Proc : self[p] \in S[p]
  /\ SelfIsReplay

-----------------------------------------------------------------------------
(* The mirrors. *)

(* Calls are numbered by their sender, and received after transmission.    *)
OutNumbered == \A p \in Proc : \A i \in DOMAIN out[p] : out[p][i].outnb = i - 1

InTransmitted ==
  \A p \in Proc : \A i \in DOMAIN in[p] :
    in[p][i].outnb + 1 < outptr[in[p][i].from]

(* A call of the group that p has received, or processed.                  *)
Received(p, i) == i \in DOMAIN in[p] /\ ~in[p][i].ack /\ in[p][i].to = Group

Handled(p, i) == Received(p, i) /\ i < inptr[p]

(* The peers receive the calls of the group in the same order, ...         *)
SameOrder ==
  \A p, q \in Peer : \A i \in DOMAIN in[p] : Received(p, i) =>
    \E j \in DOMAIN in[q] :
      /\ Received(q, j) /\ SameRequest(in[p][i], in[q][j])
      /\ \A n \in DOMAIN in[p], k \in DOMAIN in[q] :
           Received(p, n) /\ Received(q, k) /\ SameCall(in[p][n], in[q][k])
             => (n < i <=> k < j)

(* ... hence, of two of them, none has received a call of the group that   *)
(* the other had not before its own calls, ...                             *)
Match(p, i, q, j) == Received(p, i) /\ Received(q, j) /\ SameCall(in[p][i], in[q][j])

OneOrder ==
  \A p, q \in Peer : \A i \in DOMAIN in[p], j \in DOMAIN in[q] :
    /\ Match(p, i, q, j) =>
         /\ SameRequest(in[p][i], in[q][j])
         /\ \A n \in DOMAIN in[p] : Received(p, n) /\ n < i =>
              \E k \in DOMAIN in[q] : Match(p, n, q, k) /\ k < j
    /\ Received(p, i) /\ Received(q, j) =>
         (\E k : Match(p, i, q, k)) \/ (\E k : Match(p, k, q, j))

(* ... and log them in that order.                                         *)
LogOrder ==
  \A p \in Proc : \A k, n \in DOMAIN rl[p], i, j \in DOMAIN in[p] :
    Processed(p, k, i) /\ Processed(p, n, j) /\ k < n => i < j

Lasting(m) == IsReturn(m) \/ m.func \notin Volatile

Agreed(s, m) == IsReturn(m) \/ Accepts(s, m.from, m.func)

(* An entry is a lasting call of the group, accepted when it was run.      *)
EntriesAgreed ==
  \A p \in Peer : \A k \in DOMAIN rl[p] :
    /\ rl[p][k].to = Group /\ Lasting(rl[p][k])
    /\ Agreed(After(p)[k - 1], rl[p][k])
    /\ \A i \in DOMAIN in[p] : Processed(p, k, i) => in[p][i].result = "ok"

(* The first n entries of p's replay list are those received before i.     *)
LoggedBefore(p, i, n) ==
  \A k \in DOMAIN rl[p], j \in DOMAIN in[p] : Processed(p, k, j) => (k <= n <=> j < i)

(* The call at i would not have been accepted.                             *)
Refused(p, i) ==
  \E n \in 0 .. Len(rl[p]) : LoggedBefore(p, i, n) /\ ~Agreed(After(p)[n], in[p][i])

Fates ==
  \A p \in Peer : \A i \in DOMAIN in[p] : Handled(p, i) /\ Lasting(in[p][i]) =>
    \/ in[p][i].result = "fail" /\ Refused(p, i)
    \/ in[p][i].result = "ok" /\ \E k \in DOMAIN rl[p] : Processed(p, k, i)

SameFate ==
  \A p, q \in Peer : \A i \in DOMAIN in[p], j \in DOMAIN in[q] :
    Handled(p, i) /\ Handled(q, j) /\ Lasting(in[p][i]) /\ SameCall(in[p][i], in[q][j])
      => in[p][i].result = in[q][j].result

(* A failure is acked by a peer where the call has failed.                 *)
FailuresTrue ==
  \A p \in Peer : \A i \in DOMAIN in[p] :
    in[p][i].ack /\ in[p][i].result = "fail" =>
      \E q \in Peer : \E j \in DOMAIN in[q] :
        /\ Handled(q, j) /\ Lasting(in[q][j]) /\ in[q][j].result = "fail"
        /\ SameCall(in[p][i], in[q][j])

FateInv(S) ==
  /\ ReplayInv(S)
  /\ OneOrder
  /\ LogOrder
  /\ EntriesAgreed
  /\ Fates
  /\ SameFate
  /\ FailuresTrue
  /\ ReplayListsAgree

MirrorInv(S) ==
  /\ FateInv(S)
  /\ OutNumbered
  /\ InTransmitted
  /\ SameOrder

-----------------------------------------------------------------------------
(* The waits, and the master. *)

(* Who has logged a call has acked it to p, after p received the call.     *)
AckDelivered ==
  \A p, q \in Peer : \A k \in DOMAIN rl[q] : p # q =>
    \E i \in DOMAIN in[p] :
      /\ in[p][i].ack /\ SameCall(in[p][i], rl[q][k]) /\ in[p][i].innb = k - 1
      /\ q \in in[p][i].sign
      /\ \A j \in DOMAIN in[p] : Received(p, j) /\ SameCall(in[p][j], rl[q][k]) => j < i

(* What one peer has received, all have.                                   *)
AllMatched == \A p, q \in Peer : \A i : Received(p, i) => \E j : Match(p, i, q, j)

(* A process that waits has just processed the call it waits for.          *)
WaitsForLast ==
  \A p \in Proc : cond[p] # 0 => inptr[p] > 1 /\ Processed(p, cond[p], inptr[p] - 1)

(* All the entries but the awaited one are acked by all.                   *)
SettledBefore ==
  \A p \in Peer : \A k \in DOMAIN rl[p] : k # cond[p] => rl[p][k].ackall

(* What the master has received of the group.                              *)
Posts(m) == {i \in DOMAIN in[m] : ~in[m][i].ack /\ in[m][i].to = Group}

PostedAcked ==
  \A m \in Master : \A i \in Posts(m) : \E p \in Peer : \E k \in DOMAIN rl[p] :
    SameCall(rl[p][k], in[m][i]) /\ rl[p][k].ackall

PostedInOrder ==
  \A m \in Master : \A i, j \in Posts(m) : i < j =>
    \A p \in Peer : \A k, n \in DOMAIN rl[p] :
      SameCall(rl[p][k], in[m][i]) /\ SameCall(rl[p][n], in[m][j]) => k < n

(* An entry bears the mark of its process.                                 *)
OwnMark == \A p \in Proc : \A k \in DOMAIN rl[p] : p \in rl[p][k].sign

WaitInv(S) ==
  /\ MirrorInv(S)
  /\ OwnMark
  /\ AckDelivered
  /\ WaitsForLast
  /\ SettledBefore
  /\ PostedAcked
  /\ PostedInOrder

-----------------------------------------------------------------------------
(* The implementation of CallLog. *)

(* A call on its way is in its sender's OUT. *)
AskedFor(m) == \E k \in DOMAIN out[m.from] : SameRequest(out[m.from][k], m)

InAsked == \A p \in Proc : \A i \in DOMAIN in[p] : ~in[p][i].ack => AskedFor(in[p][i])

(* A call has no number until it is processed. *)
Unnumbered ==
  /\ \A p \in Proc : \A i \in DOMAIN out[p] : out[p][i].innb = NoNb
  /\ \A p \in Peer : \A i \in DOMAIN in[p] :
       ~in[p][i].ack /\ i >= inptr[p] => in[p][i].innb = NoNb

(* A numbered ack comes from another peer that has logged the call.        *)
Authored(p, m) == m.ack /\ m.innb # NoNb => \E r \in Peer \ {p} : LoggedAt(r, m)

AckAuthor == \A p \in Peer : \A i \in DOMAIN in[p] : Authored(p, in[p][i])

(* What implementing CallLog takes. *)
LogBase(S) ==
  /\ FateInv(S)
  /\ InAsked
  /\ AckAuthor

LogInv(S) ==
  /\ WaitInv(S)
  /\ InAsked
  /\ Unnumbered
  /\ AckAuthor

-----------------------------------------------------------------------------
(***************************************************************************)
(* Over the network, for any hosts, a group without a master, and whatever *)
(* is lost: what is on its way is true, and what its sender has sent.      *)
(***************************************************************************)

NetTypeOK ==
  /\ outbox \in [Host -> Seq(Packet)]
  /\ net \in [Host -> Seq(Packet)]
  /\ fresh \in [Host -> BOOLEAN]
  /\ lost \in Nat

(* What a packet may carry: a call with its sender's mark at most, or, to  *)
(* a peer, an ack whose marks are true.                                    *)
TruePacket(w) ==
  LET m == w.msg
  IN  /\ ~m.ackall
      /\ ~m.ack => m.sign \subseteq {m.from}
      /\ m.ack => w.to \in Peer /\ \A q \in (m.sign \cap Peer) \ {m.from} : LoggedAt(q, m)

PacketsTrue ==
  \A h \in Host : /\ \A i \in DOMAIN outbox[h] : TruePacket(outbox[h][i])
                  /\ \A i \in DOMAIN net[h] : TruePacket(net[h][i])

NetSafetyInv ==
  /\ SafetyInv
  /\ NetTypeOK
  /\ PacketsTrue

(* A host has yet to send w, or to accept it.                              *)
OnWay(w) ==
  \E h \in Host : \/ \E i \in DOMAIN outbox[h] : w = outbox[h][i]
                  \/ \E i \in DOMAIN net[h] : w = net[h][i]

(* Its call is one that its sender has transmitted, and is for `to'.       *)
Carried(to, m) ==
  LET k == m.outnb + 1
  IN  /\ k \in DOMAIN out[m.from] /\ k < outptr[m.from]
      /\ SameRequest(out[m.from][k], m)
      /\ to \in Dest(m.to)

(* A failure that is acked has happened at a peer.                         *)
FailureTrue(m) ==
  m.ack /\ m.result = "fail" =>
    \E q \in Peer : \E j \in DOMAIN in[q] :
      /\ Handled(q, j) /\ Lasting(in[q][j]) /\ in[q][j].result = "fail"
      /\ SameCall(m, in[q][j])

CarriedInv ==
  /\ OutNumbered
  /\ OutSendable
  /\ \A p \in Proc : \A i \in DOMAIN in[p] :
       Carried(p, in[p][i]) /\ FailureTrue(in[p][i])
  /\ \A w : OnWay(w) => Carried(w.to, w.msg) /\ FailureTrue(w.msg)

NetReplayInv(S) ==
  /\ NetSafetyInv
  /\ ReplayInv(S)
  /\ CarriedInv

NetNumbers ==
  /\ Unnumbered
  /\ AckAuthor
  /\ \A w : OnWay(w) => /\ ~w.msg.ack => w.msg.innb = NoNb
                        /\ Authored(w.to, w.msg)

-----------------------------------------------------------------------------
(***************************************************************************)
(* Over two hosts, while nothing is lost.  What a host sends to the other  *)
(* is one stream, in the order it was sent: what the other has still to    *)
(* accept, then what this one has still to transmit.                       *)
(***************************************************************************)

Path(g, q) == net[q] \o outbox[g]

(* q has received the call of m. *)
InCall(q, m) == \E j \in DOMAIN in[q] : SameCall(in[q][j], m) /\ ~in[q][j].ack

(* One of a sequence of packets brings it. *)
Brings(s, m) == \E j \in DOMAIN s : SameCall(s[j].msg, m) /\ ~s[j].msg.ack

Aboard(q, m) == InCall(q, m) \/ \E g \in Host \ {q} : Brings(Path(g, q), m)

Addressed ==
  \A g \in Host : /\ \A i \in DOMAIN net[g] : net[g][i].to = g
                  /\ \A i \in DOMAIN outbox[g] : outbox[g][i].to # g

AckFollows(q) ==
  \A i \in DOMAIN in[q] : in[q][i].ack =>
    \E j \in 1 .. i - 1 : SameCall(in[q][i], in[q][j]) /\ ~in[q][j].ack

(* An ack on its way to q: its call is before it, or q has received it. *)
AckFollowsOn(g, q) ==
  \A i \in DOMAIN Path(g, q) : Path(g, q)[i].msg.ack =>
    \/ InCall(q, Path(g, q)[i].msg)
    \/ \E j \in 1 .. i - 1 : /\ SameCall(Path(g, q)[j].msg, Path(g, q)[i].msg)
                             /\ ~Path(g, q)[j].msg.ack

(* A call to the group, wherever it is, is on its way to every peer. *)
ForAll(m) == ~m.ack /\ m.to = Group => \A q \in Peer : Aboard(q, m)

Streams ==
  /\ Addressed
  /\ \A q \in Peer : AckFollows(q)
  /\ \A q \in Peer : \A g \in Host \ {q} : AckFollowsOn(g, q)
  /\ \A p \in Proc : \A i \in DOMAIN in[p] : ForAll(in[p][i])
  /\ \A p \in Proc : \A g \in Host \ {p} : \A i \in DOMAIN Path(g, p) :
       ForAll(Path(g, p)[i].msg)

-----------------------------------------------------------------------------
(* ... and when a single process sends. *)

Bounded == \A p \in Proc : Len(out[p]) <= MaxOut[p]

(* What q has received is in the order of its numbers, ...                 *)
InSequence(q) ==
  \A i, j \in DOMAIN in[q] : i < j /\ ~in[q][i].ack /\ ~in[q][j].ack =>
    in[q][i].outnb <= in[q][j].outnb

(* ... and so is what is on its way to it, from its sender, after that.    *)
PathInSequence(g, q) ==
  \A j \in DOMAIN Path(g, q) : ~Path(g, q)[j].msg.ack =>
    /\ Path(g, q)[j].msg.from = g
    /\ \A i \in DOMAIN in[q] : ~in[q][i].ack => in[q][i].outnb <= Path(g, q)[j].msg.outnb
    /\ \A i \in 1 .. j - 1 : ~Path(g, q)[i].msg.ack =>
         Path(g, q)[i].msg.outnb <= Path(g, q)[j].msg.outnb

InOneSequence ==
  \A q \in Proc : InSequence(q) /\ \A g \in Host \ {q} : PathInSequence(g, q)

(* Each call to the group that has been transmitted is on its way to all.  *)
Broadcast ==
  \A p \in Proc : \A k \in DOMAIN out[p] :
    k < outptr[p] /\ out[p][k].to = Group => \A q \in Peer : Aboard(q, out[p][k])

(* Who has logged a call has acked it to p: the ack is there or on its way. *)
AckOf(m, q, k) ==
  m.ack /\ SameCall(m, rl[q][k]) /\ m.innb = k - 1 /\ q \in m.sign

AckTravels ==
  \A p, q \in Peer : \A k \in DOMAIN rl[q] : p # q =>
    \/ \E i \in DOMAIN in[p] : AckOf(in[p][i], q, k)
    \/ \E g \in Host \ {p} : \E i \in DOMAIN Path(g, p) : AckOf(Path(g, p)[i].msg, q, k)

(* All that holds of the mirrors while nothing is lost, and what holds     *)
(* whatever is.                                                            *)
Undisturbed(S) ==
  /\ Streams
  /\ InOneSequence
  /\ Broadcast
  /\ AckTravels
  /\ FateInv(S)

NetMirrorInv(S) ==
  /\ NetReplayInv(S)
  /\ Bounded
  /\ WaitsForLast
  /\ lost = 0 => Undisturbed(S)

-----------------------------------------------------------------------------
(***************************************************************************)
(* What a step does to the queues, the replay list, SELF and COND of a     *)
(* process, whether its messages are posted at once or travel between      *)
(* hosts.                                                                  *)
(***************************************************************************)

SameMessage(m, n) ==
  /\ n.from = m.from /\ n.outnb = m.outnb
  /\ n.to = m.to /\ n.func = m.func /\ n.ret = m.ret
  /\ n.ack = m.ack /\ n.ackall = m.ackall /\ n.sign = m.sign

(* The message at INPTR, when it is a call, may get a result and a number. *)
InKept(q, i) ==
  \/ in'[q][i] = in[q][i]
  \/ i = inptr[q] /\ ~in[q][i].ack /\ SameMessage(in[q][i], in'[q][i])

(* A message just received: a call not received yet, or a true ack.        *)
FreshCall(q, m) ==
  /\ ~m.ack /\ ~Known(in[q], m)
  /\ q \notin Master => ~m.ackall /\ m.sign \subseteq {m.from}

FreshAck(q, m) ==
  /\ m.ack /\ ~m.ackall
  /\ q \in Peer
  /\ \A r \in (m.sign \cap Peer) \ {m.from} :
       m.innb + 1 \in DOMAIN rl'[r] /\ SameCall(m, rl'[r][m.innb + 1])

InStepOf(q) ==
  /\ inptr[q] <= inptr'[q]
  /\ \A i \in DOMAIN in[q] : i \in DOMAIN in'[q] /\ InKept(q, i)
  /\ \A i \in DOMAIN in'[q] : i \in DOMAIN in[q] \/
       (i = Len(in[q]) + 1 /\ (FreshCall(q, in'[q][i]) \/ FreshAck(q, in'[q][i])))

SameEntry(d, e) ==
  /\ SameCall(d, e) /\ e.innb = d.innb /\ e.ack = d.ack
  /\ e.to = d.to /\ e.func = d.func /\ e.ret = d.ret
  /\ d.sign \subseteq e.sign

(* The entry p waits for, when it resumes, or tries to.                    *)
RlMerged(p, k) ==
  /\ k = cond[p] /\ state[p] = "Waiting" /\ AllAcks(p)
  /\ rl'[p][k] = Merged(p)
  /\ Commits(p, Merged(p)) => \A m \in Master : Known(in'[m], Merged(p))

RlStepOf(q) ==
  /\ \A k \in DOMAIN rl[q] : k \in DOMAIN rl'[q] /\ (rl'[q][k] = rl[q][k] \/ RlMerged(q, k))
  /\ \A k \in DOMAIN rl'[q] : k \in DOMAIN rl[q] \/
       (k = Len(rl[q]) + 1 /\ Execute(q) /\ Logs(q) /\ rl'[q][k] = Entry(q))

(***************************************************************************)
(* What SafetyInv asks of a step.  Whether a process gives its acks to the *)
(* other peers as it performs a call (Execute), or to its host (over the   *)
(* network), makes no difference to it.                                    *)
(***************************************************************************)
Performs(q) ==
  /\ Ready(q, "Active") /\ ~Current(q).ack /\ ~FailAcked(q)
  /\ self'[q] = Run(q, Current(q))
  /\ rl'[q] = IF Logs(q) THEN Append(rl[q], Entry(q)) ELSE rl[q]
  /\ in'[q] = [in[q] EXCEPT ![inptr[q]] = Done(q)]
  /\ inptr' = [inptr EXCEPT ![q] = @ + 1]
  /\ cond'[q] = IF Awaits(q) THEN Len(rl[q]) + 1 ELSE cond[q]

RlGrowsOf(q) ==
  /\ \A k \in DOMAIN rl[q] : k \in DOMAIN rl'[q] /\ (rl'[q][k] = rl[q][k] \/ RlMerged(q, k))
  /\ \A k \in DOMAIN rl'[q] : k \in DOMAIN rl[q] \/
       (k = Len(rl[q]) + 1 /\ Performs(q) /\ Logs(q) /\ rl'[q][k] = Entry(q))

Moved == \A q \in Proc : InStepOf(q) /\ RlGrowsOf(q)

(* The call at INPTR, once it has been processed.                          *)
Answered(q, m) ==
  \/ Performs(q) /\ m = Done(q)
  \/ SkipFailed(q) /\ m = [Current(q) EXCEPT !.result = "fail"]

OwnStepOf(q) ==
  /\ \A i \in DOMAIN in[q] : in'[q][i] = in[q][i] \/ (i = inptr[q] /\ Answered(q, in'[q][i]))
  /\ \/ inptr'[q] = inptr[q]
     \/ inptr'[q] = inptr[q] + 1 /\ (ReadAck(q) \/ SkipFailed(q) \/ Performs(q))
  /\ self'[q] = self[q] \/ Performs(q)

(* Only these steps of q touch its replay list or COND.                    *)
CondStepOf(q) ==
  \/ rl'[q] = rl[q] /\ cond'[q] = cond[q]
  \/ Performs(q) \/ Resume(q) \/ ResumeError(q)

(* An OUT queue keeps its calls, marked in time, and is appended to.       *)
Sent(q, m) ==
  /\ m.from = q /\ m.ret \in Nat \cup {NoNb} /\ m.innb = NoNb /\ m.sign = {}
  /\ Sendable(m)

OutStepOf(q) ==
  /\ \A i \in DOMAIN out[q] : /\ i \in DOMAIN out'[q] /\ SameRequest(out[q][i], out'[q][i])
                              /\ out'[q][i].innb = out[q][i].innb
                              /\ out'[q][i].result = out[q][i].result
  /\ \A i \in DOMAIN out'[q] : i \in DOMAIN out[q] \/
       (Sent(q, out'[q][i]) /\ out'[q][i].outnb = i - 1)

Moves ==
  /\ SafetyInv' /\ Moved
  /\ \A q \in Proc : OwnStepOf(q) /\ CondStepOf(q) /\ OutStepOf(q) /\ outptr[q] <= outptr'[q]

(* The steps that CallLog sees: p logs the call it performs, or resumes,   *)
(* or (Ask) no peer does either.                                           *)
LogsNext(p) ==
  /\ Performs(p) /\ Logs(p)
  /\ \A q \in Peer \ {p} : rl'[q] = rl[q] /\ cond'[q] = cond[q]
  /\ out' = out

LogMoves ==
  \/ \A p \in Peer : Len(rl'[p]) = Len(rl[p]) /\ cond'[p] = cond[p]
  \/ \E p \in Peer : LogsNext(p) \/ Resume(p)

=============================================================================
