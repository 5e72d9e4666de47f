-------------------------- MODULE NetStateChannel --------------------------
(***************************************************************************)
(* A state channel whose processes live each in a physical host of its own *)
(* (procph.ss, ipc.ss).  A host knows only its own processes: what it      *)
(* sends goes to host 0, the relay, which knows where every process is,    *)
(* and sends it to its host directly.  The relay may hold a process too.   *)
(*                                                                         *)
(* A host is one thread.  It sends to the peers of a group one after the   *)
(* other, and the other hosts run in between; a message is a connection of *)
(* its own, so a host accepts messages in the order they were sent to it.  *)
(* Once it has accepted one, it steps its process before the next one.     *)
(*                                                                         *)
(* Every host has joined the group with the same PEER list, and has mapped *)
(* the remote peers with their USERs (procm).  The group modelled has no   *)
(* master, and no method that is committed to one (NoMaster).              *)
(***************************************************************************)
EXTENDS StateChannelProperties

CONSTANTS
  PeerList, \* the group's PEER, in its order
  Relay,    \* host 0: the process it holds, or another value if it holds none
  MaxLost   \* bound: how many messages are lost

Host == Proc \cup {Relay}   \* a process stands for its host too

ASSUME NetAssumption ==
  /\ PeerList \in Seq(Peer)
  /\ Peer = {PeerList[i] : i \in DOMAIN PeerList}
  /\ \A i, j \in DOMAIN PeerList : PeerList[i] = PeerList[j] => i = j
  /\ MaxLost \in Nat

NoMaster == Master = {} /\ Committed = {}

TwoHosts == \E g, h \in Host : g # h /\ Host = {g, h}

OneSender == \A p, q \in Proc : MaxOut[p] # 0 /\ MaxOut[q] # 0 => p = q

VARIABLES
  outbox, \* what a host has yet to send before it does anything else
  net,    \* the messages a host has not accepted yet
  fresh,  \* the host has accepted a message, and not stepped since
  lost    \* how many messages have been lost

netvars == <<outbox, net, fresh, lost>>
allvars == <<vars, netvars>>

(* _TO, the process the message is for. *)
Packet == [to: Proc, msg: Call]

NetInit ==
  /\ Init
  /\ outbox = [h \in Host |-> <<>>]
  /\ net = [h \in Host |-> <<>>]
  /\ fresh = [h \in Host |-> FALSE]
  /\ lost = 0

-----------------------------------------------------------------------------
(* The processes *)

(* The host is not in the middle of a loop of sends. *)
Free(h) == outbox[h] = <<>>

NetSend(p) ==
  /\ Free(p)
  /\ \E to \in DOMAIN Method : \E f \in Method[to] : Send(p, to, f)
  /\ UNCHANGED netvars

(* A sequence without the element at index i. *)
Without(q, i) == SubSeq(q, 1, i - 1) \o SubSeq(q, i + 1, Len(q))

(* The processes of a list, but p. *)
Others(list, p) ==
  IF \E i \in DOMAIN list : list[i] = p
  THEN Without(list, CHOOSE i \in DOMAIN list : list[i] = p)
  ELSE list

(* The other processes that a message of p is posted to, in PEER order. *)
Remote(p, to) == Others(IF to = Group THEN PeerList ELSE <<to>>, p)

Packets(targets, m) == [i \in DOMAIN targets |-> [to |-> targets[i], msg |-> m]]

NetOutStep(p) ==
  LET m == Transmitted(p)
  IN  /\ ~OutIdle(p)
      /\ out' = [out EXCEPT ![p][outptr[p]] = m]
      /\ outptr' = [outptr EXCEPT ![p] = @ + 1]
      /\ in' = [in EXCEPT ![p] = IF p \in Dest(m.to) THEN Posted(@, m) ELSE @]
      /\ outbox' = [outbox EXCEPT ![p] = Packets(Remote(p, m.to), m)]
      /\ state' = [state EXCEPT ![p] = Updated(@,
                     inptr[p] > Len(in'[p]) /\ outptr'[p] > Len(out[p]))]
      /\ UNCHANGED <<self, inptr, rl, cond>>

(* Faulty: the sender of a call is not acked (procl.ss:274-277 had it so). *)
AckedButSender(p) == Others(Others(PeerList, p), Current(p).from)

(* The peers that p acks the current call to. *)
AckedPeers(p) == Others(PeerList, p)

NetExecute(p) ==
  /\ Ready(p, "Active")
  /\ ~Current(p).ack
  /\ ~FailAcked(p)
  /\ self' = [self EXCEPT ![p] = Run(p, Current(p))]
  /\ rl' = [rl EXCEPT ![p] = IF Logs(p) THEN Append(@, Entry(p)) ELSE @]
  /\ in' = [in EXCEPT ![p][inptr[p]] = Done(p)]
  /\ Consume(p)
  /\ outbox' = [outbox EXCEPT ![p] =
                  IF Acks(p) THEN Packets(AckedPeers(p), Ack(p)) ELSE <<>>]
  /\ state' = [state EXCEPT ![p] = IF Awaits(p) THEN "Waiting"
                                   ELSE Updated(@, Idle(p))]
  /\ cond' = [cond EXCEPT ![p] = IF Awaits(p) THEN Len(rl[p]) + 1 ELSE @]

(* The steps that send nothing. *)
QuietStep(p) ==
  /\ ReadAck(p) \/ SkipFailed(p) \/ Resume(p)
  /\ UNCHANGED outbox

NetStep(p) ==
  /\ Free(p)
  /\ NetOutStep(p) \/ NetExecute(p) \/ QuietStep(p)
  /\ fresh' = [fresh EXCEPT ![p] = FALSE]
  /\ UNCHANGED <<net, lost>>

-----------------------------------------------------------------------------
(* The hosts *)

(* host-send: only the relay knows the host of a process of another host. *)
NextHop(h, to) == IF h = Relay THEN to ELSE Relay

(* The message at the head of the loop of sends leaves ... *)
Transmit(h) ==
  /\ outbox[h] # <<>>
  /\ LET w == Head(outbox[h])
         to == NextHop(h, w.to)
     IN  net' = [net EXCEPT ![to] = Append(@, w)]
  /\ outbox' = [outbox EXCEPT ![h] = Tail(@)]
  /\ UNCHANGED <<vars, fresh, lost>>

(* ... or, when the connection fails, channel-send gives up in silence. *)
Lose(h) ==
  /\ outbox[h] # <<>>
  /\ lost < MaxLost
  /\ lost' = lost + 1
  /\ outbox' = [outbox EXCEPT ![h] = Tail(@)]
  /\ UNCHANGED <<vars, net, fresh>>

(* The process of host h can do nothing, or h holds none. *)
Rests(h) == h \in Proc => Stuck(h)

(* Faulty: the latest message. *)
Latest(h) == Len(net[h])

(* The index in net[h] of the message that h accepts: the oldest one. *)
Oldest(h) == 1

(* A message is accepted: posted if its process is here, else forwarded. *)
Receive(h) ==
  /\ Free(h)
  /\ net[h] # <<>>
  /\ fresh[h] => Rests(h)
  /\ LET w == net[h][Oldest(h)]
     IN  /\ net' = [net EXCEPT ![h] = Without(@, Oldest(h))]
         /\ IF w.to = h
            THEN /\ in' = [in EXCEPT ![h] = Posted(@, w.msg)]
                 /\ state' = [state EXCEPT ![h] =
                      Updated(@, inptr[h] > Len(in'[h]) /\ OutIdle(h))]
                 /\ UNCHANGED outbox
            ELSE /\ outbox' = [outbox EXCEPT ![h] = <<w>>]
                 /\ UNCHANGED <<in, state>>
  /\ fresh' = [fresh EXCEPT ![h] = TRUE]
  /\ UNCHANGED <<self, inptr, rl, out, outptr, cond, lost>>

NetNext == \/ \E p \in Proc : NetSend(p) \/ NetStep(p)
           \/ \E h \in Host : Transmit(h) \/ Lose(h) \/ Receive(h)

NetSpec == NetInit /\ [][NetNext]_allvars

-----------------------------------------------------------------------------
(* Properties *)

(* Between two hosts, unless a message is lost, an ack never overtakes the *)
(* call it is about: post-to would take the call for a duplicate of it,    *)
(* and drop it (procl.ss:167-171).                                         *)
CallBeforeAck == lost = 0 =>
  \A p \in Peer : \A i \in DOMAIN in[p] : in[p][i].ack =>
    \E j \in 1 .. i - 1 : SameCall(in[p][i], in[p][j]) /\ ~in[p][j].ack

Silent == /\ \A h \in Host : outbox[h] = <<>> /\ net[h] = <<>>
          /\ \A p \in Proc : Stuck(p)

(* MANUAL.txt:37-38: a call is performed on each one of the local copies.  *)
(* When nothing is left to do, and nothing was lost, each peer has         *)
(* performed, or failed, every call sent to the group.  With a third host, *)
(* which an ack may reach before the call, it has not.                     *)
PerformedByAll ==
  Silent /\ lost = 0 =>
    \A p \in Proc : \A k \in DOMAIN out[p] : out[p][k].to = Group =>
      \A q \in Peer : \E i \in 1 .. inptr[q] - 1 :
        SameCall(in[q][i], out[p][k]) /\ ~in[q][i].ack

(* Over two hosts the group still implements CallLog, for as long as       *)
(* no message is lost: one sender's calls enter one log, which each peer   *)
(* applies in order, whatever the hosts' loops and the relay do meanwhile. *)
ImplementsUntilLoss ==
  Log!LogInit /\ [][lost' = 0 => Log!LogNext]_Log!logVars

=============================================================================
