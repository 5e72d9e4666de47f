---------------------------- MODULE StateChannel ----------------------------
(***************************************************************************)
(* A state channel: a process group (procg.ss) whose peers are proclets    *)
(* (procl.ss) replicating one servlet, with an optional master process.    *)
(*                                                                         *)
(* Every process lives in one host process, which is single-threaded: a    *)
(* user command and a step of a process are atomic, and a message sent to  *)
(* a local process is in its IN queue before the step ends.  Which process *)
(* steps next is chosen by the user (step PROC) or by the order of a hash  *)
(* table (step), so any order is possible.                                 *)
(*                                                                         *)
(* A process's name stands for its USER too: each process of a channel is  *)
(* run by a user of its own, whose mark is what `sign' adds to a message.  *)
(***************************************************************************)
EXTENDS Integers, Sequences, FiniteSets

CONSTANTS
  Peer,             \* UIDs of the group's PEER list
  Master,           \* the group's PARENT: at most one process, not a peer
  Client,           \* other processes, which only send
  Group,            \* UID of the group
  Func,             \* the servlets' methods, applied to their parameters
  Method,           \* Method[to]: those that are sent to the UID to
  Volatile,         \* those of them declared volatile
  Committed,        \* those of them declared committed
  Self0,            \* initial SELF of each process
  Exec(_, _, _),    \* Exec(self, user, func): SELF after the method has run
  Accepts(_, _, _), \* Accepts(self, user, func): its result is not False
  Return(_, _, _, _), \* Return(self, user, caller, func): SELF after FUNC/return
  MaxOut            \* bound: how many calls each process sends in a behaviour

Proc == Peer \cup Master \cup Client

ASSUME ProcAssumption ==
  /\ Peer \cap Master = {} /\ Peer \cap Client = {} /\ Master \cap Client = {}
  /\ Group \notin Proc
  /\ Method \in [Peer \cup Master \cup {Group} -> SUBSET Func]
  /\ \A m, n \in Master : m = n
  /\ Volatile \subseteq Func /\ Committed \subseteq Func
  /\ MaxOut \in [Proc -> Nat]

NoNb == -1        \* an INNB (or a return number) that is not specified

(***************************************************************************)
(* A call.  FUNC/return n is the call with FUNC's value in func and n in   *)
(* ret; result is "void" until the call is run, then "ok" or "fail"        *)
(* (False); ackall is the field ACK*.                                      *)
(***************************************************************************)
Call == [from: Proc, outnb: Nat, to: Proc \cup {Group}, func: Func,
         ret: Nat \cup {NoNb}, innb: Nat \cup {NoNb},
         result: {"void", "ok", "fail"}, ack: BOOLEAN, ackall: BOOLEAN,
         sign: SUBSET Proc]

IsReturn(m) == m.ret # NoNb

(* The identity of a call: it is the nb-th one sent by its sender. *)
SameCall(m, n) == m.from = n.from /\ m.outnb = n.outnb

VARIABLES
  self,     \* SELF: each process's servlet
  in,       \* IN: messages received; never shrinks
  inptr,    \* INPTR: index of the next one to process, Len(in) + 1 for Nil
  rl,       \* IN!: the replay list
  out,      \* OUT: messages sent
  outptr,   \* OUTPTR: index of the next one to transmit, Len(out) + 1 for Nil
  state,    \* STATE
  cond      \* COND: index in rl of the entry whose acks are awaited, 0 for Nil

vars == <<self, in, inptr, rl, out, outptr, state, cond>>

TypeOK ==
  /\ DOMAIN self = Proc
  /\ in \in [Proc -> Seq(Call)]
  /\ inptr \in [Proc -> Nat \ {0}]
  /\ \A p \in Proc : inptr[p] <= Len(in[p]) + 1
  /\ rl \in [Proc -> Seq(Call)]
  /\ out \in [Proc -> Seq(Call)]
  /\ outptr \in [Proc -> Nat \ {0}]
  /\ \A p \in Proc : outptr[p] <= Len(out[p]) + 1
  /\ state \in [Proc -> {"Idle", "Active", "Waiting"}]
  /\ cond \in [Proc -> Nat]
  /\ \A p \in Proc : cond[p] <= Len(rl[p])

Init ==
  /\ self = [p \in Proc |-> Self0[p]]
  /\ in = [p \in Proc |-> <<>>]
  /\ inptr = [p \in Proc |-> 1]
  /\ rl = [p \in Proc |-> <<>>]
  /\ out = [p \in Proc |-> <<>>]
  /\ outptr = [p \in Proc |-> 1]
  /\ state = [p \in Proc |-> "Idle"]
  /\ cond = [p \in Proc |-> 0]

-----------------------------------------------------------------------------
(* Queues *)

InIdle(p) == inptr[p] > Len(in[p])
OutIdle(p) == outptr[p] > Len(out[p])

(* Faulty: a process that is Waiting is made Active by what it receives. *)
UpdatedWaiting(st, idle) == IF idle THEN "Idle" ELSE "Active"

(* update-state, for a process in state st whose queues are idle or not. *)
Updated(st, idle) ==
  IF st = "Active" /\ idle THEN "Idle"
  ELSE IF st = "Idle" /\ ~idle THEN "Active"
  ELSE st

(* msg-find on a whole queue, for the message that carries the same call. *)
Known(q, m) == \E i \in DOMAIN q : SameCall(q[i], m)

(* Faulty: duplicates are not dropped. *)
PostedAlways(q, m) == Append(q, m)

(* post-to: a message already received is dropped, unless it is an ack. *)
Posted(q, m) == IF Known(q, m) /\ ~m.ack THEN q ELSE Append(q, m)

(* The processes a message sent to the UID `to' is posted to. *)
Dest(to) == IF to = Group THEN Peer ELSE {to}

(* The sender of the call a return is about: its entry is in the master. *)
Caller(m) == rl[CHOOSE a \in Master : TRUE][m.ret + 1].from

-----------------------------------------------------------------------------
(* Sending *)

NewCall(p, nb, to, f, r) ==
  [from |-> p, outnb |-> nb, to |-> to, func |-> f, ret |-> r, innb |-> NoNb,
   result |-> "void", ack |-> FALSE, ackall |-> FALSE, sign |-> {}]

(***************************************************************************)
(* send: the call is pushed in OUT by proc-send0 before STATE is tested.   *)
(* When the sender is Waiting an error is reported, and the call stays in  *)
(* OUT.                                                                    *)
(***************************************************************************)
Push(p, to, f, r) ==
  /\ Len(out[p]) < MaxOut[p]
  /\ out' = [out EXCEPT ![p] = Append(@, NewCall(p, Len(@), to, f, r))]
  /\ state' = [state EXCEPT ![p] = IF @ = "Waiting" THEN @ ELSE "Active"]
  /\ UNCHANGED <<self, in, inptr, rl, outptr, cond>>

Send(p, to, f) == Push(p, to, f, NoNb)

(* FUNC/return n, for the entry n of the master's replay list. *)
SendReturn(p) == \E m \in Master : \E i \in DOMAIN rl[m] :
  Push(p, Group, rl[m][i].func, i - 1)

(***************************************************************************)
(* sync, run on member q while p is the current process: p sends the group *)
(* a return for every entry of the master's replay list that q has not     *)
(* received one for.  An error on the first send ends the loop.            *)
(***************************************************************************)
Returned(q) == {in[q][i].ret : i \in {j \in DOMAIN in[q] : ~in[q][j].ack}}

Missing(q, m) == {i \in DOMAIN rl[m] : rl[m][i].innb \notin Returned(q)}

(* The missing entries, in the order of the replay list. *)
InOrder(S) ==
  {f \in [1 .. Cardinality(S) -> S] : \A i, j \in DOMAIN f : i < j => f[i] < f[j]}

SyncCalls(p, m, f) ==
  [k \in DOMAIN f |-> NewCall(p, Len(out[p]) + k - 1, Group,
                              rl[m][f[k]].func, rl[m][f[k]].innb)]

SyncSend(p, calls) ==
  LET sent == IF state[p] = "Waiting" THEN <<calls[1]>> ELSE calls
  IN  /\ Len(out[p]) + Len(sent) <= MaxOut[p]
      /\ out' = [out EXCEPT ![p] = @ \o sent]
      /\ state' = [state EXCEPT ![p] = IF @ = "Waiting" THEN @ ELSE "Active"]
      /\ UNCHANGED <<self, in, inptr, rl, outptr, cond>>

Sync(p, q) == \E m \in Master : \E f \in InOrder(Missing(q, m)) :
  Missing(q, m) # {} /\ SyncSend(p, SyncCalls(p, m, f))

-----------------------------------------------------------------------------
(* Stepping *)

(* Faulty: the call is marked for those who receive it, before they run it. *)
MarksOfAll(p, to) == {p} \cup (Dest(to) \cap Peer)

(* The marks out-step adds. *)
Marks(p, to) == {p}

(* The next message of OUT, marked by its sender. *)
Transmitted(p) ==
  LET m == out[p][outptr[p]]
  IN  [m EXCEPT !.sign = @ \cup Marks(p, m.to)]

(* out-step: transmit the next message of OUT, whatever STATE is. *)
OutStep(p) ==
  LET m == Transmitted(p)
      idle(q) == inptr[q] > Len(in'[q]) /\ outptr'[q] > Len(out[q])
  IN  /\ ~OutIdle(p)
      /\ out' = [out EXCEPT ![p][outptr[p]] = m]
      /\ outptr' = [outptr EXCEPT ![p] = @ + 1]
      /\ in' = [q \in Proc |-> IF q \in Dest(m.to) THEN Posted(in[q], m)
                               ELSE in[q]]
      /\ state' = [q \in Proc |-> IF q \in Dest(m.to) \cup {p}
                                  THEN Updated(state[q], idle(q))
                                  ELSE state[q]]
      /\ UNCHANGED <<self, inptr, rl, cond>>

(* in-step only runs when out-step had nothing to do. *)
Ready(p, st) == OutIdle(p) /\ ~InIdle(p) /\ state[p] = st

Current(p) == in[p][inptr[p]]

(* Faulty: the message after the current one is lost. *)
ConsumeTwo(p) ==
  /\ inptr' = [inptr EXCEPT ![p] = @ + 2]
  /\ UNCHANGED <<out, outptr>>

(* The end of a step that consumed the message at INPTR. *)
Consume(p) ==
  /\ inptr' = [inptr EXCEPT ![p] = @ + 1]
  /\ UNCHANGED <<out, outptr>>

Idle(p) == inptr[p] + 1 > Len(in[p])

ReadAck(p) ==
  /\ Ready(p, "Active")
  /\ Current(p).ack
  /\ Consume(p)
  /\ state' = [state EXCEPT ![p] = Updated(@, Idle(p))]
  /\ UNCHANGED <<self, in, rl, cond>>

(* Faulty: whatever the result that was acked. *)
Acked(p) ==
  \E i \in DOMAIN in[p] : SameCall(in[p][i], Current(p)) /\ in[p][i].ack

(* Another peer has already acked the current call with a False result. *)
FailAcked(p) ==
  \E i \in DOMAIN in[p] : /\ SameCall(in[p][i], Current(p))
                          /\ in[p][i].ack /\ in[p][i].result = "fail"

SkipFailed(p) ==
  /\ Ready(p, "Active")
  /\ ~Current(p).ack
  /\ FailAcked(p)
  /\ in' = [in EXCEPT ![p][inptr[p]].result = "fail"]
  /\ Consume(p)
  /\ state' = [state EXCEPT ![p] = Updated(@, Idle(p))]
  /\ UNCHANGED <<self, rl, cond>>

(* Faulty: the method sees the process's own user as its sender. *)
RunAsOwner(p, m) ==
  IF IsReturn(m) THEN Return(self[p], p, Caller(m), m.func)
  ELSE Exec(self[p], p, m.func)

(* core-call: SELF once the method has been run for the call's sender. *)
Run(p, m) ==
  IF IsReturn(m) THEN Return(self[p], m.from, Caller(m), m.func)
  ELSE Exec(self[p], m.from, m.func)

Succeeds(p) ==
  IsReturn(Current(p)) \/ Accepts(self[p], Current(p).from, Current(p).func)

Durable(p) == IsReturn(Current(p)) \/ Current(p).func \notin Volatile

(* The current call is logged in IN! unless it is volatile or failed; ...  *)
Logs(p) == Succeeds(p) /\ Durable(p)

(* ... it is acked, failed or not, when it was sent to the group; ...      *)
Acks(p) == Durable(p) /\ Current(p).to = Group /\ p \notin Master

(* ... and, when it has not failed, the other peers' acks are waited for.  *)
Awaits(p) == Acks(p) /\ Succeeds(p)

(* The current call, with its result. *)
Ran(p) == [Current(p) EXCEPT !.result = IF Succeeds(p) THEN "ok" ELSE "fail"]

(* Its entry in IN!: numbered, and marked by this process. *)
Entry(p) == [Ran(p) EXCEPT !.innb = Len(rl[p]), !.sign = @ \cup {p}]

(* What is left of it in IN. *)
Done(p) == [Ran(p) EXCEPT !.innb = IF Logs(p) THEN Len(rl[p]) ELSE @]

Ack(p) == [IF Logs(p) THEN Entry(p) ELSE Ran(p) EXCEPT !.ack = TRUE]

(* core-call-RSM on the current call, then proc-await-acks. *)
Execute(p) ==
  /\ Ready(p, "Active")
  /\ ~Current(p).ack
  /\ ~FailAcked(p)
  /\ self' = [self EXCEPT ![p] = Run(p, Current(p))]
  /\ rl' = [rl EXCEPT ![p] = IF Logs(p) THEN Append(@, Entry(p)) ELSE @]
  /\ in' = [q \in Proc |->
              IF q = p THEN [in[p] EXCEPT ![inptr[p]] = Done(p)]
              ELSE IF Acks(p) /\ q \in Peer THEN Append(in[q], Ack(p))
              ELSE in[q]]
  /\ Consume(p)
  /\ state' = [q \in Proc |->
                 IF q = p THEN IF Awaits(p) THEN "Waiting"
                               ELSE Updated(state[p], Idle(p))
                 ELSE IF Acks(p) /\ q \in Peer THEN Updated(state[q], FALSE)
                 ELSE state[q]]
  /\ cond' = [cond EXCEPT ![p] = IF Awaits(p) THEN Len(rl[p]) + 1 ELSE @]

(* Faulty: the search starts after the next message. *)
AcksAfter(p, q) ==
  LET e == rl[p][cond[p]]
  IN  {i \in inptr[p] + 1 .. Len(in[p]) :
         /\ SameCall(in[p][i], e) /\ in[p][i].innb = e.innb
         /\ in[p][i].ack /\ q \in in[p][i].sign}

(* Faulty: any peer's ack is taken for q's. *)
AcksOfAny(p, q) ==
  LET e == rl[p][cond[p]]
  IN  {i \in inptr[p] .. Len(in[p]) :
         SameCall(in[p][i], e) /\ in[p][i].innb = e.innb /\ in[p][i].ack}

(***************************************************************************)
(* proc-await-cond: the awaited entry must have, for each other peer, an   *)
(* ack not processed yet that carries the same INNB and that peer's mark.  *)
(***************************************************************************)
AcksOf(p, q) ==
  LET e == rl[p][cond[p]]
  IN  {i \in inptr[p] .. Len(in[p]) :
         /\ SameCall(in[p][i], e) /\ in[p][i].innb = e.innb
         /\ in[p][i].ack /\ q \in in[p][i].sign}

FirstAck(p, q) == CHOOSE i \in AcksOf(p, q) : \A j \in AcksOf(p, q) : i <= j

AllAcks(p) == \A q \in Peer \ {p} : AcksOf(p, q) # {}

(* Faulty: the marks found replace those of the entry. *)
Replaced(p) ==
  LET sign == UNION {in[p][FirstAck(p, q)].sign : q \in Peer \ {p}}
  IN  [rl[p][cond[p]] EXCEPT !.sign = sign, !.ackall = (Peer \subseteq sign)]

(* sign:+ and signed-all? on the awaited entry. *)
Merged(p) ==
  LET e == rl[p][cond[p]]
      sign == e.sign \cup UNION {in[p][FirstAck(p, q)].sign : q \in Peer \ {p}}
  IN  [e EXCEPT !.sign = sign, !.ackall = (Peer \subseteq sign)]

(* Faulty: left to the sender. *)
CommitsOwn(p, e) ==
  e.from = p /\ e.ackall /\ ~IsReturn(e) /\ e.func \in Committed

(* The awaited entry e of p goes to the master. *)
Commits(p, e) == e.ackall /\ ~IsReturn(e) /\ e.func \in Committed

(* Faulty: without a master there is nothing to post. *)
NoMasterNoPost(p, e) == TRUE

(* post-to-master resolves the group's PARENT, and fails without one. *)
Postable(p, e) == Commits(p, e) => Master # {}

(* The processes the awaited entry is posted to. *)
CommitsTo(p) == IF Commits(p, Merged(p)) THEN Master ELSE {}

(* The wait is over.  A committed call is posted to the master. *)
Resume(p) ==
  /\ Ready(p, "Waiting")
  /\ AllAcks(p)
  /\ Postable(p, Merged(p))
  /\ rl' = [rl EXCEPT ![p][cond[p]] = Merged(p)]
  /\ in' = [q \in Proc |-> IF q \in CommitsTo(p) THEN Posted(in[q], Merged(p))
                           ELSE in[q]]
  /\ cond' = [cond EXCEPT ![p] = 0]
  /\ state' = [q \in Proc |->
                 IF q = p THEN Updated("Active", InIdle(p))
                 ELSE IF q \in CommitsTo(p)
                 THEN Updated(state[q], inptr[q] > Len(in'[q]) /\ OutIdle(q))
                 ELSE state[q]]
  /\ UNCHANGED <<self, inptr, out, outptr>>

(* The error leaves the merged entry behind, and the process waiting. *)
ResumeError(p) ==
  /\ Ready(p, "Waiting")
  /\ AllAcks(p)
  /\ ~Postable(p, Merged(p))
  /\ rl' = [rl EXCEPT ![p][cond[p]] = Merged(p)]
  /\ UNCHANGED <<self, in, inptr, out, outptr, state, cond>>

Step(p) == \/ OutStep(p)
           \/ ReadAck(p)
           \/ SkipFailed(p)
           \/ Execute(p)
           \/ Resume(p)
           \/ ResumeError(p)

UserCommand(p) == \/ \E to \in DOMAIN Method : \E f \in Method[to] : Send(p, to, f)
                  \/ SendReturn(p)
                  \/ \E q \in Peer : Sync(p, q)

Next == \E p \in Proc : UserCommand(p) \/ Step(p)

Spec == Init /\ [][Next]_vars

(* step, without a process, steps all of them again until none can. *)
Fairness == \A p \in Proc : WF_vars(Step(p))

FairSpec == Spec /\ Fairness

=============================================================================
