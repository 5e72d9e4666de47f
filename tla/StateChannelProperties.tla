----------------------- MODULE StateChannelProperties -----------------------
(***************************************************************************)
(* What the group's protocol promises.  MANUAL.txt states it as: the       *)
(* processes of a state channel remain exact mirrors of one another, and   *)
(* the replay list recreates their state.                                  *)
(***************************************************************************)
EXTENDS StateChannel

(* The peers start from the same SELF, and only volatile calls are sent to *)
(* one of them alone.                                                      *)
Mirrored ==
  /\ \A p, q \in Peer : Self0[p] = Self0[q]
  /\ \A p \in Peer : Method[p] \subseteq Volatile

(* A process is Idle exactly when both its queues are, and waits exactly   *)
(* when COND is set, for the entry it has logged last; the master, which   *)
(* acks nothing, never waits (procs.ss IN/INPTR, procl.ss update-state and *)
(* proc-await-acks).                                                       *)
QueueState ==
  \A p \in Proc :
    /\ state[p] = "Idle" <=> (InIdle(p) /\ OutIdle(p) /\ state[p] # "Waiting")
    /\ state[p] = "Waiting" <=> cond[p] # 0
    /\ cond[p] # 0 => cond[p] = Len(rl[p]) /\ p \notin Master

(* A call is executed at most once by a process, however often it or its   *)
(* acks are received: post-to drops the duplicates and in-step skips the   *)
(* acks (MANUAL: a message can occur only once).                           *)
OncePerCall ==
  \A p \in Proc : \A i, j \in DOMAIN rl[p] :
    SameCall(rl[p][i], rl[p][j]) => i = j

(* The number a peer gives to a call in its replay list (INNB), which its  *)
(* acks carry, is the one every other peer gives it: no peer ever logs     *)
(* two calls of the group in another order than its mirrors.               *)
ReplayListsAgree ==
  \A p, q \in Peer : \A i \in DOMAIN rl[p] \cap DOMAIN rl[q] :
    LET d == rl[p][i]
        e == rl[q][i]
    IN  SameCall(d, e) /\ d.func = e.func /\ d.ret = e.ret /\ d.innb = e.innb

(* A peer's SELF is what executing its replay list from the start gives:   *)
(* nothing that is not in IN! has changed it, a failed call included.      *)
Applied(s, e, caller) ==
  IF IsReturn(e) THEN Return(s, e.from, caller, e.func) ELSE Exec(s, e.from, e.func)

CallerOf(e) == IF IsReturn(e) THEN Caller(e) ELSE e.from

ReplayOf(s, entries, callers) ==
  LET after[n \in 0 .. Len(entries)] ==
        IF n = 0 THEN s ELSE Applied(after[n - 1], entries[n], callers[n])
  IN  after

(* SELF after each of the entries. *)
After(p) ==
  ReplayOf(Self0[p], rl[p], [n \in DOMAIN rl[p] |-> CallerOf(rl[p][n])])

Replay(p) == After(p)[Len(rl[p])]

SelfIsReplay == \A p \in Proc : self[p] = Replay(p)

(* A mark on a logged call is never premature: if q's is there and q is    *)
(* not the sender (who marks the call when it transmits it), q has logged  *)
(* that very call under the same INNB.                                     *)
SignedMeansLogged ==
  \A p \in Peer : \A i \in DOMAIN rl[p] : \A q \in (rl[p][i].sign \cap Peer) \ {rl[p][i].from} :
    i \in DOMAIN rl[q] /\ SameCall(rl[p][i], rl[q][i])

(* When no process can take a step, none is left Waiting: the acks a peer  *)
(* waits for are always on their way (proc-await-cond searches INPTR only, *)
(* so an ack read too early would be lost).                                *)
Stuck(p) ==
  OutIdle(p) /\ (InIdle(p) \/ (state[p] = "Waiting" /\ ~AllAcks(p)))

NoDeadlock == (\A p \in Proc : Stuck(p)) => \A p \in Proc : state[p] = "Idle"

(* The master logs a committed call only after some peer saw it acked by   *)
(* all, and logs two of them in the order of the peers' replay lists       *)
(* although any of the peers may be the one that posts them.               *)
CommittedInOrder ==
  \A m \in Master : \A i \in DOMAIN rl[m] :
    rl[m][i].to = Group =>
      /\ \E p \in Peer : \E n \in DOMAIN rl[p] :
           SameCall(rl[p][n], rl[m][i]) /\ rl[p][n].ackall
      /\ \A j \in 1 .. i - 1 : rl[m][j].to = Group =>
           \A p \in Peer : \A k, n \in DOMAIN rl[p] :
             SameCall(rl[p][k], rl[m][j]) /\ SameCall(rl[p][n], rl[m][i]) => k < n

(* No committed call is forgotten: once a peer has it acked by all, the    *)
(* master has received it.                                                 *)
CommittedReachMaster ==
  \A p \in Peer : \A n \in DOMAIN rl[p] :
    LET e == rl[p][n]
    IN  e.ackall /\ ~IsReturn(e) /\ e.func \in Committed =>
          \A m \in Master : Known(in[m], e)

(* Without a master, a committed call that all have acked is the last one  *)
(* a peer logs: post-to-master's error keeps it waiting there.             *)
MasterlessCommit ==
  Master = {} =>
    \A p \in Peer : \A n \in DOMAIN rl[p] :
      LET e == rl[p][n]
      IN  e.ackall /\ ~IsReturn(e) /\ e.func \in Committed =>
            n = Len(rl[p]) /\ cond[p] = n

(* Once logged, an entry keeps its call and number, and loses neither a    *)
(* mark nor ACK*, while acks are merged into it.                           *)
ReplayListGrows ==
  [][\A p \in Proc : \A i \in DOMAIN rl[p] :
       /\ i \in DOMAIN rl'[p]
       /\ SameCall(rl[p][i], rl'[p][i])
       /\ rl[p][i].sign \subseteq rl'[p][i].sign
       /\ rl[p][i].ackall => rl'[p][i].ackall]_vars

(* A call sent to the group is, in the end, failed by every peer, or run   *)
(* by every peer and, unless it is volatile, acked by all of them.         *)
Settled(q, p, k) ==
  \E i \in DOMAIN in[q] :
    LET e == in[q][i]
    IN  /\ e.from = p /\ e.outnb = k - 1 /\ ~e.ack /\ i < inptr[q]
        /\ \/ e.result = "fail"
           \/ e.result = "ok" /\ e.innb = NoNb /\ e.func \in Volatile
           \/ e.innb # NoNb /\ rl[q][e.innb + 1].ackall

EveryCallSettles ==
  \A p \in Proc : \A k \in 1 .. MaxOut[p] :
    (k \in DOMAIN out[p] /\ out[p][k].to = Group)
      ~> (\A q \in Peer : Settled(q, p, k))

-----------------------------------------------------------------------------
(***************************************************************************)
(* The group's protocol implements CallLog: the log is the longest replay  *)
(* list, a peer has applied what it has logged, and all of that is settled *)
(* but the entry whose acks it awaits.                                     *)
(***************************************************************************)
Longest == CHOOSE p \in Peer : \A q \in Peer : Len(rl[p]) >= Len(rl[q])

RequestOf(e) == <<e.outnb, e.func, e.ret>>

LogEntry(e) == [from |-> e.from, req |-> RequestOf(e)]

Log == INSTANCE CallLog WITH
  Sender <- Proc,
  Request <- Nat \X Func \X Int,
  asked <- UNION {{LogEntry(out[p][i]) : i \in DOMAIN out[p]} : p \in Proc},
  log <- [i \in DOMAIN rl[Longest] |-> LogEntry(rl[Longest][i])],
  applied <- [p \in Peer |-> Len(rl[p])],
  settled <- [p \in Peer |-> Len(rl[p]) - (IF cond[p] = 0 THEN 0 ELSE 1)]

(* Every step of the protocol is a step of CallLog, or leaves it alone.    *)
ImplementsCallLog == Log!LogSpec

-----------------------------------------------------------------------------
(* Said of the program, and not so. *)

(* procl.ss:60: "should ensure the same return is not evaluated 2 times".  *)
ReturnedOnce ==
  \A p \in Peer : \A i, j \in DOMAIN rl[p] :
    IsReturn(rl[p][i]) /\ rl[p][i].ret = rl[p][j].ret => i = j

=============================================================================
