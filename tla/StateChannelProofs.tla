------------------------- MODULE StateChannelProofs -------------------------
(***************************************************************************)
(* Theorems about the replication protocol, for any group, servlet and     *)
(* bound: types and queues; a call executed once, marks that are true,     *)
(* committed calls that reach the master (SafetyInv); then, of servlets    *)
(* that do what Servlets says, that the peers are mirrors of one another,  *)
(* and that the group implements one log of calls.  Last, over hosts: the  *)
(* marks are still true and SELF is still the replay of IN!, whatever is   *)
(* lost; between two hosts acks follow their calls and, until a message is *)
(* lost, the calls of a single sender reach all and enter one log.         *)
(***************************************************************************)
EXTENDS StateChannelInvariants, FiniteSetTheorems, WellFoundedInduction, TLAPS

LEMMA UpdatedType ==
  ASSUME NEW st \in {"Idle", "Active", "Waiting"}, NEW idle \in BOOLEAN
  PROVE  Updated(st, idle) \in {"Idle", "Active", "Waiting"}
BY DEF Updated

LEMMA PostedType ==
  ASSUME NEW q \in Seq(Call), NEW m \in Call
  PROVE  /\ Posted(q, m) \in Seq(Call)
         /\ Len(q) <= Len(Posted(q, m))
BY DEF Posted

LEMMA NewCallType ==
  ASSUME NEW p \in Proc, NEW nb \in Nat, NEW to \in Proc \cup {Group},
         NEW f \in Func, NEW r \in Nat \cup {NoNb}
  PROVE  NewCall(p, nb, to, f, r) \in Call
BY DEF NewCall, Call, NoNb

LEMMA PushType ==
  ASSUME TypeOK, NEW p \in Proc, NEW to \in Proc \cup {Group},
         NEW f \in Func, NEW r \in Nat \cup {NoNb}, Push(p, to, f, r)
  PROVE  TypeOK'
<1>1. NewCall(p, Len(out[p]), to, f, r) \in Call
  <2>1. Len(out[p]) \in Nat
    BY DEF TypeOK
  <2>2. QED
    BY <2>1, NewCallType
<1>2. out' \in [Proc -> Seq(Call)] /\ \A q \in Proc : Len(out[q]) <= Len(out'[q])
  BY <1>1 DEF TypeOK, Push
<1>3. QED
  BY <1>2 DEF TypeOK, Push

LEMMA SendType ==
  ASSUME TypeOK, NEW p \in Proc, NEW to \in DOMAIN Method, NEW f \in Method[to],
         Send(p, to, f)
  PROVE  TypeOK'
BY PushType, ProcAssumption DEF Send, Proc, NoNb

LEMMA SendReturnType ==
  ASSUME TypeOK, NEW p \in Proc, SendReturn(p)
  PROVE  TypeOK'
<1>1. PICK m \in Master : \E i \in DOMAIN rl[m] : Push(p, Group, rl[m][i].func, i - 1)
  BY DEF SendReturn
<1>2. PICK i \in DOMAIN rl[m] : Push(p, Group, rl[m][i].func, i - 1)
  BY <1>1
<1>3. rl[m] \in Seq(Call)
  BY DEF TypeOK, Proc
<1>4. rl[m][i] \in Call /\ i \in Nat \ {0}
  BY <1>3
<1>5. rl[m][i].func \in Func /\ i - 1 \in Nat
  BY <1>4 DEF Call
<1>6. QED
  BY <1>2, <1>5, PushType

LEMMA SyncCallsType ==
  ASSUME TypeOK, NEW p \in Proc, NEW q \in Peer, NEW m \in Master,
         NEW f \in InOrder(Missing(q, m)), Missing(q, m) # {}
  PROVE  SyncCalls(p, m, f) \in Seq(Call) /\ SyncCalls(p, m, f) # <<>>
<1> DEFINE n == Cardinality(Missing(q, m))
<1>1. rl[m] \in Seq(Call) /\ Len(rl[m]) \in Nat /\ DOMAIN rl[m] = 1 .. Len(rl[m])
  BY DEF TypeOK, Proc
<1>2. IsFiniteSet(Missing(q, m)) /\ Missing(q, m) \subseteq DOMAIN rl[m]
  <2>1. Missing(q, m) \subseteq 1 .. Len(rl[m])
    BY <1>1 DEF Missing
  <2>2. IsFiniteSet(1 .. Len(rl[m]))
    BY <1>1, FS_Interval
  <2>3. QED
    BY <1>1, <2>1, <2>2, FS_Subset
<1>3. n \in Nat /\ n # 0
  BY <1>2, FS_CardinalityType, FS_EmptySet
<1>4. f \in [1 .. n -> DOMAIN rl[m]]
  BY <1>2 DEF InOrder
<1>5. ASSUME NEW k \in 1 .. n
      PROVE  SyncCalls(p, m, f)[k] \in Call
  <2>1. rl[m][f[k]] \in Call
    BY <1>1, <1>4
  <2>2. rl[m][f[k]].func \in Func /\ rl[m][f[k]].innb \in Nat \cup {NoNb}
    BY <2>1 DEF Call
  <2>3. Len(out[p]) + k - 1 \in Nat
    BY <1>3 DEF TypeOK
  <2>4. SyncCalls(p, m, f)[k] =
          NewCall(p, Len(out[p]) + k - 1, Group, rl[m][f[k]].func, rl[m][f[k]].innb)
    BY <1>4 DEF SyncCalls
  <2>5. QED
    BY <2>2, <2>3, <2>4, NewCallType
<1>6. DOMAIN SyncCalls(p, m, f) = 1 .. n /\ SyncCalls(p, m, f) = [k \in 1 .. n |-> SyncCalls(p, m, f)[k]]
  BY <1>4 DEF SyncCalls
<1>7. SyncCalls(p, m, f) \in [1 .. n -> Call]
  BY <1>5, <1>6
<1>8. QED
  BY <1>3, <1>7

LEMMA SyncType ==
  ASSUME TypeOK, NEW p \in Proc, NEW q \in Peer, Sync(p, q)
  PROVE  TypeOK'
<1>1. PICK m \in Master : \E f \in InOrder(Missing(q, m)) :
        Missing(q, m) # {} /\ SyncSend(p, SyncCalls(p, m, f))
  BY DEF Sync
<1>2. PICK f \in InOrder(Missing(q, m)) :
        Missing(q, m) # {} /\ SyncSend(p, SyncCalls(p, m, f))
  BY <1>1
<1> DEFINE calls == SyncCalls(p, m, f)
           sent == IF state[p] = "Waiting" THEN <<calls[1]>> ELSE calls
<1>3. calls \in Seq(Call) /\ calls # <<>>
  BY <1>2, SyncCallsType
<1>4. sent \in Seq(Call)
  <2> HIDE DEF calls
  <2>1. calls[1] \in Call
    BY <1>3
  <2>2. QED
    BY <1>3, <2>1
<1>5. SyncSend(p, calls)
  BY <1>2
<1> HIDE DEF calls
<1>6. out' = [out EXCEPT ![p] = @ \o sent]
  BY <1>5 DEF SyncSend
<1> HIDE DEF sent
<1>7. out' \in [Proc -> Seq(Call)] /\ \A r \in Proc : Len(out[r]) <= Len(out'[r])
  BY <1>4, <1>6 DEF TypeOK
<1>8. QED
  BY <1>5, <1>7 DEF TypeOK, SyncSend

LEMMA OutStepType ==
  ASSUME TypeOK, NEW p \in Proc, OutStep(p)
  PROVE  TypeOK'
<1> DEFINE i == outptr[p]
           m == Transmitted(p)
<1>1. /\ ~OutIdle(p)
      /\ out' = [out EXCEPT ![p][i] = m]
      /\ outptr' = [outptr EXCEPT ![p] = @ + 1]
      /\ in' = [q \in Proc |-> IF q \in Dest(m.to) THEN Posted(in[q], m) ELSE in[q]]
      /\ state' = [q \in Proc |->
                     IF q \in Dest(m.to) \cup {p}
                     THEN Updated(state[q], /\ inptr[q] > Len(in'[q])
                                            /\ outptr'[q] > Len(out[q]))
                     ELSE state[q]]
      /\ UNCHANGED <<self, inptr, rl, cond>>
  BY DEF OutStep
<1>2. i \in DOMAIN out[p] /\ out[p] \in Seq(Call)
  BY <1>1 DEF OutIdle, TypeOK
<1>3. m \in Call
  <2>1. out[p][i] \in Call
    BY <1>2
  <2>2. QED
    BY <2>1 DEF Transmitted, Call, Marks
<1> HIDE DEF m
<1>4. /\ out' \in [Proc -> Seq(Call)]
      /\ \A q \in Proc : Len(out'[q]) = Len(out[q])
  BY <1>1, <1>2, <1>3 DEF TypeOK
<1>5. /\ in' \in [Proc -> Seq(Call)]
      /\ \A q \in Proc : Len(in[q]) <= Len(in'[q])
  <2>1. ASSUME NEW q \in Proc
        PROVE  in'[q] \in Seq(Call) /\ Len(in[q]) <= Len(in'[q])
    <3>1. in[q] \in Seq(Call) /\ Len(in[q]) \in Nat
      BY DEF TypeOK
    <3>2. Posted(in[q], m) \in Seq(Call) /\ Len(in[q]) <= Len(Posted(in[q], m))
      BY <1>3, <3>1, PostedType
    <3>3. in'[q] = IF q \in Dest(m.to) THEN Posted(in[q], m) ELSE in[q]
      BY <1>1
    <3>4. QED
      BY <3>1, <3>2, <3>3
  <2>2. in' = [q \in Proc |-> in'[q]]
    BY <1>1
  <2>3. QED
    BY <2>1, <2>2
<1>6. outptr' \in [Proc -> Nat \ {0}] /\ \A q \in Proc : outptr'[q] <= Len(out'[q]) + 1
  BY <1>1, <1>2, <1>4 DEF TypeOK
<1>7. state' \in [Proc -> {"Idle", "Active", "Waiting"}]
  BY <1>1, UpdatedType DEF TypeOK
<1>8. \A q \in Proc : inptr'[q] <= Len(in'[q]) + 1
  <2>1. ASSUME NEW q \in Proc
        PROVE  inptr'[q] <= Len(in'[q]) + 1
    <3>1. in[q] \in Seq(Call) /\ in'[q] \in Seq(Call)
      BY <1>5 DEF TypeOK
    <3>2. Len(in[q]) \in Nat /\ Len(in'[q]) \in Nat
      BY <3>1
    <3> inptr[q] \in Nat
      BY DEF TypeOK
    <3>3. inptr[q] <= Len(in[q]) + 1 /\ inptr'[q] = inptr[q]
      BY <1>1 DEF TypeOK
    <3>4. QED
      BY <1>5, <3>2, <3>3
  <2>2. QED
    BY <2>1
<1>9. QED
  BY <1>1, <1>4, <1>5, <1>6, <1>7, <1>8 DEF TypeOK

(* What a step that consumes a message relies on. *)
LEMMA CurrentType ==
  ASSUME TypeOK, NEW p \in Proc, ~InIdle(p)
  PROVE  /\ inptr[p] \in DOMAIN in[p]
         /\ Current(p) \in Call
BY DEF TypeOK, InIdle, Current

LEMMA ConsumeType ==
  ASSUME TypeOK, NEW p \in Proc, ~InIdle(p), Consume(p)
  PROVE  /\ inptr' \in [Proc -> Nat \ {0}]
         /\ \A q \in Proc : inptr'[q] <= Len(in[q]) + 1
<1>1. inptr' = [inptr EXCEPT ![p] = inptr[p] + 1] /\ inptr \in [Proc -> Nat \ {0}]
  BY DEF Consume, TypeOK
<1>2. inptr[p] + 1 \in Nat \ {0}
  BY <1>1
<1>3. inptr' \in [Proc -> Nat \ {0}]
  BY <1>1, <1>2
<1>4. ASSUME NEW q \in Proc
      PROVE  inptr'[q] <= Len(in[q]) + 1
  <2>1. Len(in[q]) \in Nat /\ inptr[q] \in Nat /\ inptr[q] <= Len(in[q]) + 1
    BY DEF TypeOK
  <2>2. CASE q = p
    BY <1>1, <2>1, <2>2 DEF InIdle
  <2>3. CASE q # p
    BY <1>1, <2>1, <2>3
  <2>4. QED
    BY <2>2, <2>3
<1>5. QED
  BY <1>3, <1>4

LEMMA UpdatedStateType ==
  ASSUME TypeOK, NEW p \in Proc, state' = [state EXCEPT ![p] = Updated(@, Idle(p))]
  PROVE  state' \in [Proc -> {"Idle", "Active", "Waiting"}]
<1>1. state[p] \in {"Idle", "Active", "Waiting"} /\ Idle(p) \in BOOLEAN
  BY DEF TypeOK, Idle
<1>2. Updated(state[p], Idle(p)) \in {"Idle", "Active", "Waiting"}
  BY <1>1, UpdatedType
<1>3. QED
  BY <1>2 DEF TypeOK

LEMMA ReadAckType ==
  ASSUME TypeOK, NEW p \in Proc, ReadAck(p)
  PROVE  TypeOK'
<1>1. state' \in [Proc -> {"Idle", "Active", "Waiting"}]
  BY UpdatedStateType DEF ReadAck
<1>2. inptr' \in [Proc -> Nat \ {0}] /\ \A q \in Proc : inptr'[q] <= Len(in[q]) + 1
  BY ConsumeType DEF ReadAck, Ready
<1>3. QED
  BY <1>1, <1>2 DEF ReadAck, Consume, TypeOK

LEMMA SkipFailedType ==
  ASSUME TypeOK, NEW p \in Proc, SkipFailed(p)
  PROVE  TypeOK'
<1>1. inptr[p] \in DOMAIN in[p] /\ Current(p) \in Call
  BY CurrentType DEF SkipFailed, Ready
<1>2. state' \in [Proc -> {"Idle", "Active", "Waiting"}]
  BY UpdatedStateType DEF SkipFailed
<1>3. [Current(p) EXCEPT !.result = "fail"] \in Call
  BY <1>1 DEF Call
<1>4. in' = [in EXCEPT ![p] = [@ EXCEPT ![inptr[p]] = [Current(p) EXCEPT !.result = "fail"]]]
  BY DEF SkipFailed, Current
<1>5. in' \in [Proc -> Seq(Call)] /\ \A q \in Proc : Len(in'[q]) = Len(in[q])
  BY <1>1, <1>3, <1>4 DEF TypeOK
<1>6. inptr' \in [Proc -> Nat \ {0}] /\ \A q \in Proc : inptr'[q] <= Len(in[q]) + 1
  BY ConsumeType DEF SkipFailed, Ready
<1>7. QED
  BY <1>2, <1>5, <1>6 DEF SkipFailed, Consume, TypeOK

(* The copies of the current call that Execute makes.                      *)
LEMMA ExecuteCalls ==
  ASSUME TypeOK, NEW p \in Proc, ~InIdle(p)
  PROVE  Entry(p) \in Call /\ Done(p) \in Call /\ Ack(p) \in Call
<1>1. Current(p) \in Call
  BY CurrentType
<1>2. Len(rl[p]) \in Nat
  BY DEF TypeOK
<1>3. Ran(p) \in Call
  BY <1>1 DEF Ran, Call
<1>4. Entry(p) \in Call /\ Done(p) \in Call
  BY <1>2, <1>3 DEF Entry, Done, Call
<1>5. QED
  BY <1>3, <1>4, ZenonT(40) DEF Ack, Call

(* What Execute does to each sequence.                                     *)
LEMMA ExecuteFacts ==
  ASSUME TypeOK, NEW p \in Proc, Execute(p)
  PROVE  /\ ~InIdle(p) /\ OutIdle(p) /\ state[p] = "Active"
         /\ inptr[p] \in DOMAIN in[p]
         /\ Awaits(p) => Logs(p) /\ p \notin Master
         /\ rl' \in [Proc -> Seq(Call)]
         /\ \A q \in Proc : q # p => rl'[q] = rl[q]
         /\ rl'[p] = IF Logs(p) THEN Append(rl[p], Entry(p)) ELSE rl[p]
         /\ in' \in [Proc -> Seq(Call)]
         /\ in'[p] = [in[p] EXCEPT ![inptr[p]] = Done(p)]
         /\ Len(in'[p]) = Len(in[p])
         /\ \A q \in Proc : q # p =>
              in'[q] = IF Acks(p) /\ q \in Peer THEN Append(in[q], Ack(p)) ELSE in[q]
<1>1. ~InIdle(p) /\ OutIdle(p) /\ state[p] = "Active"
  BY DEF Execute, Ready
<1>2. Entry(p) \in Call /\ Done(p) \in Call /\ Ack(p) \in Call
  BY <1>1, ExecuteCalls
<1>3. inptr[p] \in DOMAIN in[p]
  BY <1>1, CurrentType
<1>4. Awaits(p) => Logs(p) /\ p \notin Master
  BY DEF Awaits, Acks, Logs
<1>5. rl' = [rl EXCEPT ![p] = IF Logs(p) THEN Append(@, Entry(p)) ELSE @]
  BY DEF Execute
<1>6. in' = [q \in Proc |-> IF q = p THEN [in[p] EXCEPT ![inptr[p]] = Done(p)]
                            ELSE IF Acks(p) /\ q \in Peer THEN Append(in[q], Ack(p))
                            ELSE in[q]]
  BY DEF Execute
<1>7. /\ rl' \in [Proc -> Seq(Call)]
      /\ \A q \in Proc : q # p => rl'[q] = rl[q]
      /\ rl'[p] = IF Logs(p) THEN Append(rl[p], Entry(p)) ELSE rl[p]
  BY <1>2, <1>5 DEF TypeOK
<1>8. ASSUME NEW q \in Proc
      PROVE  in'[q] \in Seq(Call) /\ (q = p => Len(in'[q]) = Len(in[q]))
  <2>1. in[q] \in Seq(Call)
    BY DEF TypeOK
  <2>2. CASE q = p
    BY <1>2, <1>3, <1>6, <2>1, <2>2
  <2>3. CASE q # p
    BY <1>2, <1>6, <2>1, <2>3
  <2>4. QED
    BY <2>2, <2>3
<1>9. in' \in [Proc -> Seq(Call)]
  BY <1>6, <1>8
<1>10. QED
  BY <1>1, <1>3, <1>4, <1>6, <1>7, <1>8, <1>9

LEMMA ExecuteType ==
  ASSUME TypeOK, NEW p \in Proc, Execute(p)
  PROVE  TypeOK'
<1>1. /\ self' = [self EXCEPT ![p] = Run(p, Current(p))]
      /\ Consume(p)
      /\ state' = [q \in Proc |->
                     IF q = p THEN IF Awaits(p) THEN "Waiting"
                                   ELSE Updated(state[p], Idle(p))
                     ELSE IF Acks(p) /\ q \in Peer THEN Updated(state[q], FALSE)
                     ELSE state[q]]
      /\ cond' = [cond EXCEPT ![p] = IF Awaits(p) THEN Len(rl[p]) + 1 ELSE @]
  BY DEF Execute
<1>2. in' \in [Proc -> Seq(Call)] /\ rl' \in [Proc -> Seq(Call)]
  BY ExecuteFacts
<1>3. ASSUME NEW q \in Proc
      PROVE  /\ Len(in[q]) \in Nat /\ Len(in'[q]) \in Nat /\ Len(in[q]) <= Len(in'[q])
             /\ Len(rl[q]) \in Nat /\ Len(rl'[q]) \in Nat /\ Len(rl[q]) <= Len(rl'[q])
  <2>1. in[q] \in Seq(Call) /\ rl[q] \in Seq(Call)
    BY DEF TypeOK
  <2>2. in'[q] \in Seq(Call) /\ rl'[q] \in Seq(Call)
    BY <1>2
  <2>3. Ack(p) \in Call /\ Entry(p) \in Call
    BY ExecuteCalls DEF Execute, Ready
  <2>4. Len(in[q]) <= Len(in'[q])
    <3>1. in'[q] = in[q] \/ in'[q] = Append(in[q], Ack(p)) \/ Len(in'[q]) = Len(in[q])
      BY ExecuteFacts
    <3>2. QED
      BY <2>1, <2>2, <2>3, <3>1
  <2>5. Len(rl[q]) <= Len(rl'[q])
    <3>1. rl'[q] = rl[q] \/ rl'[q] = Append(rl[q], Entry(p))
      BY ExecuteFacts
    <3>2. QED
      BY <2>1, <2>3, <3>1
  <2>6. QED
    BY <2>1, <2>2, <2>4, <2>5
<1>4. state' \in [Proc -> {"Idle", "Active", "Waiting"}]
  <2>1. ASSUME NEW q \in Proc
        PROVE  state'[q] \in {"Idle", "Active", "Waiting"}
    <3>1. state[q] \in {"Idle", "Active", "Waiting"} /\ Idle(p) \in BOOLEAN
      BY DEF TypeOK, Idle
    <3>2. /\ Updated(state[q], FALSE) \in {"Idle", "Active", "Waiting"}
          /\ Updated(state[q], Idle(p)) \in {"Idle", "Active", "Waiting"}
      BY <3>1, UpdatedType
    <3>3. QED
      BY <1>1, <3>1, <3>2
  <2>2. state' = [q \in Proc |-> state'[q]]
    BY <1>1
  <2>3. QED
    BY <2>1, <2>2
<1>5. cond' \in [Proc -> Nat] /\ \A q \in Proc : cond'[q] <= Len(rl'[q])
  <2>1. cond \in [Proc -> Nat] /\ \A q \in Proc : cond[q] <= Len(rl[q])
    BY DEF TypeOK
  <2>2. cond' \in [Proc -> Nat]
    BY <1>1, <1>3, <2>1
  <2>3. Awaits(p) => Len(rl'[p]) = Len(rl[p]) + 1
    <3>1. rl[p] \in Seq(Call) /\ Entry(p) \in Call
      BY ExecuteCalls DEF Execute, Ready, TypeOK
    <3>2. Awaits(p) => rl'[p] = Append(rl[p], Entry(p))
      BY ExecuteFacts
    <3>3. QED
      BY <3>1, <3>2
  <2>4. ASSUME NEW q \in Proc
        PROVE  cond'[q] <= Len(rl'[q])
    <3>1. CASE q = p /\ Awaits(p)
      BY <1>1, <1>3, <2>1, <2>3, <3>1
    <3>2. CASE ~(q = p /\ Awaits(p))
      BY <1>1, <1>3, <2>1, <3>2
    <3>3. QED
      BY <3>1, <3>2
  <2>5. QED
    BY <2>2, <2>4
<1>6. inptr' \in [Proc -> Nat \ {0}] /\ \A q \in Proc : inptr'[q] <= Len(in'[q]) + 1
  <2>1. inptr' \in [Proc -> Nat \ {0}] /\ \A q \in Proc : inptr'[q] <= Len(in[q]) + 1
    BY <1>1, ConsumeType DEF Execute, Ready
  <2>2. ASSUME NEW q \in Proc
        PROVE  inptr'[q] <= Len(in'[q]) + 1
    <3>1. inptr'[q] \in Nat
      BY <2>1
    <3>2. QED
      BY <1>3, <2>1, <3>1
  <2>3. QED
    BY <2>1, <2>2
<1>7. DOMAIN self' = Proc /\ UNCHANGED <<out, outptr>>
  BY <1>1 DEF TypeOK, Consume
<1>8. QED
  BY <1>2, <1>4, <1>5, <1>6, <1>7 DEF TypeOK

LEMMA LeastExists ==
  ASSUME NEW S \in SUBSET Nat, S # {}
  PROVE  \E i \in S : \A j \in S : i <= j
<1>1. \E i \in S : \A j \in S : ~(<<j, i>> \in OpToRel(<, Nat))
  BY NatLessThanWellFounded, WFMin
<1>2. PICK i \in S : \A j \in S : ~(<<j, i>> \in OpToRel(<, Nat))
  BY <1>1
<1>3. \A j \in S : ~(j < i)
  BY <1>2 DEF OpToRel
<1>4. QED
  BY <1>3

LEMMA FirstAckType ==
  ASSUME TypeOK, NEW p \in Proc, NEW q, AcksOf(p, q) # {}
  PROVE  /\ FirstAck(p, q) \in AcksOf(p, q)
         /\ FirstAck(p, q) \in DOMAIN in[p]
         /\ in[p][FirstAck(p, q)] \in Call
<1>1. in[p] \in Seq(Call) /\ inptr[p] \in Nat \ {0}
  BY DEF TypeOK
<1>2. AcksOf(p, q) \subseteq DOMAIN in[p] /\ AcksOf(p, q) \subseteq Nat
  BY <1>1 DEF AcksOf
<1>3. \E i \in AcksOf(p, q) : \A j \in AcksOf(p, q) : i <= j
  BY <1>2, LeastExists
<1>4. FirstAck(p, q) \in AcksOf(p, q)
  BY <1>3 DEF FirstAck
<1>5. QED
  BY <1>1, <1>2, <1>4

(* The entry that a process resuming leaves in its replay list.            *)
LEMMA MergedType ==
  ASSUME TypeOK, NEW p \in Proc, cond[p] # 0, AllAcks(p)
  PROVE  /\ cond[p] \in DOMAIN rl[p]
         /\ Merged(p) \in Call
<1>1. cond[p] \in DOMAIN rl[p] /\ rl[p][cond[p]] \in Call
  BY DEF TypeOK
<1>2. ASSUME NEW q \in Peer \ {p}
      PROVE  in[p][FirstAck(p, q)].sign \subseteq Proc
  <2>1. in[p][FirstAck(p, q)] \in Call
    BY FirstAckType DEF AllAcks
  <2>2. QED
    BY <2>1 DEF Call
<1>3. rl[p][cond[p]].sign \cup UNION {in[p][FirstAck(p, q)].sign : q \in Peer \ {p}} \subseteq Proc
  BY <1>1, <1>2 DEF Call
<1>4. QED
  BY <1>1, <1>3, Zenon DEF Merged, Call

LEMMA ResumeErrorType ==
  ASSUME TypeOK, QueueState, NEW p \in Proc, ResumeError(p)
  PROVE  TypeOK'
<1>1. cond[p] # 0
  BY DEF ResumeError, Ready, QueueState
<1>2. Merged(p) \in Call /\ rl' = [rl EXCEPT ![p][cond[p]] = Merged(p)] /\ cond[p] \in DOMAIN rl[p]
  BY <1>1, MergedType DEF ResumeError
<1>3. rl' \in [Proc -> Seq(Call)] /\ \A q \in Proc : Len(rl'[q]) = Len(rl[q])
  BY <1>2 DEF TypeOK
<1>4. QED
  BY <1>3 DEF ResumeError, TypeOK

(* What a step of Resume relies on, with its local names.                  *)
LEMMA ResumeFacts ==
  ASSUME TypeOK, QueueState, NEW p \in Proc, Resume(p)
  PROVE  /\ cond[p] # 0 /\ p \notin Master
         /\ Merged(p) \in Call
         /\ cond[p] \in DOMAIN rl[p]
         /\ rl' = [rl EXCEPT ![p][cond[p]] = Merged(p)]
         /\ rl' \in [Proc -> Seq(Call)]
         /\ \A q \in Proc : Len(rl'[q]) = Len(rl[q])
<1>1. cond[p] # 0 /\ p \notin Master
  BY DEF Resume, Ready, QueueState
<1>2. Merged(p) \in Call /\ rl' = [rl EXCEPT ![p][cond[p]] = Merged(p)] /\ cond[p] \in DOMAIN rl[p]
  BY <1>1, MergedType DEF Resume
<1>3. rl' \in [Proc -> Seq(Call)] /\ \A q \in Proc : Len(rl'[q]) = Len(rl[q])
  BY <1>2 DEF TypeOK
<1>4. QED
  BY <1>1, <1>2, <1>3

LEMMA ResumeType ==
  ASSUME TypeOK, QueueState, NEW p \in Proc, Resume(p)
  PROVE  TypeOK'
<1> DEFINE e == Merged(p)
           to == CommitsTo(p)
<1>1. /\ in' = [q \in Proc |-> IF q \in to THEN Posted(in[q], e) ELSE in[q]]
      /\ cond' = [cond EXCEPT ![p] = 0]
      /\ state' = [q \in Proc |->
                     IF q = p THEN Updated("Active", InIdle(p))
                     ELSE IF q \in to THEN Updated(state[q],
                                        inptr[q] > Len(in'[q]) /\ OutIdle(q))
                     ELSE state[q]]
      /\ UNCHANGED <<self, inptr, out, outptr>>
  BY DEF Resume
<1>2. e \in Call
  BY ResumeFacts
<1>3. rl' \in [Proc -> Seq(Call)] /\ \A q \in Proc : Len(rl'[q]) = Len(rl[q])
  BY ResumeFacts
<1> HIDE DEF e, to
<1>4. in' \in [Proc -> Seq(Call)] /\ \A q \in Proc : Len(in[q]) <= Len(in'[q])
  <2>1. ASSUME NEW q \in Proc
        PROVE  in'[q] \in Seq(Call) /\ Len(in[q]) <= Len(in'[q])
    <3>1. in[q] \in Seq(Call) /\ Len(in[q]) \in Nat
      BY DEF TypeOK
    <3>2. Posted(in[q], e) \in Seq(Call) /\ Len(in[q]) <= Len(Posted(in[q], e))
      BY <1>2, <3>1, PostedType
    <3>3. QED
      BY <1>1, <3>1, <3>2
  <2>2. in' = [q \in Proc |-> in'[q]]
    BY <1>1
  <2>3. QED
    BY <2>1, <2>2
<1>5. \A q \in Proc : inptr'[q] <= Len(in'[q]) + 1
  <2>1. ASSUME NEW q \in Proc
        PROVE  inptr'[q] <= Len(in'[q]) + 1
    <3>1. in[q] \in Seq(Call) /\ in'[q] \in Seq(Call)
      BY <1>4 DEF TypeOK
    <3>2. Len(in[q]) \in Nat /\ Len(in'[q]) \in Nat
      BY <3>1
    <3>3. inptr[q] \in Nat /\ inptr[q] <= Len(in[q]) + 1 /\ inptr'[q] = inptr[q]
      BY <1>1 DEF TypeOK
    <3>4. QED
      BY <1>4, <3>2, <3>3
  <2>2. QED
    BY <2>1
<1>6. state' \in [Proc -> {"Idle", "Active", "Waiting"}]
  <2>1. ASSUME NEW q \in Proc
        PROVE  state'[q] \in {"Idle", "Active", "Waiting"}
    <3>1. state[q] \in {"Idle", "Active", "Waiting"}
      BY DEF TypeOK
    <3>2. InIdle(p) \in BOOLEAN /\ (inptr[q] > Len(in'[q]) /\ OutIdle(q)) \in BOOLEAN
      BY DEF InIdle, OutIdle
    <3>3. QED
      BY <1>1, <3>1, <3>2, UpdatedType
  <2>2. state' = [q \in Proc |-> state'[q]]
    BY <1>1
  <2>3. QED
    BY <2>1, <2>2
<1>7. cond' \in [Proc -> Nat] /\ \A q \in Proc : cond'[q] <= Len(rl'[q])
  <2>1. cond \in [Proc -> Nat] /\ \A q \in Proc : cond[q] <= Len(rl[q])
    BY DEF TypeOK
  <2>2. ASSUME NEW q \in Proc
        PROVE  Len(rl[q]) \in Nat
    BY DEF TypeOK
  <2>3. QED
    BY <1>1, <1>3, <2>1, <2>2
<1>8. QED
  BY <1>1, <1>3, <1>4, <1>5, <1>6, <1>7 DEF TypeOK

-----------------------------------------------------------------------------
(***************************************************************************)
(* STATE, COND and the queues.  TypeOK is not inductive by itself: that a  *)
(* process resumes with an entry of its replay list follows from           *)
(* QueueState, and the two are proved together.                            *)
(***************************************************************************)

(* QueueState of one process. *)
QueueStateOf(p) ==
  /\ state[p] = "Idle" <=> (InIdle(p) /\ OutIdle(p) /\ state[p] # "Waiting")
  /\ state[p] = "Waiting" <=> cond[p] # 0
  /\ cond[p] # 0 => cond[p] = Len(rl[p]) /\ p \notin Master

LEMMA UpdatedFacts ==
  ASSUME NEW st \in {"Idle", "Active", "Waiting"}, NEW idle \in BOOLEAN
  PROVE  /\ Updated(st, idle) = "Waiting" <=> st = "Waiting"
         /\ st # "Waiting" => (Updated(st, idle) = "Idle" <=> idle)
BY DEF Updated

(* A process whose queues, COND, STATE and replay list stay as they were.  *)
LEMMA QueueStateStable ==
  ASSUME QueueState, NEW q \in Proc,
         InIdle(q)' <=> InIdle(q), OutIdle(q)' <=> OutIdle(q),
         state'[q] = state[q], cond'[q] = cond[q], Len(rl'[q]) = Len(rl[q])
  PROVE  QueueStateOf(q)'
BY DEF QueueState, QueueStateOf

(* A process whose STATE has been updated for the state of its queues.     *)
LEMMA QueueStateUpdated ==
  ASSUME TypeOK, QueueState, NEW q \in Proc, NEW idle \in BOOLEAN,
         idle <=> (InIdle(q)' /\ OutIdle(q)'),
         state'[q] = Updated(state[q], idle), cond'[q] = cond[q],
         cond[q] # 0 => Len(rl'[q]) = Len(rl[q])
  PROVE  QueueStateOf(q)'
<1>1. state[q] \in {"Idle", "Active", "Waiting"}
  BY DEF TypeOK
<1>2. /\ Updated(state[q], idle) = "Waiting" <=> state[q] = "Waiting"
      /\ state[q] # "Waiting" => (Updated(state[q], idle) = "Idle" <=> idle)
  BY <1>1, UpdatedFacts
<1>3. state[q] = "Waiting" <=> cond[q] # 0
  BY DEF QueueState
<1>4. QED
  BY <1>2, <1>3 DEF QueueState, QueueStateOf

(* A process that has just sent something.                                 *)
LEMMA QueueStateSent ==
  ASSUME TypeOK, QueueState, NEW p \in Proc, NEW calls \in Seq(Call), calls # <<>>,
         out' = [out EXCEPT ![p] = @ \o calls],
         state' = [state EXCEPT ![p] = IF @ = "Waiting" THEN @ ELSE "Active"],
         UNCHANGED <<in, inptr, rl, outptr, cond>>
  PROVE  QueueState'
<1>1. ASSUME NEW q \in Proc
      PROVE  QueueStateOf(q)'
  <2>1. CASE q = p
    <3> out[p] \in Seq(Call) /\ out'[p] = out[p] \o calls
      BY DEF TypeOK
    <3>1. Len(calls) \in Nat /\ Len(calls) > 0
      OBVIOUS
    <3>2. Len(out'[p]) = Len(out[p]) + Len(calls) /\ Len(out[p]) \in Nat
      BY <3>1
    <3>3. ~OutIdle(p)'
      BY <3>1, <3>2, SMTT(30) DEF OutIdle, TypeOK
    <3>4. state'[p] = (IF state[p] = "Waiting" THEN "Waiting" ELSE "Active")
      BY DEF TypeOK
    <3>5. QED
      BY <2>1, <3>3, <3>4 DEF QueueState, QueueStateOf
  <2>2. CASE q # p
    <3>1. out'[q] = out[q] /\ state'[q] = state[q]
      BY <2>2 DEF TypeOK
    <3>2. QED
      BY <3>1, QueueStateStable DEF InIdle, OutIdle
  <2>3. QED
    BY <2>1, <2>2
<1>2. QED
  BY <1>1 DEF QueueState, QueueStateOf

LEMMA UserCommandQueueState ==
  ASSUME TypeOK, QueueState, NEW p \in Proc, UserCommand(p)
  PROVE  QueueState'
<1>1. ASSUME NEW to \in Proc \cup {Group}, NEW f \in Func, NEW r \in Nat \cup {NoNb},
             Push(p, to, f, r)
      PROVE  QueueState'
  <2>1. Len(out[p]) \in Nat
    BY DEF TypeOK
  <2>2. NewCall(p, Len(out[p]), to, f, r) \in Call
    BY <2>1, NewCallType
  <2> DEFINE calls == <<NewCall(p, Len(out[p]), to, f, r)>>
  <2>3. calls \in Seq(Call) /\ calls # <<>>
    BY <2>2
  <2>4. out[p] \in Seq(Call)
    BY DEF TypeOK
  <2>5. out' = [out EXCEPT ![p] = @ \o calls]
    <3>1. \A s \in Seq(Call), c \in Call : Append(s, c) = s \o <<c>>
      OBVIOUS
    <3>2. Append(out[p], NewCall(p, Len(out[p]), to, f, r)) = out[p] \o calls
      BY <2>2, <2>4, <3>1
    <3>3. out' = [out EXCEPT ![p] = Append(out[p], NewCall(p, Len(out[p]), to, f, r))]
      BY <1>1 DEF Push
    <3>4. QED
      BY <3>2, <3>3
  <2> HIDE DEF calls
  <2>6. QED
    BY <1>1, <2>3, <2>5, QueueStateSent DEF Push
<1>2. CASE \E to \in DOMAIN Method : \E f \in Method[to] : Send(p, to, f)
  <2> PICK to \in DOMAIN Method : \E f \in Method[to] : Send(p, to, f)
    BY <1>2
  <2>1. PICK f \in Method[to] : Send(p, to, f)
    OBVIOUS
  <2>2. to \in Proc \cup {Group} /\ f \in Func
    BY ProcAssumption DEF Proc
  <2>3. QED
    BY <1>1, <2>1, <2>2 DEF Send
<1>3. CASE SendReturn(p)
  <2>1. PICK m \in Master : \E i \in DOMAIN rl[m] : Push(p, Group, rl[m][i].func, i - 1)
    BY <1>3 DEF SendReturn
  <2>2. PICK i \in DOMAIN rl[m] : Push(p, Group, rl[m][i].func, i - 1)
    BY <2>1
  <2>3. rl[m] \in Seq(Call)
    BY DEF TypeOK, Proc
  <2>4. rl[m][i] \in Call /\ i \in Nat \ {0}
    BY <2>3
  <2>5. rl[m][i].func \in Func /\ i - 1 \in Nat
    BY <2>4 DEF Call
  <2>6. QED
    BY <1>1, <2>2, <2>5
<1>4. CASE \E q \in Peer : Sync(p, q)
  <2>1. PICK q \in Peer : Sync(p, q)
    BY <1>4
  <2>2. PICK calls \in Seq(Call) : calls # <<>> /\ SyncSend(p, calls)
    BY <2>1, SyncCallsType DEF Sync
  <2> DEFINE sent == IF state[p] = "Waiting" THEN <<calls[1]>> ELSE calls
  <2>3. sent \in Seq(Call) /\ sent # <<>>
    <3>1. calls[1] \in Call
      BY <2>2
    <3>2. QED
      BY <2>2, <3>1
  <2>4. /\ out' = [out EXCEPT ![p] = @ \o sent]
        /\ state' = [state EXCEPT ![p] = IF @ = "Waiting" THEN @ ELSE "Active"]
        /\ UNCHANGED <<self, in, inptr, rl, outptr, cond>>
    BY <2>2 DEF SyncSend
  <2> HIDE DEF sent
  <2>5. QED
    BY <2>3, <2>4, QueueStateSent
<1>5. QED
  BY <1>2, <1>3, <1>4 DEF UserCommand

LEMMA OutStepQueueState ==
  ASSUME TypeOK, QueueState, TypeOK', NEW p \in Proc, OutStep(p)
  PROVE  QueueState'
<1> DEFINE m == Transmitted(p)
           idle(q) == inptr[q] > Len(in'[q]) /\ outptr'[q] > Len(out[q])
<1>1. /\ out' = [out EXCEPT ![p][outptr[p]] = m]
      /\ in' = [q \in Proc |-> IF q \in Dest(m.to) THEN Posted(in[q], m) ELSE in[q]]
      /\ outptr' = [outptr EXCEPT ![p] = @ + 1]
      /\ state' = [q \in Proc |-> IF q \in Dest(m.to) \cup {p}
                                  THEN Updated(state[q], idle(q)) ELSE state[q]]
      /\ UNCHANGED <<self, inptr, rl, cond>>
  BY DEF OutStep
<1> HIDE DEF m
<1>2. ASSUME NEW q \in Proc
      PROVE  QueueStateOf(q)'
  <2>1. Len(out'[q]) = Len(out[q])
    BY <1>1 DEF TypeOK
  <2>2. idle(q) <=> (InIdle(q)' /\ OutIdle(q)')
    BY <1>1, <2>1 DEF InIdle, OutIdle
  <2>3. idle(q) \in BOOLEAN
    OBVIOUS
  <2>4. CASE q \in Dest(m.to) \cup {p}
    <3>1. state'[q] = Updated(state[q], idle(q)) /\ cond'[q] = cond[q] /\ rl' = rl
      BY <1>1, <2>4
    <3> HIDE DEF idle
    <3>2. QED
      BY <2>2, <2>3, <3>1, QueueStateUpdated
  <2>5. CASE q \notin Dest(m.to) \cup {p}
    <3>1. /\ in'[q] = in[q] /\ outptr'[q] = outptr[q] /\ state'[q] = state[q]
          /\ inptr' = inptr /\ rl' = rl /\ cond' = cond
      BY <1>1, <2>5 DEF TypeOK
    <3>2. QED
      BY <2>1, <3>1, QueueStateStable DEF InIdle, OutIdle
  <2>6. QED
    BY <2>4, <2>5
<1>3. QED
  BY <1>2 DEF QueueState, QueueStateOf

(* The process that consumes a message and need not wait, and the others.  *)
LEMMA ConsumeQueueState ==
  ASSUME TypeOK, QueueState, NEW p \in Proc, OutIdle(p), Consume(p),
         state' = [state EXCEPT ![p] = Updated(@, Idle(p))],
         \A q \in Proc : Len(in'[q]) = Len(in[q]),
         UNCHANGED <<rl, cond>>
  PROVE  QueueState'
<1>1. ASSUME NEW q \in Proc
      PROVE  QueueStateOf(q)'
  <2>1. UNCHANGED <<out, outptr>> /\ inptr' = [inptr EXCEPT ![p] = @ + 1]
    BY DEF Consume
  <2>2. CASE q = p
    <3>1. Idle(p) <=> (InIdle(p)' /\ OutIdle(p)')
      BY <2>1 DEF Idle, InIdle, OutIdle, TypeOK
    <3>2. Idle(p) \in BOOLEAN
      BY DEF Idle
    <3>3. state'[p] = Updated(state[p], Idle(p))
      BY DEF TypeOK
    <3>4. QED
      BY <2>2, <3>1, <3>2, <3>3, QueueStateUpdated
  <2>3. CASE q # p
    <3>1. inptr'[q] = inptr[q] /\ state'[q] = state[q]
      BY <2>1, <2>3 DEF TypeOK
    <3>2. QED
      BY <2>1, <3>1, QueueStateStable DEF InIdle, OutIdle
  <2>4. QED
    BY <2>2, <2>3
<1>2. QED
  BY <1>1 DEF QueueState, QueueStateOf

LEMMA ExecuteQueueState ==
  ASSUME TypeOK, QueueState, TypeOK', NEW p \in Proc, Execute(p)
  PROVE  QueueState'
<1>1. /\ inptr' = [inptr EXCEPT ![p] = @ + 1]
      /\ UNCHANGED <<out, outptr>>
      /\ state' = [q \in Proc |->
                     IF q = p THEN IF Awaits(p) THEN "Waiting"
                                   ELSE Updated(state[p], Idle(p))
                     ELSE IF Acks(p) /\ q \in Peer THEN Updated(state[q], FALSE)
                     ELSE state[q]]
      /\ cond' = [cond EXCEPT ![p] = IF Awaits(p) THEN Len(rl[p]) + 1 ELSE @]
  BY DEF Execute, Consume
<1>2. QueueStateOf(p)'
  <2>1. Idle(p) <=> (InIdle(p)' /\ OutIdle(p)')
    BY <1>1, ExecuteFacts DEF Idle, InIdle, OutIdle, TypeOK
  <2>2. cond[p] = 0
    BY ExecuteFacts DEF QueueState
  <2>3. CASE Awaits(p)
    <3>1. rl[p] \in Seq(Call) /\ Entry(p) \in Call
      BY ExecuteCalls DEF Execute, Ready, TypeOK
    <3>2. rl'[p] = Append(rl[p], Entry(p)) /\ p \notin Master
      BY <2>3, ExecuteFacts
    <3>3. Len(rl'[p]) = Len(rl[p]) + 1 /\ Len(rl[p]) \in Nat
      BY <3>1, <3>2
    <3>4. cond'[p] = Len(rl[p]) + 1 /\ state'[p] = "Waiting"
      BY <1>1, <2>3 DEF TypeOK
    <3>5. QED
      BY <3>2, <3>3, <3>4 DEF QueueStateOf
  <2>4. CASE ~Awaits(p)
    <3>1. cond'[p] = cond[p] /\ state'[p] = Updated(state[p], Idle(p))
      BY <1>1, <2>4 DEF TypeOK
    <3>2. Idle(p) \in BOOLEAN
      BY DEF Idle
    <3>3. QED
      BY <2>1, <2>2, <3>1, <3>2, QueueStateUpdated
  <2>5. QED
    BY <2>3, <2>4
<1>3. ASSUME NEW q \in Proc, q # p
      PROVE  QueueStateOf(q)'
  <2>1. rl'[q] = rl[q] /\ cond'[q] = cond[q] /\ inptr'[q] = inptr[q]
    <3>1. rl'[q] = rl[q]
      BY <1>3, ExecuteFacts
    <3>2. cond \in [Proc -> Nat] /\ inptr \in [Proc -> Nat \ {0}]
      BY DEF TypeOK
    <3>3. cond'[q] = cond[q]
      BY <1>1, <1>3, <3>2
    <3>4. inptr'[q] = inptr[q]
      BY <1>1, <1>3, <3>2
    <3>5. QED
      BY <3>1, <3>3, <3>4
  <2>2. CASE Acks(p) /\ q \in Peer
    <3>1. in'[q] = Append(in[q], Ack(p)) /\ in[q] \in Seq(Call) /\ Ack(p) \in Call
      BY <1>3, <2>2, ExecuteFacts, ExecuteCalls DEF TypeOK
    <3>2. Len(in'[q]) = Len(in[q]) + 1 /\ Len(in[q]) \in Nat
      BY <3>1
    <3>3. ~InIdle(q)'
      <4>1. inptr[q] \in Nat /\ inptr[q] <= Len(in[q]) + 1
        BY DEF TypeOK
      <4>2. QED
        BY <2>1, <3>2, <4>1 DEF InIdle
    <3>4. state'[q] = Updated(state[q], FALSE)
      BY <1>1, <1>3, <2>2
    <3>5. QED
      BY <2>1, <3>3, <3>4, QueueStateUpdated
  <2>3. CASE ~(Acks(p) /\ q \in Peer)
    <3>1. in'[q] = in[q] /\ state'[q] = state[q]
      BY <1>1, <1>3, <2>3, ExecuteFacts
    <3>2. QED
      BY <1>1, <2>1, <3>1, QueueStateStable DEF InIdle, OutIdle
  <2>4. QED
    BY <2>2, <2>3
<1>4. QED
  BY <1>2, <1>3 DEF QueueState, QueueStateOf

LEMMA ResumeQueueState ==
  ASSUME TypeOK, QueueState, TypeOK', NEW p \in Proc, Resume(p)
  PROVE  QueueState'
<1>1. /\ in' = [q \in Proc |-> IF q \in CommitsTo(p) THEN Posted(in[q], Merged(p)) ELSE in[q]]
      /\ cond' = [cond EXCEPT ![p] = 0]
      /\ state' = [q \in Proc |->
                     IF q = p THEN Updated("Active", InIdle(p))
                     ELSE IF q \in CommitsTo(p) THEN Updated(state[q],
                                        inptr[q] > Len(in'[q]) /\ OutIdle(q))
                     ELSE state[q]]
      /\ UNCHANGED <<self, inptr, out, outptr>>
  BY DEF Resume
<1>2. p \notin CommitsTo(p)
  BY ResumeFacts DEF CommitsTo
<1>3. QueueStateOf(p)'
  <2>1. in'[p] = in[p] /\ cond'[p] = 0 /\ state'[p] = Updated("Active", InIdle(p))
    BY <1>1, <1>2 DEF TypeOK
  <2>2. OutIdle(p) /\ InIdle(p) \in BOOLEAN
    BY DEF Resume, Ready, InIdle
  <2>3. (InIdle(p)' <=> InIdle(p)) /\ (OutIdle(p)' <=> OutIdle(p))
    BY <1>1, <2>1 DEF InIdle, OutIdle
  <2>4. QED
    BY <2>1, <2>2, <2>3, UpdatedFacts DEF QueueStateOf
<1>4. ASSUME NEW q \in Proc, q # p
      PROVE  QueueStateOf(q)'
  <2>1. Len(rl'[q]) = Len(rl[q]) /\ cond'[q] = cond[q]
    BY <1>1, <1>4, ResumeFacts DEF TypeOK
  <2>2. CASE q \in CommitsTo(p)
    <3> DEFINE idle == inptr[q] > Len(in'[q]) /\ OutIdle(q)
    <3>1. idle \in BOOLEAN /\ (idle <=> (InIdle(q)' /\ OutIdle(q)'))
      BY <1>1 DEF InIdle, OutIdle
    <3>2. state'[q] = Updated(state[q], idle)
      BY <1>1, <1>4, <2>2
    <3> HIDE DEF idle
    <3>3. QED
      BY <2>1, <3>1, <3>2, QueueStateUpdated
  <2>3. CASE q \notin CommitsTo(p)
    <3>1. in'[q] = in[q] /\ state'[q] = state[q]
      BY <1>1, <1>4, <2>3
    <3>2. QED
      BY <1>1, <2>1, <3>1, QueueStateStable DEF InIdle, OutIdle
  <2>4. QED
    BY <2>2, <2>3
<1>5. QED
  BY <1>3, <1>4 DEF QueueState, QueueStateOf

LEMMA ResumeErrorQueueState ==
  ASSUME TypeOK, QueueState, NEW p \in Proc, ResumeError(p)
  PROVE  QueueState'
<1>1. cond[p] # 0
  BY DEF ResumeError, Ready, QueueState
<1>2. cond[p] \in DOMAIN rl[p] /\ rl' = [rl EXCEPT ![p][cond[p]] = Merged(p)]
  BY <1>1, MergedType DEF ResumeError
<1>3. \A q \in Proc : Len(rl'[q]) = Len(rl[q])
  BY <1>2 DEF TypeOK
<1>4. UNCHANGED <<in, inptr, out, outptr, state, cond>>
  BY DEF ResumeError
<1>5. QED
  BY <1>3, <1>4 DEF QueueState, InIdle, OutIdle

LEMMA QueueInvInit == Init => QueueInv
BY ProcAssumption DEF Init, QueueInv, TypeOK, QueueState, InIdle, OutIdle

LEMMA QueueInvNext == QueueInv /\ [Next]_vars => QueueInv'
<1> SUFFICES ASSUME TypeOK, QueueState, [Next]_vars
             PROVE  TypeOK' /\ QueueState'
  BY DEF QueueInv
<1>1. CASE UNCHANGED vars
  BY <1>1 DEF vars, TypeOK, QueueState, InIdle, OutIdle
<1>2. CASE Next
  <2>1. PICK p \in Proc : UserCommand(p) \/ Step(p)
    BY <1>2 DEF Next
  <2>2. CASE UserCommand(p)
    <3>1. QueueState'
      BY <2>2, UserCommandQueueState
    <3>2. CASE \E to \in DOMAIN Method : \E f \in Method[to] : Send(p, to, f)
      BY <3>1, <3>2, SendType
    <3>3. CASE SendReturn(p)
      BY <3>1, <3>3, SendReturnType
    <3>4. CASE \E q \in Peer : Sync(p, q)
      BY <3>1, <3>4, SyncType
    <3>5. QED
      BY <2>2, <3>2, <3>3, <3>4 DEF UserCommand
  <2>3. CASE OutStep(p)
    BY <2>3, OutStepType, OutStepQueueState
  <2>4. CASE ReadAck(p)
    <3>1. TypeOK'
      BY <2>4, ReadAckType
    <3>2. \A q \in Proc : Len(in'[q]) = Len(in[q])
      BY <2>4 DEF ReadAck
    <3>3. QED
      BY <2>4, <3>1, <3>2, ConsumeQueueState DEF ReadAck, Ready
  <2>5. CASE SkipFailed(p)
    <3>1. TypeOK'
      BY <2>5, SkipFailedType
    <3>2. \A q \in Proc : Len(in'[q]) = Len(in[q])
      BY <2>5 DEF SkipFailed, TypeOK
    <3>3. QED
      BY <2>5, <3>1, <3>2, ConsumeQueueState DEF SkipFailed, Ready
  <2>6. CASE Execute(p)
    BY <2>6, ExecuteType, ExecuteQueueState
  <2>7. CASE Resume(p)
    BY <2>7, ResumeType, ResumeQueueState
  <2>8. CASE ResumeError(p)
    BY <2>8, ResumeErrorType, ResumeErrorQueueState
  <2>9. QED
    BY <2>1, <2>2, <2>3, <2>4, <2>5, <2>6, <2>7, <2>8 DEF Step
<1>3. QED
  BY <1>1, <1>2

(* Every reachable state is well typed: IN, OUT and the replay list hold   *)
(* calls only, and INPTR, OUTPTR and COND never leave them.                *)
THEOREM TypeCorrect == Spec => []TypeOK
<1>1. QueueInv => TypeOK
  BY DEF QueueInv
<1>2. QED
  BY <1>1, QueueInvInit, QueueInvNext, PTL DEF Spec

(* STATE, COND and the queues agree in every reachable state.              *)
THEOREM QueueStateHolds == Spec => []QueueState
<1>1. QueueInv => QueueState
  BY DEF QueueInv
<1>2. QED
  BY <1>1, QueueInvInit, QueueInvNext, PTL DEF Spec

-----------------------------------------------------------------------------
(***************************************************************************)
(* What the acks of a channel are worth, for any group, servlet and bound: *)
(* no call is executed twice, every mark in a replay list is true, and no  *)
(* committed call that all have acked is withheld from the master.         *)
(* First, what a step does to an IN queue and to a replay list.            *)
(***************************************************************************)

(* A queue that a step leaves alone.                                       *)
LEMMA InUnchanged ==
  ASSUME NEW q \in Proc, in'[q] = in[q], inptr'[q] = inptr[q], TypeOK
  PROVE  InStepOf(q)
<1>1. inptr[q] <= inptr'[q]
  BY DEF TypeOK
<1>2. QED
  BY <1>1 DEF InStepOf, InKept

(* A queue that gets one message.                                          *)
LEMMA InAppended ==
  ASSUME TypeOK, NEW q \in Proc, NEW m \in Call,
         in'[q] = Append(in[q], m), inptr'[q] = inptr[q],
         FreshCall(q, m) \/ FreshAck(q, m)
  PROVE  InStepOf(q)
<1>1. in[q] \in Seq(Call) /\ inptr[q] \in Nat
  BY DEF TypeOK
<1>2. \A i \in DOMAIN in[q] : i \in DOMAIN in'[q] /\ in'[q][i] = in[q][i]
  BY <1>1
<1>3. \A i \in DOMAIN in'[q] : i \in DOMAIN in[q] \/ (i = Len(in[q]) + 1 /\ in'[q][i] = m)
  BY <1>1
<1>4. QED
  BY <1>1, <1>2, <1>3 DEF InStepOf, InKept

LEMMA PostedFresh ==
  ASSUME TypeOK, NEW q \in Proc, NEW m \in Call, ~m.ack,
         q \notin Master => ~m.ackall /\ m.sign \subseteq {m.from},
         in'[q] = Posted(in[q], m), inptr'[q] = inptr[q]
  PROVE  InStepOf(q)
<1>1. CASE Known(in[q], m)
  BY <1>1, InUnchanged DEF Posted
<1>2. CASE ~Known(in[q], m)
  <2>1. FreshCall(q, m)
    BY <1>2 DEF FreshCall
  <2>2. in'[q] = Append(in[q], m)
    BY <1>2 DEF Posted
  <2>3. QED
    BY <2>1, <2>2, InAppended
<1>3. QED
  BY <1>1, <1>2

LEMMA RlUnchanged ==
  ASSUME NEW q \in Proc, rl'[q] = rl[q]
  PROVE  RlStepOf(q)
BY DEF RlStepOf

(* Commands and steps, one after the other. *)

LEMMA UserCommandEffect ==
  ASSUME TypeOK, NEW p \in Proc, UserCommand(p), NEW q \in Proc
  PROVE  InStepOf(q) /\ RlStepOf(q)
<1>1. in' = in /\ inptr' = inptr /\ rl' = rl
  BY DEF UserCommand, Send, SendReturn, Sync, SyncSend, Push
<1>2. QED
  BY <1>1, InUnchanged, RlUnchanged

LEMMA OutStepEffect ==
  ASSUME SafetyInv, NEW p \in Proc, OutStep(p), NEW q \in Proc
  PROVE  InStepOf(q) /\ RlStepOf(q)
<1> DEFINE m == Transmitted(p)
<1>1. TypeOK
  BY DEF SafetyInv, QueueInv
<1>2. outptr[p] \in DOMAIN out[p] /\ out[p] \in Seq(Call)
  BY <1>1, SMTT(30) DEF OutStep, OutIdle, TypeOK
<1>3. out[p][outptr[p]] \in Call
  BY <1>2
<1>4. /\ out[p][outptr[p]].from = p /\ ~out[p][outptr[p]].ack
      /\ ~out[p][outptr[p]].ackall /\ out[p][outptr[p]].sign \subseteq {p}
  BY <1>2 DEF SafetyInv, OutFresh
<1>5. m \in Call /\ ~m.ack /\ ~m.ackall /\ m.from = p /\ m.sign \subseteq {p}
  BY <1>3, <1>4 DEF Transmitted, Marks, Call
<1>6. in'[q] = (IF q \in Dest(m.to) THEN Posted(in[q], m) ELSE in[q])
      /\ inptr' = inptr /\ rl' = rl
  BY DEF OutStep
<1> HIDE DEF m
<1>7. InStepOf(q)
  <2>1. CASE q \in Dest(m.to)
    BY <1>1, <1>5, <1>6, <2>1, PostedFresh
  <2>2. CASE q \notin Dest(m.to)
    BY <1>1, <1>6, <2>2, InUnchanged
  <2>3. QED
    BY <2>1, <2>2
<1>8. QED
  BY <1>6, <1>7, RlUnchanged

LEMMA ReadAckEffect ==
  ASSUME SafetyInv, NEW p \in Proc, ReadAck(p), NEW q \in Proc
  PROVE  InStepOf(q) /\ RlStepOf(q)
<1>1. TypeOK
  BY DEF SafetyInv, QueueInv
<1>2. in' = in /\ rl' = rl /\ inptr' = [inptr EXCEPT ![p] = @ + 1]
  BY DEF ReadAck, Consume
<1>3. inptr[q] <= inptr'[q]
  BY <1>1, <1>2, SMTT(30) DEF TypeOK
<1>4. InStepOf(q)
  BY <1>2, <1>3 DEF InStepOf, InKept
<1>5. QED
  BY <1>2, <1>4, RlUnchanged

(* The queue of a process that consumes a call, whose result it has set.   *)
LEMMA CallConsumed ==
  ASSUME TypeOK, NEW p \in Proc, ~InIdle(p), ~Current(p).ack,
         NEW m \in Call, SameMessage(Current(p), m),
         in'[p] = [in[p] EXCEPT ![inptr[p]] = m],
         inptr'[p] = inptr[p] + 1
  PROVE  InStepOf(p)
<1>1. in[p] \in Seq(Call) /\ inptr[p] \in Nat /\ inptr[p] \in DOMAIN in[p]
  BY CurrentType DEF TypeOK
<1>2. DOMAIN in'[p] = DOMAIN in[p]
  BY <1>1
<1>3. \A i \in DOMAIN in[p] : i # inptr[p] => in'[p][i] = in[p][i]
  BY <1>1
<1>4. in'[p][inptr[p]] = m
  BY <1>1
<1>5. QED
  BY <1>1, <1>2, <1>3, <1>4 DEF InStepOf, InKept, Current

LEMMA SkipFailedEffect ==
  ASSUME SafetyInv, NEW p \in Proc, SkipFailed(p), NEW q \in Proc
  PROVE  InStepOf(q) /\ RlStepOf(q)
<1> DEFINE m == [Current(p) EXCEPT !.result = "fail"]
<1>1. TypeOK
  BY DEF SafetyInv, QueueInv
<1>2. ~InIdle(p) /\ ~Current(p).ack /\ Current(p) \in Call
  BY <1>1, CurrentType DEF SkipFailed, Ready
<1>3. m \in Call /\ SameMessage(Current(p), m)
  BY <1>2 DEF Call, SameMessage
<1>4. in' = [in EXCEPT ![p] = [@ EXCEPT ![inptr[p]] = m]]
      /\ inptr' = [inptr EXCEPT ![p] = @ + 1] /\ rl' = rl
  BY DEF SkipFailed, Current, Consume
<1> HIDE DEF m
<1>5. InStepOf(q)
  <2>1. CASE q = p
    <3>1. in'[p] = [in[p] EXCEPT ![inptr[p]] = m] /\ inptr'[p] = inptr[p] + 1
      BY <1>1, <1>4 DEF TypeOK
    <3>2. QED
      BY <1>1, <1>2, <1>3, <2>1, <3>1, CallConsumed
  <2>2. CASE q # p
    <3>1. in'[q] = in[q] /\ inptr'[q] = inptr[q]
      BY <1>1, <1>4, <2>2 DEF TypeOK
    <3>2. QED
      BY <1>1, <3>1, InUnchanged
  <2>3. QED
    BY <2>1, <2>2
<1>6. QED
  BY <1>4, <1>5, RlUnchanged

LEMMA ExecuteEffect ==
  ASSUME SafetyInv, NEW p \in Proc, Execute(p), NEW q \in Proc
  PROVE  InStepOf(q) /\ RlStepOf(q)
<1>1. TypeOK
  BY DEF SafetyInv, QueueInv
<1>2. ~InIdle(p) /\ ~Current(p).ack /\ Current(p) \in Call /\ inptr[p] \in DOMAIN in[p]
  BY <1>1, CurrentType DEF Execute, Ready
<1>3. Entry(p) \in Call /\ Done(p) \in Call /\ Ack(p) \in Call
  BY <1>1, <1>2, ExecuteCalls
<1>4. inptr' = [inptr EXCEPT ![p] = @ + 1]
  BY DEF Execute, Consume
<1>5. rl[p] \in Seq(Call) /\ Len(rl[p]) \in Nat
  BY <1>1 DEF TypeOK
<1>6. RlStepOf(q)
  <2>1. CASE q = p
    <3>1. CASE Logs(p)
      <4>1. rl'[p] = Append(rl[p], Entry(p))
        BY <1>1, <3>1, ExecuteFacts
      <4>2. \A k \in DOMAIN rl[p] : k \in DOMAIN rl'[p] /\ rl'[p][k] = rl[p][k]
        BY <1>3, <1>5, <4>1
      <4>3. \A k \in DOMAIN rl'[p] : k \in DOMAIN rl[p] \/
              (k = Len(rl[p]) + 1 /\ rl'[p][k] = Entry(p))
        BY <1>3, <1>5, <4>1
      <4>4. QED
        BY <2>1, <3>1, <4>2, <4>3 DEF RlStepOf
    <3>2. CASE ~Logs(p)
      BY <1>1, <2>1, <3>2, ExecuteFacts, RlUnchanged
    <3>3. QED
      BY <3>1, <3>2
  <2>2. CASE q # p
    BY <1>1, <2>2, ExecuteFacts, RlUnchanged
  <2>3. QED
    BY <2>1, <2>2
<1>7. CASE q = p
  <2>1. SameMessage(Current(p), Done(p))
    BY <1>2 DEF Done, Ran, SameMessage, Call
  <2>2. in'[p] = [in[p] EXCEPT ![inptr[p]] = Done(p)] /\ inptr'[p] = inptr[p] + 1
    BY <1>1, <1>4, ExecuteFacts DEF TypeOK
  <2>3. QED
    BY <1>1, <1>2, <1>3, <1>6, <1>7, <2>1, <2>2, CallConsumed
<1>8. CASE q # p /\ ~(Acks(p) /\ q \in Peer)
  <2>1. in'[q] = in[q] /\ inptr'[q] = inptr[q]
    BY <1>1, <1>4, <1>8, ExecuteFacts, ZenonT(40) DEF TypeOK
  <2>2. QED
    BY <1>1, <1>6, <2>1, InUnchanged
<1>9. CASE q # p /\ Acks(p) /\ q \in Peer
  <2>1. in'[q] = Append(in[q], Ack(p)) /\ inptr'[q] = inptr[q]
    BY <1>1, <1>4, <1>9, ExecuteFacts DEF TypeOK
  <2>2. ~Current(p).ackall /\ Current(p).sign \subseteq {Current(p).from}
    <3>1. p \in Proc \ Master
      BY <1>9 DEF Acks
    <3>2. QED
      BY <1>2, <3>1 DEF SafetyInv, InFresh, Current
  <2>3. /\ Ack(p).ack /\ ~Ack(p).ackall
        /\ Ack(p).from = Current(p).from /\ Ack(p).outnb = Current(p).outnb
        /\ Logs(p) => Ack(p).innb = Len(rl[p]) /\ Ack(p).sign = Current(p).sign \cup {p}
        /\ ~Logs(p) => Ack(p).sign = Current(p).sign
    BY <1>2, <2>2 DEF Ack, Entry, Ran, Call
  <2>4. ASSUME NEW r \in (Ack(p).sign \cap Peer) \ {Ack(p).from}
        PROVE  Ack(p).innb + 1 \in DOMAIN rl'[r] /\ SameCall(Ack(p), rl'[r][Ack(p).innb + 1])
    <3>1. Logs(p) /\ r = p
      BY <2>2, <2>3, <2>4
    <3>2. rl'[p] = Append(rl[p], Entry(p)) /\ Ack(p).innb + 1 = Len(rl[p]) + 1
      BY <1>1, <2>3, <3>1, ExecuteFacts
    <3>3. Len(rl[p]) + 1 \in DOMAIN rl'[p] /\ rl'[p][Len(rl[p]) + 1] = Entry(p)
      BY <1>3, <1>5, <3>2
    <3>4. Entry(p).from = Current(p).from /\ Entry(p).outnb = Current(p).outnb
      BY <1>2 DEF Entry, Ran, Call
    <3>5. QED
      BY <2>3, <3>1, <3>2, <3>3, <3>4 DEF SameCall
  <2>5. FreshAck(q, Ack(p))
    BY <1>9, <2>3, <2>4 DEF FreshAck
  <2>6. QED
    BY <1>1, <1>3, <1>6, <2>1, <2>5, InAppended
<1>10. QED
  BY <1>7, <1>8, <1>9

(* The merged entry is the awaited one, with more marks.                   *)
LEMMA MergedFacts ==
  ASSUME SafetyInv, NEW p \in Proc, cond[p] # 0, AllAcks(p)
  PROVE  /\ cond[p] \in DOMAIN rl[p]
         /\ Merged(p) \in Call
         /\ SameEntry(rl[p][cond[p]], Merged(p))
         /\ ~Merged(p).ack
         /\ Merged(p).ackall <=> Peer \subseteq Merged(p).sign
<1>1. TypeOK
  BY DEF SafetyInv, QueueInv
<1>2. cond[p] \in DOMAIN rl[p] /\ Merged(p) \in Call
  BY <1>1, MergedType
<1>3. rl[p][cond[p]] \in Call /\ ~rl[p][cond[p]].ack
  BY <1>1, <1>2 DEF TypeOK, SafetyInv, RlNumbered
<1>4. QED
  BY <1>2, <1>3, Zenon DEF Merged, SameEntry, SameCall, Call

(* Resume and ResumeError merge the acks into the same entry.              *)
LEMMA MergeEffect ==
  ASSUME SafetyInv, NEW p \in Proc, state[p] = "Waiting", AllAcks(p),
         rl' = [rl EXCEPT ![p][cond[p]] = Merged(p)],
         Commits(p, Merged(p)) => \A m \in Master : Known(in'[m], Merged(p)),
         NEW q \in Proc
  PROVE  RlStepOf(q)
<1>1. TypeOK /\ cond[p] # 0
  BY DEF SafetyInv, QueueInv, QueueState
<1>2. cond[p] \in DOMAIN rl[p] /\ Merged(p) \in Call
  BY <1>1, MergedFacts
<1>3. CASE q = p
  <2>1. rl[p] \in Seq(Call) /\ rl'[p] = [rl[p] EXCEPT ![cond[p]] = Merged(p)]
    BY <1>1 DEF TypeOK
  <2>2. DOMAIN rl'[p] = DOMAIN rl[p] /\ rl'[p][cond[p]] = Merged(p)
    BY <1>2, <2>1
  <2>3. \A k \in DOMAIN rl[p] : k # cond[p] => rl'[p][k] = rl[p][k]
    BY <2>1
  <2>4. QED
    BY <1>3, <2>2, <2>3 DEF RlStepOf, RlMerged
<1>4. CASE q # p
  <2>1. rl'[q] = rl[q]
    BY <1>1, <1>4 DEF TypeOK
  <2>2. QED
    BY <2>1, RlUnchanged
<1>5. QED
  BY <1>3, <1>4

LEMMA PostedKnown ==
  ASSUME NEW q \in Seq(Call), NEW m \in Call
  PROVE  Known(Posted(q, m), m)
<1>1. CASE Known(q, m) /\ ~m.ack
  BY <1>1 DEF Posted
<1>2. CASE ~(Known(q, m) /\ ~m.ack)
  <2>1. Posted(q, m) = Append(q, m)
    BY <1>2 DEF Posted
  <2>2. Len(q) + 1 \in DOMAIN Posted(q, m) /\ Posted(q, m)[Len(q) + 1] = m
    BY <2>1
  <2>3. QED
    BY <2>2 DEF Known, SameCall
<1>3. QED
  BY <1>1, <1>2

LEMMA ResumeEffect ==
  ASSUME SafetyInv, NEW p \in Proc, Resume(p), NEW q \in Proc
  PROVE  InStepOf(q) /\ RlStepOf(q)
<1>1. TypeOK /\ QueueState /\ cond[p] # 0
  BY DEF SafetyInv, QueueInv, QueueState, Resume, Ready
<1>2. Merged(p) \in Call /\ ~Merged(p).ack
  BY <1>1, MergedFacts DEF Resume
<1>3. /\ inptr' = inptr
      /\ in' = [r \in Proc |-> IF r \in CommitsTo(p) THEN Posted(in[r], Merged(p)) ELSE in[r]]
  BY DEF Resume
<1>4. InStepOf(q)
  <2>1. CASE q \in CommitsTo(p)
    <3>1. q \in Master
      BY <2>1 DEF CommitsTo
    <3>2. QED
      BY <1>1, <1>2, <1>3, <2>1, <3>1, PostedFresh
  <2>2. CASE q \notin CommitsTo(p)
    BY <1>1, <1>3, <2>2, InUnchanged
  <2>3. QED
    BY <2>1, <2>2
<1>5. Commits(p, Merged(p)) => \A m \in Master : Known(in'[m], Merged(p))
  <2>1. ASSUME Commits(p, Merged(p)), NEW m \in Master
        PROVE  Known(in'[m], Merged(p))
    <3>1. in'[m] = Posted(in[m], Merged(p)) /\ in[m] \in Seq(Call)
      BY <1>1, <1>3, <2>1 DEF CommitsTo, Proc, TypeOK
    <3>2. QED
      BY <1>2, <3>1, PostedKnown
  <2>2. QED
    BY <2>1
<1>6. RlStepOf(q)
  BY <1>5, MergeEffect DEF Resume, Ready
<1>7. QED
  BY <1>4, <1>6

LEMMA ResumeErrorEffect ==
  ASSUME SafetyInv, NEW p \in Proc, ResumeError(p), NEW q \in Proc
  PROVE  InStepOf(q) /\ RlStepOf(q)
<1>1. in' = in /\ inptr' = inptr
  BY DEF ResumeError
<1>2. Master = {}
  BY DEF ResumeError, Postable
<1>3. RlStepOf(q)
  BY <1>2, MergeEffect DEF ResumeError, Ready
<1>4. TypeOK
  BY DEF SafetyInv, QueueInv
<1>5. QED
  BY <1>1, <1>3, <1>4, InUnchanged

LEMMA StepEffect ==
  ASSUME SafetyInv, [Next]_vars, NEW q \in Proc
  PROVE  InStepOf(q) /\ RlStepOf(q)
<1>1. TypeOK
  BY DEF SafetyInv, QueueInv
<1>2. CASE UNCHANGED vars
  BY <1>1, <1>2, InUnchanged, RlUnchanged DEF vars
<1>3. CASE Next
  <2>1. PICK p \in Proc : UserCommand(p) \/ Step(p)
    BY <1>3 DEF Next
  <2>2. QED
    BY <1>1, <2>1, UserCommandEffect, OutStepEffect, ReadAckEffect, SkipFailedEffect,
       ExecuteEffect, ResumeEffect, ResumeErrorEffect DEF Step
<1>4. QED
  BY <1>2, <1>3

LEMMA ExecutePerforms ==
  ASSUME TypeOK, NEW q \in Proc, Execute(q)
  PROVE  Performs(q)
BY ExecuteFacts DEF Execute, Consume, Performs, TypeOK

LEMMA StepMoves ==
  ASSUME SafetyInv, [Next]_vars
  PROVE  Moved
<1> SUFFICES ASSUME NEW q \in Proc
             PROVE  InStepOf(q) /\ RlGrowsOf(q)
  BY DEF Moved
<1>1. InStepOf(q) /\ RlStepOf(q) /\ TypeOK
  BY StepEffect DEF SafetyInv, QueueInv
<1>2. QED
  BY <1>1, ExecutePerforms DEF RlStepOf, RlGrowsOf

-----------------------------------------------------------------------------
(* The conjuncts of SafetyInv, one by one. *)

LEMMA SentOutFresh ==
  ASSUME TypeOK, OutFresh, NEW p \in Proc, NEW calls \in Seq(Call),
         out' = [out EXCEPT ![p] = @ \o calls],
         \A i \in DOMAIN calls : LET m == calls[i]
                                 IN  m.from = p /\ ~m.ack /\ ~m.ackall /\ m.sign \subseteq {p}
  PROVE  OutFresh'
<1>1. ASSUME NEW q \in Proc, NEW i \in DOMAIN out'[q]
      PROVE  LET m == out'[q][i]
             IN  m.from = q /\ ~m.ack /\ ~m.ackall /\ m.sign \subseteq {q}
  <2>1. out[q] \in Seq(Call)
    BY DEF TypeOK
  <2>2. CASE q = p
    <3>1. out'[p] = out[p] \o calls
      BY DEF TypeOK
    <3>2. \/ i \in DOMAIN out[p] /\ out'[p][i] = out[p][i]
          \/ i - Len(out[p]) \in DOMAIN calls /\ out'[p][i] = calls[i - Len(out[p])]
      BY <1>1, <2>1, <2>2, <3>1
    <3>3. QED
      BY <2>2, <3>2 DEF OutFresh
  <2>3. CASE q # p
    BY <1>1, <2>3 DEF TypeOK, OutFresh
  <2>4. QED
    BY <2>2, <2>3
<1>2. QED
  BY <1>1 DEF OutFresh

LEMMA NewCallFresh ==
  ASSUME NEW p \in Proc, NEW nb, NEW to, NEW f, NEW r
  PROVE  LET m == NewCall(p, nb, to, f, r)
         IN  m.from = p /\ ~m.ack /\ ~m.ackall /\ m.sign \subseteq {p}
BY DEF NewCall

LEMMA PushOutFresh ==
  ASSUME TypeOK, OutFresh, NEW p \in Proc, NEW to \in Proc \cup {Group},
         NEW f \in Func, NEW r \in Nat \cup {NoNb}, Push(p, to, f, r)
  PROVE  OutFresh'
<1> DEFINE m == NewCall(p, Len(out[p]), to, f, r)
<1>1. Len(out[p]) \in Nat /\ out[p] \in Seq(Call)
  BY DEF TypeOK
<1>2. m \in Call
  BY <1>1, NewCallType
<1>3. m.from = p /\ ~m.ack /\ ~m.ackall /\ m.sign \subseteq {p}
  BY NewCallFresh
<1>4. out' = [out EXCEPT ![p] = Append(out[p], m)]
  BY DEF Push
<1> HIDE DEF m
<1>5. Append(out[p], m) = out[p] \o <<m>> /\ <<m>> \in Seq(Call)
  BY <1>1, <1>2
<1>6. out' = [out EXCEPT ![p] = @ \o <<m>>]
  BY <1>4, <1>5
<1>7. \A i \in DOMAIN <<m>> : <<m>>[i] = m
  OBVIOUS
<1>8. QED
  BY <1>3, <1>5, <1>6, <1>7, SentOutFresh, ZenonT(40)

LEMMA SyncOutFresh ==
  ASSUME TypeOK, OutFresh, NEW p \in Proc, NEW q \in Peer, Sync(p, q)
  PROVE  OutFresh'
<1>1. PICK m \in Master : \E f \in InOrder(Missing(q, m)) :
        Missing(q, m) # {} /\ SyncSend(p, SyncCalls(p, m, f))
  BY DEF Sync
<1>2. PICK f \in InOrder(Missing(q, m)) :
        Missing(q, m) # {} /\ SyncSend(p, SyncCalls(p, m, f))
  BY <1>1
<1> DEFINE calls == SyncCalls(p, m, f)
           sent == IF state[p] = "Waiting" THEN <<calls[1]>> ELSE calls
           new(c) == c.from = p /\ ~c.ack /\ ~c.ackall /\ c.sign \subseteq {p}
<1>3. calls \in Seq(Call) /\ calls # <<>>
  BY <1>2, SyncCallsType
<1>4. \A i \in DOMAIN calls : new(calls[i])
  BY NewCallFresh DEF SyncCalls
<1>5. out' = [out EXCEPT ![p] = @ \o sent]
  BY <1>2 DEF SyncSend
<1> HIDE DEF calls, new
<1>6. calls[1] \in Call /\ 1 \in DOMAIN calls
  BY <1>3
<1>7. sent \in Seq(Call) /\ \A i \in DOMAIN sent : new(sent[i])
  BY <1>3, <1>4, <1>6
<1> HIDE DEF sent
<1>8. QED
  BY <1>5, <1>7, SentOutFresh DEF new

LEMMA OutFreshNext == SafetyInv /\ [Next]_vars => OutFresh'
<1> SUFFICES ASSUME SafetyInv, [Next]_vars
             PROVE  OutFresh'
  OBVIOUS
<1>1. TypeOK /\ OutFresh
  BY DEF SafetyInv, QueueInv
<1>2. CASE out' = out
  BY <1>1, <1>2 DEF OutFresh
<1>3. ASSUME NEW p \in Proc, UserCommand(p)
      PROVE  OutFresh'
  <2>1. CASE \E to \in DOMAIN Method : \E f \in Method[to] : Send(p, to, f)
    <3>1. PICK to \in DOMAIN Method : \E f \in Method[to] : Send(p, to, f)
      BY <2>1
    <3>2. PICK f \in Method[to] : Send(p, to, f)
      BY <3>1
    <3>3. to \in Proc \cup {Group} /\ f \in Func /\ NoNb \in Nat \cup {NoNb}
      BY ProcAssumption DEF Proc
    <3>4. QED
      BY <1>1, <3>2, <3>3, PushOutFresh DEF Send
  <2>2. CASE SendReturn(p)
    <3>1. PICK m \in Master : \E i \in DOMAIN rl[m] : Push(p, Group, rl[m][i].func, i - 1)
      BY <2>2 DEF SendReturn
    <3>2. PICK i \in DOMAIN rl[m] : Push(p, Group, rl[m][i].func, i - 1)
      BY <3>1
    <3>3. rl[m] \in Seq(Call)
      BY <1>1 DEF TypeOK, Proc
    <3>4. rl[m][i] \in Call /\ i \in Nat \ {0}
      BY <3>3
    <3>5. rl[m][i].func \in Func /\ i - 1 \in Nat
      BY <3>4 DEF Call
    <3>6. QED
      BY <1>1, <3>2, <3>5, PushOutFresh
  <2>3. CASE \E q \in Peer : Sync(p, q)
    BY <1>1, <2>3, SyncOutFresh
  <2>4. QED
    BY <1>3, <2>1, <2>2, <2>3 DEF UserCommand
<1>4. ASSUME NEW p \in Proc, OutStep(p)
      PROVE  OutFresh'
  <2> DEFINE m == Transmitted(p)
  <2>1. out[p] \in Seq(Call) /\ outptr[p] \in DOMAIN out[p]
    BY <1>1, <1>4 DEF OutStep, OutIdle, TypeOK
  <2>2. out[p][outptr[p]] \in Call
    BY <2>1
  <2>3. m.from = p /\ ~m.ack /\ ~m.ackall /\ m.sign \subseteq {p}
    <3>1. LET c == out[p][outptr[p]]
          IN  c.from = p /\ ~c.ack /\ ~c.ackall /\ c.sign \subseteq {p}
      BY <1>1, <2>1 DEF OutFresh
    <3>2. QED
      BY <2>2, <3>1 DEF Transmitted, Marks, Call
  <2>4. out' = [out EXCEPT ![p] = [@ EXCEPT ![outptr[p]] = m]]
    BY <1>4 DEF OutStep
  <2> HIDE DEF m
  <2>5. \A q \in Proc : \A i \in DOMAIN out'[q] :
          i \in DOMAIN out[q] /\ (out'[q][i] = out[q][i] \/ (q = p /\ out'[q][i] = m))
    BY <1>1, <2>1, <2>4 DEF TypeOK
  <2>6. QED
    BY <1>1, <2>3, <2>5 DEF OutFresh
<1>5. CASE UNCHANGED vars
  BY <1>2, <1>5 DEF vars
<1>6. ASSUME NEW p \in Proc, ReadAck(p) \/ SkipFailed(p) \/ Execute(p) \/ Resume(p) \/ ResumeError(p)
      PROVE  OutFresh'
  BY <1>2, <1>6 DEF ReadAck, SkipFailed, Execute, Resume, ResumeError, Consume
<1>7. QED
  BY <1>3, <1>4, <1>5, <1>6 DEF Next, Step

LEMMA InFreshNext == SafetyInv /\ Moved => InFresh'
<1> SUFFICES ASSUME SafetyInv, Moved, NEW q \in Proc \ Master, NEW i \in DOMAIN in'[q]
             PROVE  ~in'[q][i].ackall /\ (~in'[q][i].ack => in'[q][i].sign \subseteq {in'[q][i].from})
  BY DEF InFresh
<1>1. InStepOf(q)
  BY DEF Moved
<1>2. CASE i \in DOMAIN in[q]
  BY <1>1, <1>2 DEF InStepOf, InKept, SameMessage, SafetyInv, InFresh
<1>3. CASE FreshCall(q, in'[q][i]) \/ FreshAck(q, in'[q][i])
  BY <1>3 DEF FreshCall, FreshAck
<1>4. QED
  BY <1>1, <1>2, <1>3 DEF InStepOf

LEMMA ReceivedOnceNext == SafetyInv /\ Moved => ReceivedOnce'
<1> SUFFICES ASSUME SafetyInv, Moved, NEW q \in Proc,
                    NEW i \in DOMAIN in'[q], NEW j \in DOMAIN in'[q],
                    ~in'[q][i].ack, ~in'[q][j].ack, SameCall(in'[q][i], in'[q][j])
             PROVE  i = j
  BY DEF ReceivedOnce
<1>1. InStepOf(q)
  BY DEF Moved
<1>2. \A n \in DOMAIN in[q] : in'[q][n].ack = in[q][n].ack /\ SameCall(in[q][n], in'[q][n])
  BY <1>1 DEF InStepOf, InKept, SameMessage, SameCall
<1>3. CASE i \in DOMAIN in[q] /\ j \in DOMAIN in[q]
  BY <1>2, <1>3 DEF SafetyInv, ReceivedOnce, SameCall
<1>4. ASSUME NEW n \in DOMAIN in[q], NEW k \in DOMAIN in'[q], k \notin DOMAIN in[q],
             ~in'[q][k].ack, SameCall(in'[q][n], in'[q][k])
      PROVE  FALSE
  <2>1. FreshCall(q, in'[q][k])
    BY <1>1, <1>4 DEF InStepOf, FreshAck
  <2>2. SameCall(in[q][n], in'[q][k])
    BY <1>2, <1>4 DEF SameCall
  <2>3. QED
    BY <2>1, <2>2 DEF FreshCall, Known
<1>5. QED
  BY <1>1, <1>3, <1>4 DEF InStepOf, SameCall

(* Entries of a replay list keep their number. *)
LEMMA EntryKept ==
  ASSUME SafetyInv, Moved, NEW q \in Proc, NEW k \in DOMAIN rl[q]
  PROVE  k \in DOMAIN rl'[q] /\ SameEntry(rl[q][k], rl'[q][k])
<1>1. RlGrowsOf(q)
  BY DEF Moved
<1>2. CASE rl'[q][k] = rl[q][k]
  BY <1>1, <1>2 DEF RlGrowsOf, SameEntry, SameCall
<1>3. CASE RlMerged(q, k)
  <2>1. cond[q] # 0
    BY <1>3 DEF RlMerged, SafetyInv, QueueInv, QueueState
  <2>2. QED
    BY <1>1, <1>3, <2>1, MergedFacts DEF RlMerged, RlGrowsOf
<1>4. QED
  BY <1>1, <1>2, <1>3 DEF RlGrowsOf

(* The entry a process appends is its current call. *)
LEMMA EntryOfCurrent ==
  ASSUME SafetyInv, NEW p \in Proc, ~InIdle(p), ~Current(p).ack
  PROVE  /\ Current(p) \in Call /\ ~Current(p).ack
         /\ inptr[p] \in DOMAIN in[p]
         /\ Entry(p).innb = Len(rl[p]) /\ ~Entry(p).ack
         /\ Entry(p).from = Current(p).from /\ Entry(p).outnb = Current(p).outnb
         /\ Entry(p).sign = Current(p).sign \cup {p}
         /\ Entry(p).ackall = Current(p).ackall
<1>1. TypeOK
  BY DEF SafetyInv, QueueInv
<1>2. Current(p) \in Call /\ inptr[p] \in DOMAIN in[p]
  BY <1>1, CurrentType
<1>3. Len(rl[p]) \in Nat
  BY <1>1 DEF TypeOK
<1>4. QED
  BY <1>2, <1>3 DEF Entry, Ran, Call

LEMMA EntryOf ==
  ASSUME SafetyInv, NEW p \in Proc, Performs(p)
  PROVE  /\ Current(p) \in Call /\ ~Current(p).ack
         /\ inptr[p] \in DOMAIN in[p]
         /\ Entry(p).innb = Len(rl[p]) /\ ~Entry(p).ack
         /\ Entry(p).from = Current(p).from /\ Entry(p).outnb = Current(p).outnb
         /\ Entry(p).sign = Current(p).sign \cup {p}
         /\ Entry(p).ackall = Current(p).ackall
BY EntryOfCurrent DEF Performs, Ready

LEMMA EntryFacts ==
  ASSUME SafetyInv, NEW p \in Proc, Execute(p)
  PROVE  /\ Current(p) \in Call /\ ~Current(p).ack
         /\ inptr[p] \in DOMAIN in[p]
         /\ Entry(p).innb = Len(rl[p]) /\ ~Entry(p).ack
         /\ Entry(p).from = Current(p).from /\ Entry(p).outnb = Current(p).outnb
         /\ Entry(p).sign = Current(p).sign \cup {p}
         /\ Entry(p).ackall = Current(p).ackall
BY EntryOfCurrent DEF Execute, Ready

LEMMA RlNumberedNext == SafetyInv /\ Moved => RlNumbered'
<1> SUFFICES ASSUME SafetyInv, Moved, NEW q \in Proc, NEW k \in DOMAIN rl'[q]
             PROVE  rl'[q][k].innb = k - 1 /\ ~rl'[q][k].ack
  BY DEF RlNumbered
<1>1. CASE k \in DOMAIN rl[q]
  BY <1>1, EntryKept DEF SameEntry, SafetyInv, RlNumbered
<1>2. CASE k = Len(rl[q]) + 1 /\ Performs(q) /\ rl'[q][k] = Entry(q)
  <2>1. Len(rl[q]) \in Nat
    BY DEF SafetyInv, QueueInv, TypeOK
  <2>2. QED
    BY <1>2, <2>1, EntryOf
<1>3. QED
  BY <1>1, <1>2 DEF Moved, RlGrowsOf

LEMMA LoggedProcessedNext == SafetyInv /\ TypeOK' /\ Moved => LoggedProcessed'
<1> SUFFICES ASSUME SafetyInv, TypeOK', Moved, NEW q \in Proc, NEW k \in DOMAIN rl'[q]
             PROVE  \E i \in DOMAIN in'[q] :
                      /\ i < inptr'[q] /\ ~in'[q][i].ack
                      /\ in'[q][i].innb = k - 1 /\ SameCall(in'[q][i], rl'[q][k])
  BY DEF LoggedProcessed, Processed
<1>1. InStepOf(q) /\ RlGrowsOf(q) /\ TypeOK
  BY DEF Moved, SafetyInv, QueueInv
<1>2. CASE k \in DOMAIN rl[q]
  <2>1. PICK i \in DOMAIN in[q] : Processed(q, k, i)
    BY <1>2 DEF SafetyInv, LoggedProcessed
  <2>2. i \in Nat /\ inptr[q] \in Nat /\ inptr'[q] \in Nat
    <3>1. in[q] \in Seq(Call)
      BY <1>1 DEF TypeOK
    <3>2. QED
      BY <1>1, <3>1, SMTT(30) DEF TypeOK
  <2>3. i \in DOMAIN in'[q] /\ in'[q][i] = in[q][i] /\ i < inptr'[q]
    BY <1>1, <2>1, <2>2 DEF InStepOf, InKept, Processed
  <2>4. SameEntry(rl[q][k], rl'[q][k])
    BY <1>2, EntryKept
  <2>5. QED
    BY <2>1, <2>3, <2>4 DEF Processed, SameEntry, SameCall
<1>3. CASE k = Len(rl[q]) + 1 /\ Performs(q) /\ Logs(q) /\ rl'[q][k] = Entry(q)
  <2>1. Len(rl[q]) \in Nat /\ in[q] \in Seq(Call) /\ inptr[q] \in Nat
    BY <1>1 DEF TypeOK
  <2>2. in'[q] = [in[q] EXCEPT ![inptr[q]] = Done(q)] /\ inptr[q] \in DOMAIN in[q]
    BY <1>1, <1>3, CurrentType DEF Performs, Ready
  <2>3. in'[q][inptr[q]] = Done(q) /\ inptr[q] \in DOMAIN in'[q]
    BY <2>1, <2>2
  <2>4. /\ Done(q).innb = Len(rl[q]) /\ ~Done(q).ack
        /\ Done(q).from = Current(q).from /\ Done(q).outnb = Current(q).outnb
    BY <1>3, EntryOf DEF Done, Ran, Call
  <2>5. inptr'[q] = inptr[q] + 1
    BY <1>1, <1>3 DEF Performs, TypeOK
  <2>6. QED
    BY <1>3, <2>1, <2>3, <2>4, <2>5, EntryOf DEF SameCall
<1>4. QED
  BY <1>1, <1>2, <1>3 DEF RlGrowsOf

LEMMA AcksTrueNext == SafetyInv /\ Moved => AcksTrue'
<1> SUFFICES ASSUME SafetyInv, Moved, NEW q \in Peer, NEW i \in DOMAIN in'[q],
                    in'[q][i].ack, NEW r \in (in'[q][i].sign \cap Peer) \ {in'[q][i].from}
             PROVE  /\ in'[q][i].innb + 1 \in DOMAIN rl'[r]
                    /\ SameCall(in'[q][i], rl'[r][in'[q][i].innb + 1])
  BY DEF AcksTrue, LoggedAt
<1>1. q \in Proc /\ r \in Proc /\ InStepOf(q)
  BY DEF Moved, Proc
<1>2. CASE i \in DOMAIN in[q]
  <2>1. in'[q][i] = in[q][i]
    BY <1>1, <1>2 DEF InStepOf, InKept, SameMessage
  <2>2. LoggedAt(r, in[q][i])
    BY <1>2, <2>1 DEF SafetyInv, AcksTrue
  <2> DEFINE k == in[q][i].innb + 1
  <2>3. k \in DOMAIN rl'[r] /\ SameEntry(rl[r][k], rl'[r][k])
    BY <1>1, <2>2, EntryKept DEF LoggedAt
  <2>4. QED
    BY <2>1, <2>2, <2>3, Zenon DEF LoggedAt, SameEntry, SameCall
<1>3. CASE FreshCall(q, in'[q][i]) \/ FreshAck(q, in'[q][i])
  BY <1>3 DEF FreshCall, FreshAck
<1>4. QED
  BY <1>1, <1>2, <1>3 DEF InStepOf

(* What p has when its wait ends: for each other peer, an ack of the entry *)
(* it waits for.                                                           *)
LEMMA FirstAckFacts ==
  ASSUME SafetyInv, NEW p \in Proc, AllAcks(p), NEW r \in Peer \ {p}
  PROVE  LET a == in[p][FirstAck(p, r)]
             e == rl[p][cond[p]]
         IN  /\ FirstAck(p, r) \in DOMAIN in[p]
             /\ a.ack /\ a.innb = e.innb /\ SameCall(a, e) /\ r \in a.sign
<1>1. TypeOK /\ AcksOf(p, r) # {}
  BY DEF SafetyInv, QueueInv, AllAcks
<1>2. FirstAck(p, r) \in AcksOf(p, r) /\ FirstAck(p, r) \in DOMAIN in[p]
  BY <1>1, FirstAckType
<1>3. QED
  BY <1>2 DEF AcksOf

LEMMA SignedMeansLoggedNext == SafetyInv /\ Moved => SignedMeansLogged'
<1> SUFFICES ASSUME SafetyInv, Moved, NEW p \in Peer, NEW k \in DOMAIN rl'[p],
                    NEW q \in (rl'[p][k].sign \cap Peer) \ {rl'[p][k].from}
             PROVE  k \in DOMAIN rl'[q] /\ SameCall(rl'[p][k], rl'[q][k])
  BY DEF SignedMeansLogged
<1>1. p \in Proc /\ q \in Proc /\ RlGrowsOf(p)
  BY DEF Moved, Proc
<1>2. ASSUME k \in DOMAIN rl[p], k \in DOMAIN rl[q], SameCall(rl[p][k], rl[q][k])
      PROVE  k \in DOMAIN rl'[q] /\ SameCall(rl'[p][k], rl'[q][k])
  <2>1. k \in DOMAIN rl'[q] /\ SameEntry(rl[p][k], rl'[p][k]) /\ SameEntry(rl[q][k], rl'[q][k])
    BY <1>1, <1>2, EntryKept
  <2>2. QED
    BY <1>2, <2>1 DEF SameEntry, SameCall
<1>3. CASE k \in DOMAIN rl[p] /\ rl'[p][k] = rl[p][k]
  <2>1. k \in DOMAIN rl[q] /\ SameCall(rl[p][k], rl[q][k])
    BY <1>3 DEF SafetyInv, SignedMeansLogged
  <2>2. QED
    BY <1>2, <1>3, <2>1
<1>4. CASE k \in DOMAIN rl[p] /\ RlMerged(p, k)
  <2> DEFINE e == rl[p][k]
  <2>1. e.from = rl'[p][k].from
    BY <1>1, <1>4, EntryKept DEF SameEntry, SameCall
  <2>2. e \in Call /\ e.innb = k - 1 /\ k \in Nat
    BY <1>1, <1>4, SMTT(30) DEF SafetyInv, QueueInv, TypeOK, RlNumbered
  <2>3. q \in e.sign \/ \E r \in Peer \ {p} : q \in in[p][FirstAck(p, r)].sign
    <3> DEFINE acks == {in[p][FirstAck(p, r)].sign : r \in Peer \ {p}}
    <3>1. Merged(p).sign = e.sign \cup UNION acks
      BY <1>4, <2>2, Zenon DEF RlMerged, Merged, Call
    <3>2. q \in e.sign \/ q \in UNION acks
      BY <1>4, <3>1 DEF RlMerged
    <3>3. QED
      BY <3>2
  <2>4. CASE q \in e.sign
    <3>1. k \in DOMAIN rl[q] /\ SameCall(rl[p][k], rl[q][k])
      BY <1>4, <2>1, <2>4 DEF SafetyInv, SignedMeansLogged
    <3>2. QED
      BY <1>2, <1>4, <3>1
  <2>5. CASE \E r \in Peer \ {p} : q \in in[p][FirstAck(p, r)].sign
    <3>1. PICK r \in Peer \ {p} : q \in in[p][FirstAck(p, r)].sign
      BY <2>5
    <3> DEFINE a == in[p][FirstAck(p, r)]
    <3>2. FirstAck(p, r) \in DOMAIN in[p] /\ a.ack /\ a.innb = e.innb /\ SameCall(a, e)
      BY <1>1, <1>4, FirstAckFacts DEF RlMerged
    <3>3. LoggedAt(q, a)
      BY <2>1, <3>1, <3>2 DEF SafetyInv, AcksTrue, SameCall
    <3>4. k \in DOMAIN rl[q] /\ SameCall(a, rl[q][k])
      BY <2>2, <3>2, <3>3 DEF LoggedAt
    <3>5. SameCall(rl[p][k], rl[q][k])
      BY <3>2, <3>4 DEF SameCall
    <3>6. QED
      BY <1>2, <1>4, <3>4, <3>5
  <2>6. QED
    BY <2>3, <2>4, <2>5
<1>5. CASE k = Len(rl[p]) + 1 /\ Performs(p) /\ rl'[p][k] = Entry(p)
  <2>1. Current(p).sign \subseteq {Current(p).from}
    <3>1. p \in Proc \ Master
      BY <1>1, ProcAssumption
    <3>2. QED
      BY <1>1, <1>5, <3>1, EntryOf DEF SafetyInv, InFresh, Current
  <2>2. q = p
    BY <1>1, <1>5, <2>1, EntryOf
  <2>3. QED
    BY <2>2 DEF SameCall
<1>6. QED
  BY <1>1, <1>3, <1>4, <1>5 DEF RlGrowsOf

LEMMA MarkedByAllNext == SafetyInv /\ Moved => MarkedByAll'
<1> SUFFICES ASSUME SafetyInv, Moved, NEW p \in Proc \ Master, NEW k \in DOMAIN rl'[p],
                    rl'[p][k].ackall
             PROVE  Peer \subseteq rl'[p][k].sign
  BY DEF MarkedByAll
<1>1. RlGrowsOf(p)
  BY DEF Moved
<1>2. CASE k \in DOMAIN rl[p] /\ rl'[p][k] = rl[p][k]
  BY <1>2 DEF SafetyInv, MarkedByAll
<1>3. CASE RlMerged(p, k)
  <2>1. cond[p] # 0
    BY <1>3 DEF RlMerged, SafetyInv, QueueInv, QueueState
  <2>2. QED
    BY <1>3, <2>1, MergedFacts DEF RlMerged
<1>4. CASE Performs(p) /\ rl'[p][k] = Entry(p)
  BY <1>4, EntryOf DEF SafetyInv, InFresh, Current
<1>5. QED
  BY <1>1, <1>2, <1>3, <1>4 DEF RlGrowsOf

LEMMA KnownKept ==
  ASSUME SafetyInv, Moved, NEW q \in Proc, NEW m, Known(in[q], m)
  PROVE  Known(in'[q], m)
<1>1. PICK i \in DOMAIN in[q] : SameCall(in[q][i], m)
  BY DEF Known
<1>2. i \in DOMAIN in'[q] /\ InKept(q, i)
  BY DEF Moved, InStepOf
<1>3. SameCall(in'[q][i], m)
  BY <1>1, <1>2 DEF InKept, SameMessage, SameCall
<1>4. QED
  BY <1>2, <1>3 DEF Known

LEMMA CommittedReachMasterNext == SafetyInv /\ Moved => CommittedReachMaster'
<1> SUFFICES ASSUME SafetyInv, Moved, NEW p \in Peer, NEW k \in DOMAIN rl'[p],
                    rl'[p][k].ackall, ~IsReturn(rl'[p][k]), rl'[p][k].func \in Committed,
                    NEW m \in Master
             PROVE  Known(in'[m], rl'[p][k])
  BY DEF CommittedReachMaster, IsReturn
<1>1. p \in Proc \ Master /\ m \in Proc /\ RlGrowsOf(p)
  BY ProcAssumption DEF Moved, Proc
<1>2. CASE k \in DOMAIN rl[p] /\ rl'[p][k] = rl[p][k]
  <2>1. Known(in[m], rl[p][k])
    BY <1>2 DEF SafetyInv, CommittedReachMaster, IsReturn
  <2>2. QED
    BY <1>1, <1>2, <2>1, KnownKept
<1>3. CASE RlMerged(p, k)
  BY <1>3 DEF RlMerged, Commits
<1>4. CASE Performs(p) /\ rl'[p][k] = Entry(p)
  BY <1>1, <1>4, EntryOf DEF SafetyInv, InFresh, Current
<1>5. QED
  BY <1>1, <1>2, <1>3, <1>4 DEF RlGrowsOf

-----------------------------------------------------------------------------

LEMMA SafetyInvInit == Init => SafetyInv
<1> SUFFICES ASSUME Init
             PROVE  SafetyInv
  OBVIOUS
<1>1. QueueInv
  BY QueueInvInit
<1>2. \A p \in Proc : in[p] = <<>> /\ out[p] = <<>> /\ rl[p] = <<>>
  BY DEF Init
<1>3. Peer \subseteq Proc /\ \A p \in Proc : DOMAIN in[p] = {} /\ DOMAIN out[p] = {} /\ DOMAIN rl[p] = {}
  BY <1>2 DEF Proc
<1>4. QED
  BY <1>1, <1>3 DEF SafetyInv, OutFresh, InFresh, RlNumbered, ReceivedOnce, LoggedProcessed,
     AcksTrue, SignedMeansLogged, MarkedByAll, CommittedReachMaster

LEMMA MovedSafetyInv == SafetyInv /\ QueueInv' /\ OutFresh' /\ Moved => SafetyInv'
<1>1. QueueInv' => TypeOK'
  BY DEF QueueInv
<1>2. QED
  BY <1>1, InFreshNext, RlNumberedNext, ReceivedOnceNext, LoggedProcessedNext,
     AcksTrueNext, SignedMeansLoggedNext, MarkedByAllNext, CommittedReachMasterNext
     DEF SafetyInv

LEMMA SafetyInvNext == SafetyInv /\ [Next]_vars => SafetyInv'
<1>1. SafetyInv /\ [Next]_vars => QueueInv'
  BY QueueInvNext DEF SafetyInv
<1>2. QED
  BY <1>1, OutFreshNext, StepMoves, MovedSafetyInv

(* Entries of a replay list keep their number.                             *)
LEMMA RlKept ==
  ASSUME SafetyInv, [Next]_vars, NEW q \in Proc, NEW k \in DOMAIN rl[q]
  PROVE  k \in DOMAIN rl'[q] /\ SameEntry(rl[q][k], rl'[q][k])
BY StepMoves, EntryKept

LEMMA SafetyInvHolds == Spec => []SafetyInv
BY SafetyInvInit, SafetyInvNext, PTL DEF Spec

(* No process executes a call twice, however often it receives it: two     *)
(* entries of a replay list for one call would be numbers of one message.  *)
LEMMA LoggedOnce == SafetyInv => OncePerCall
<1> SUFFICES ASSUME SafetyInv, NEW p \in Proc, NEW k \in DOMAIN rl[p], NEW n \in DOMAIN rl[p],
                    SameCall(rl[p][k], rl[p][n])
             PROVE  k = n
  BY DEF OncePerCall
<1>1. PICK i \in DOMAIN in[p] : Processed(p, k, i)
  BY DEF SafetyInv, LoggedProcessed
<1>2. PICK j \in DOMAIN in[p] : Processed(p, n, j)
  BY DEF SafetyInv, LoggedProcessed
<1>3. i = j
  BY <1>1, <1>2 DEF SafetyInv, ReceivedOnce, Processed, SameCall
<1>4. k \in Nat /\ n \in Nat
  BY DEF SafetyInv, QueueInv, TypeOK
<1>5. QED
  BY <1>1, <1>2, <1>3, <1>4 DEF Processed

THEOREM AtMostOnce == Spec => []OncePerCall
BY SafetyInvHolds, LoggedOnce, PTL

(* A mark in a replay list is true: its owner has logged that call under   *)
(* that number, or is the one who sent the call.                           *)
THEOREM MarksAreTrue == Spec => []SignedMeansLogged
<1>1. SafetyInv => SignedMeansLogged
  BY DEF SafetyInv
<1>2. QED
  BY <1>1, SafetyInvHolds, PTL

(* A committed call that a peer has seen acked by all is in the master's   *)
(* IN queue.                                                               *)
THEOREM CommittedNotWithheld == Spec => []CommittedReachMaster
<1>1. SafetyInv => CommittedReachMaster
  BY DEF SafetyInv
<1>2. QED
  BY <1>1, SafetyInvHolds, PTL

(* A replay list only grows: an entry keeps its call, its marks and ACK*.  *)
THEOREM ReplayListsGrow == Spec => ReplayListGrows
<1>1. SafetyInv /\ SafetyInv' /\ [Next]_vars =>
        [\A p \in Proc : \A i \in DOMAIN rl[p] :
           /\ i \in DOMAIN rl'[p]
           /\ SameCall(rl[p][i], rl'[p][i])
           /\ rl[p][i].sign \subseteq rl'[p][i].sign
           /\ rl[p][i].ackall => rl'[p][i].ackall]_vars
  <2> SUFFICES ASSUME SafetyInv, [Next]_vars, NEW p \in Proc, NEW i \in DOMAIN rl[p]
               PROVE  /\ i \in DOMAIN rl'[p]
                      /\ SameCall(rl[p][i], rl'[p][i])
                      /\ rl[p][i].sign \subseteq rl'[p][i].sign
                      /\ rl[p][i].ackall => rl'[p][i].ackall
    OBVIOUS
  <2>1. i \in DOMAIN rl'[p] /\ SameEntry(rl[p][i], rl'[p][i])
    BY RlKept
  <2>2. rl[p][i].ackall => rl'[p][i].ackall
    <3>1. CASE rl'[p][i] = rl[p][i]
      BY <3>1
    <3>2. CASE RlMerged(p, i)
      <4>1. cond[p] # 0 /\ p \notin Master /\ AllAcks(p)
        BY <3>2 DEF RlMerged, SafetyInv, QueueInv, QueueState
      <4>2. rl[p][i].ackall => Peer \subseteq Merged(p).sign
        BY <3>2, <4>1, MergedFacts DEF RlMerged, SafetyInv, MarkedByAll, SameEntry
      <4>3. QED
        BY <3>2, <4>1, <4>2, MergedFacts DEF RlMerged
    <3>3. QED
      BY <3>1, <3>2, StepEffect DEF RlStepOf
  <2>3. QED
    BY <2>1, <2>2 DEF SameEntry
<1>2. QED
  BY <1>1, SafetyInvHolds, PTL DEF Spec, ReplayListGrows

(* Only these steps of p touch its replay list or COND.                    *)
LEMMA OwnSteps ==
  ASSUME TypeOK, [Next]_vars, NEW p \in Proc
  PROVE  \/ rl'[p] = rl[p] /\ cond'[p] = cond[p]
         \/ Execute(p) \/ Resume(p) \/ ResumeError(p)
<1>1. CASE UNCHANGED vars
  BY <1>1 DEF vars
<1>2. ASSUME NEW q \in Proc, UserCommand(q)
      PROVE  UNCHANGED <<rl, cond>>
  BY <1>2 DEF UserCommand, Send, SendReturn, Sync, SyncSend, Push
<1>3. ASSUME NEW q \in Proc, OutStep(q) \/ ReadAck(q) \/ SkipFailed(q)
      PROVE  UNCHANGED <<rl, cond>>
  BY <1>3 DEF OutStep, ReadAck, SkipFailed
<1>4. ASSUME NEW q \in Proc \ {p}, Execute(q) \/ Resume(q) \/ ResumeError(q)
      PROVE  rl'[p] = rl[p] /\ cond'[p] = cond[p]
  BY <1>4 DEF Execute, Resume, ResumeError, TypeOK
<1>5. QED
  BY <1>1, <1>2, <1>3, <1>4 DEF Next, Step

(* Without a master, the entry a peer cannot commit is the one it waits    *)
(* for, and no step makes it log another.                                  *)
LEMMA MasterlessCommitNext == SafetyInv /\ MasterlessCommit /\ [Next]_vars => MasterlessCommit'
<1> SUFFICES ASSUME SafetyInv, MasterlessCommit, [Next]_vars, Master = {},
                    NEW p \in Peer, NEW k \in DOMAIN rl'[p],
                    rl'[p][k].ackall, ~IsReturn(rl'[p][k]), rl'[p][k].func \in Committed
             PROVE  k = Len(rl'[p]) /\ cond'[p] = k
  BY DEF MasterlessCommit, IsReturn
<1>1. p \in Proc /\ RlStepOf(p) /\ TypeOK /\ QueueState
  BY StepEffect DEF Proc, SafetyInv, QueueInv
<1>2. TypeOK' /\ QueueState'
  BY SafetyInvNext DEF SafetyInv, QueueInv
<1>3. ASSUME k \in DOMAIN rl[p], rl'[p][k] = rl[p][k]
      PROVE  k = Len(rl[p]) /\ cond[p] = k /\ k # 0
  <2>1. k = Len(rl[p]) /\ cond[p] = k
    BY <1>3 DEF MasterlessCommit, IsReturn
  <2>2. k \in Nat \ {0}
    BY <1>1, <1>3 DEF TypeOK
  <2>3. QED
    BY <2>1, <2>2
<1>4. CASE rl'[p] = rl[p] /\ cond'[p] = cond[p]
  BY <1>3, <1>4
<1>5. CASE Execute(p)
  <2>1. cond[p] = 0
    BY <1>1, <1>5 DEF Execute, Ready, QueueState
  <2>2. rl'[p][k] = Entry(p)
    BY <1>1, <1>3, <2>1, <1>5 DEF RlStepOf, RlMerged, Execute, Ready
  <2>3. QED
    BY <1>1, <1>5, <2>2, EntryFacts DEF SafetyInv, InFresh, Current
<1>6. CASE Resume(p) \/ ResumeError(p)
  <2>1. cond[p] # 0 /\ state[p] = "Waiting" /\ AllAcks(p)
    BY <1>1, <1>6 DEF Resume, ResumeError, Ready, QueueState
  <2>2. cond[p] = Len(rl[p]) /\ Len(rl'[p]) = Len(rl[p]) /\ k \in DOMAIN rl[p]
    <3>1. rl' = [rl EXCEPT ![p][cond[p]] = Merged(p)] /\ cond[p] = Len(rl[p])
      BY <1>1, <1>6, <2>1 DEF Resume, ResumeError, QueueState
    <3>2. QED
      BY <1>1, <3>1 DEF TypeOK
  <2>3. k = cond[p]
    BY <1>1, <1>3, <2>2 DEF RlStepOf, RlMerged
  <2>4. rl'[p][k] = Merged(p)
    <3>1. cond[p] \in DOMAIN rl[p] /\ rl[p] \in Seq(Call)
      BY <1>1, <2>1, MergedFacts DEF TypeOK
    <3>2. QED
      BY <1>1, <1>6, <2>3, <3>1 DEF Resume, ResumeError, TypeOK
  <2>5. ~Postable(p, Merged(p))
    BY <2>4 DEF Postable, Commits, IsReturn
  <2>6. cond' = cond
    BY <1>6, <2>5 DEF Resume, ResumeError
  <2>7. QED
    BY <2>2, <2>3, <2>6
<1>7. QED
  BY <1>1, <1>4, <1>5, <1>6, OwnSteps

(* In a group without a master, a peer that has a committed call acked by  *)
(* all is stuck on it for ever.                                            *)
THEOREM MasterlessStuck == Spec => []MasterlessCommit
<1>1. Init => MasterlessCommit
  BY DEF Init, MasterlessCommit, Proc
<1>2. QED
  BY <1>1, MasterlessCommitNext, SafetyInvHolds, PTL DEF Spec

-----------------------------------------------------------------------------
(***************************************************************************)
(* The mirrors, for servlets that do what Servlets says.                   *)
(*                                                                         *)
(* Recursion over the entries of a replay list.  A function that satisfies *)
(* a recursive equation is unique, and there is one: both by the least     *)
(* number where it would not be so.                                        *)
(***************************************************************************)

LEMMA ChainUnique ==
  ASSUME NEW N \in Nat, NEW f, NEW g, f[0] = g[0],
         \A n \in 1 .. N : f[n - 1] = g[n - 1] => f[n] = g[n]
  PROVE  \A n \in 0 .. N : f[n] = g[n]
<1> DEFINE D == {n \in 0 .. N : f[n] # g[n]}
<1> SUFFICES ASSUME D # {}
             PROVE  FALSE
  OBVIOUS
<1>1. PICK n \in D : \A k \in D : n <= k
  <2>1. D \in SUBSET Nat
    OBVIOUS
  <2> HIDE DEF D
  <2>2. QED
    BY <2>1, LeastExists
<1>2. n # 0 /\ n \in 1 .. N /\ n - 1 \in 0 .. N
  BY <1>1
<1>3. n - 1 \notin D
  BY <1>1, <1>2
<1>4. QED
  BY <1>1, <1>2, <1>3

Chain(f, s, es, cs, N) ==
  f = [n \in 0 .. N |-> IF n = 0 THEN s ELSE Applied(f[n - 1], es[n], cs[n])]

LEMMA ChainExists ==
  ASSUME NEW s, NEW es, NEW cs, NEW N \in Nat
  PROVE  \E f : Chain(f, s, es, cs, N)
<1> DEFINE E(g, K) == [n \in 0 .. K |-> IF n = 0 THEN s ELSE Applied(g[n - 1], es[n], cs[n])]
           D == {K \in Nat : ~\E f : f = E(f, K)}
<1> SUFFICES ASSUME D # {}
             PROVE  FALSE
  BY DEF Chain
<1>1. PICK K \in D : \A k \in D : K <= k
  BY LeastExists
<1>2. CASE K = 0
  <2> DEFINE f == [n \in 0 .. 0 |-> s]
  <2>1. f = E(f, 0)
    OBVIOUS
  <2>2. QED
    BY <1>1, <1>2, <2>1
<1>3. CASE K # 0
  <2>1. K - 1 \in Nat /\ K - 1 \notin D
    BY <1>1, <1>3
  <2>2. PICK f : f = E(f, K - 1)
    BY <2>1
  <2> DEFINE g == [n \in 0 .. K |-> IF n = K THEN Applied(f[K - 1], es[K], cs[K]) ELSE f[n]]
  <2>3. ASSUME NEW n \in 0 .. K
        PROVE  g[n] = E(g, K)[n]
    <3>1. CASE n = K
      BY <1>1, <1>3, <3>1
    <3>2. CASE n # K
      <4>1. n \in 0 .. K - 1 /\ g[n] = f[n]
        BY <1>1, <3>2
      <4>2. n # 0 => g[n - 1] = f[n - 1]
        BY <1>1, <4>1
      <4>3. f[n] = E(f, K - 1)[n]
        BY <2>2
      <4>4. QED
        BY <4>1, <4>2, <4>3
    <3>3. QED
      BY <3>1, <3>2
  <2>4. g = E(g, K)
    BY <2>3
  <2>5. QED
    BY <1>1, <2>4
<1>4. QED
  BY <1>2, <1>3

LEMMA ReplayOfFacts ==
  ASSUME NEW s, NEW es, NEW cs, Len(es) \in Nat
  PROVE  /\ ReplayOf(s, es, cs)[0] = s
         /\ \A n \in 1 .. Len(es) :
              ReplayOf(s, es, cs)[n] = Applied(ReplayOf(s, es, cs)[n - 1], es[n], cs[n])
<1> DEFINE E(g) == [n \in 0 .. Len(es) |->
                      IF n = 0 THEN s ELSE Applied(g[n - 1], es[n], cs[n])]
           f == CHOOSE g : g = E(g)
<1>1. PICK g : Chain(g, s, es, cs, Len(es))
  BY ChainExists
<1>2. f = E(f)
  <2>1. g = E(g)
    BY <1>1 DEF Chain
  <2>2. QED
    BY <2>1
<1>3. ReplayOf(s, es, cs) = f
  BY DEF ReplayOf
<1> HIDE DEF f
<1>4. f[0] = s /\ \A n \in 1 .. Len(es) : f[n] = Applied(f[n - 1], es[n], cs[n])
  BY <1>2
<1>5. QED
  BY <1>3, <1>4

-----------------------------------------------------------------------------
(* What a step does to a process.                                          *)

LEMMA MovesOf ==
  ASSUME Moves, NEW q \in Proc
  PROVE  InStepOf(q) /\ RlGrowsOf(q) /\ OwnStepOf(q) /\ CondStepOf(q) /\ OutStepOf(q)
BY DEF Moves, Moved

LEMMA MovesSafe ==
  ASSUME Moves
  PROVE  SafetyInv' /\ TypeOK'
BY DEF Moves, SafetyInv, QueueInv

LEMMA RlMoves ==
  ASSUME SafetyInv, Moves, NEW q \in Proc, NEW k \in DOMAIN rl[q]
  PROVE  k \in DOMAIN rl'[q] /\ SameEntry(rl[q][k], rl'[q][k])
BY EntryKept DEF Moves

LEMMA PerformFacts ==
  ASSUME SafetyInv, NEW p \in Proc, Performs(p)
  PROVE  /\ ~InIdle(p) /\ OutIdle(p) /\ state[p] = "Active" /\ cond[p] = 0
         /\ Awaits(p) => Logs(p) /\ p \notin Master
         /\ rl'[p] = IF Logs(p) THEN Append(rl[p], Entry(p)) ELSE rl[p]
         /\ in'[p] = [in[p] EXCEPT ![inptr[p]] = Done(p)]
         /\ in[p] \in Seq(Call) /\ inptr[p] \in DOMAIN in[p]
         /\ in'[p][inptr[p]] = Done(p) /\ inptr[p] \in DOMAIN in'[p]
         /\ inptr'[p] = inptr[p] + 1
         /\ Entry(p) \in Call /\ Done(p) \in Call /\ Ack(p) \in Call
<1>1. TypeOK /\ QueueState
  BY DEF SafetyInv, QueueInv
<1>2. Ready(p, "Active") /\ ~InIdle(p)
  BY DEF Performs, Ready
<1>3. cond[p] = 0
  BY <1>1, <1>2 DEF Ready, QueueState
<1>4. inptr[p] \in DOMAIN in[p] /\ in[p] \in Seq(Call) /\ inptr'[p] = inptr[p] + 1
  BY <1>1, <1>2, CurrentType DEF TypeOK, Performs
<1>5. in'[p] = [in[p] EXCEPT ![inptr[p]] = Done(p)]
  BY DEF Performs
<1>6. in'[p][inptr[p]] = Done(p) /\ inptr[p] \in DOMAIN in'[p]
  BY <1>4, <1>5
<1>7. Entry(p) \in Call /\ Done(p) \in Call /\ Ack(p) \in Call
  BY <1>1, <1>2, ExecuteCalls
<1>8. QED
  BY <1>2, <1>3, <1>4, <1>5, <1>6, <1>7 DEF Performs, Ready, Awaits, Acks, Logs

-----------------------------------------------------------------------------
(* In one host: what a step does to the queues, in detail.                 *)

(* A message that has just been added to q's IN.                           *)
Added(q, m) ==
  \/ \E p \in Proc : OutStep(p) /\ m = Transmitted(p) /\ q \in Dest(m.to)
  \/ \E p \in Proc \ {q} : Execute(p) /\ Acks(p) /\ q \in Peer /\ m = Ack(p)
  \/ \E p \in Proc : Resume(p) /\ q \in CommitsTo(p) /\ m = Merged(p)

QueueStep(q) ==
  /\ \A i \in DOMAIN in'[q] : i \in DOMAIN in[q] \/ (i = Len(in[q]) + 1 /\ Added(q, in'[q][i]))
  /\ OwnStepOf(q)

LEMMA QueueStepQuiet ==
  ASSUME NEW q \in Proc, in'[q] = in[q], inptr'[q] = inptr[q], self'[q] = self[q]
  PROVE  QueueStep(q)
BY DEF QueueStep, OwnStepOf

LEMMA QueueStepAdded ==
  ASSUME TypeOK, NEW q \in Proc, NEW m \in Call, Added(q, m),
         in'[q] = Append(in[q], m), inptr'[q] = inptr[q], self'[q] = self[q]
  PROVE  QueueStep(q)
<1>1. in[q] \in Seq(Call)
  BY DEF TypeOK
<1>2. \A i \in DOMAIN in'[q] : i \in DOMAIN in[q] \/ (i = Len(in[q]) + 1 /\ in'[q][i] = m)
  BY <1>1
<1>3. \A i \in DOMAIN in[q] : in'[q][i] = in[q][i]
  BY <1>1
<1>4. QED
  BY <1>2, <1>3 DEF QueueStep, OwnStepOf

LEMMA QueueStepPosted ==
  ASSUME TypeOK, NEW q \in Proc, NEW m \in Call, Added(q, m),
         in'[q] = Posted(in[q], m), inptr'[q] = inptr[q], self'[q] = self[q]
  PROVE  QueueStep(q)
BY QueueStepQuiet, QueueStepAdded DEF Posted

LEMMA TransmittedFacts ==
  ASSUME TypeOK, NEW p \in Proc, OutStep(p)
  PROVE  /\ outptr[p] \in DOMAIN out[p]
         /\ Transmitted(p) \in Call
         /\ SameRequest(out[p][outptr[p]], Transmitted(p))
         /\ Transmitted(p).ack = out[p][outptr[p]].ack
<1>1. outptr[p] \in DOMAIN out[p] /\ out[p] \in Seq(Call)
  BY DEF OutStep, OutIdle, TypeOK
<1>2. out[p][outptr[p]] \in Call
  BY <1>1
<1>3. QED
  BY <1>1, <1>2 DEF Transmitted, Marks, Call, SameRequest, SameCall

LEMMA QueueEffect ==
  ASSUME SafetyInv, [Next]_vars, NEW q \in Proc
  PROVE  QueueStep(q)
<1>1. TypeOK /\ QueueState
  BY DEF SafetyInv, QueueInv
<1>2. CASE in'[q] = in[q] /\ inptr'[q] = inptr[q] /\ self'[q] = self[q]
  BY <1>2, QueueStepQuiet
<1>3. ASSUME NEW p \in Proc, UserCommand(p)
      PROVE  UNCHANGED <<in, inptr, self>>
  BY <1>3 DEF UserCommand, Send, SendReturn, Sync, SyncSend, Push
<1>4. ASSUME NEW p \in Proc, OutStep(p)
      PROVE  QueueStep(q)
  <2> DEFINE m == Transmitted(p)
  <2>1. /\ in'[q] = IF q \in Dest(m.to) THEN Posted(in[q], m) ELSE in[q]
        /\ inptr' = inptr /\ self' = self
    BY <1>4 DEF OutStep
  <2>2. m \in Call
    BY <1>1, <1>4, TransmittedFacts
  <2>3. q \in Dest(m.to) => Added(q, m)
    BY <1>4 DEF Added
  <2> HIDE DEF m
  <2>4. QED
    BY <1>1, <2>1, <2>2, <2>3, QueueStepQuiet, QueueStepPosted
<1>5. ASSUME NEW p \in Proc, ReadAck(p)
      PROVE  QueueStep(q)
  BY <1>1, <1>5 DEF ReadAck, Consume, QueueStep, OwnStepOf, TypeOK
<1>6. ASSUME NEW p \in Proc, SkipFailed(p)
      PROVE  QueueStep(q)
  <2> DEFINE m == [Current(p) EXCEPT !.result = "fail"]
  <2>1. ~InIdle(p)
    BY <1>6 DEF SkipFailed, Ready
  <2>2. in[p] \in Seq(Call) /\ inptr[p] \in DOMAIN in[p]
    BY <1>1, <2>1, CurrentType DEF TypeOK
  <2>3. in' = [in EXCEPT ![p] = [@ EXCEPT ![inptr[p]] = m]]
        /\ inptr' = [inptr EXCEPT ![p] = @ + 1] /\ self' = self
    BY <1>6 DEF SkipFailed, Consume, Current
  <2>4. CASE q # p
    BY <1>1, <2>3, <2>4, QueueStepQuiet DEF TypeOK
  <2>5. CASE q = p
    <3>1. Answered(p, m)
      BY <1>6 DEF Answered
    <3> HIDE DEF m
    <3>2. /\ DOMAIN in'[p] = DOMAIN in[p] /\ in'[p][inptr[p]] = m
          /\ \A i \in DOMAIN in[p] : i # inptr[p] => in'[p][i] = in[p][i]
      BY <1>1, <2>2, <2>3 DEF TypeOK
    <3>3. inptr'[p] = inptr[p] + 1
      BY <1>1, <2>3 DEF TypeOK
    <3>4. QED
      BY <1>6, <2>3, <2>5, <3>1, <3>2, <3>3 DEF QueueStep, OwnStepOf
  <2>6. QED
    BY <2>4, <2>5
<1>7. ASSUME NEW p \in Proc, Execute(p)
      PROVE  QueueStep(q)
  <2>1. inptr' = [inptr EXCEPT ![p] = @ + 1] /\ self' = [self EXCEPT ![p] = Run(p, Current(p))]
    BY <1>7 DEF Execute, Consume
  <2>2. /\ inptr[p] \in DOMAIN in[p]
        /\ in'[p] = [in[p] EXCEPT ![inptr[p]] = Done(p)]
        /\ q # p => in'[q] = IF Acks(p) /\ q \in Peer THEN Append(in[q], Ack(p)) ELSE in[q]
    BY <1>1, <1>7, ExecuteFacts
  <2>3. Ack(p) \in Call /\ in[p] \in Seq(Call)
    BY <1>1, <1>7, ExecuteCalls DEF Execute, Ready, TypeOK
  <2>4. CASE q # p
    <3>1. inptr'[q] = inptr[q] /\ self'[q] = self[q]
      BY <1>1, <2>1, <2>4 DEF TypeOK
    <3>2. Acks(p) /\ q \in Peer => Added(q, Ack(p))
      BY <1>7, <2>4 DEF Added
    <3>3. QED
      BY <1>1, <2>2, <2>3, <2>4, <3>1, <3>2, QueueStepQuiet, QueueStepAdded
  <2>5. CASE q = p
    <3>1. /\ DOMAIN in'[p] = DOMAIN in[p] /\ in'[p][inptr[p]] = Done(p)
          /\ \A i \in DOMAIN in[p] : i # inptr[p] => in'[p][i] = in[p][i]
      BY <2>2, <2>3
    <3>2. inptr'[p] = inptr[p] + 1
      BY <1>1, <2>1 DEF TypeOK
    <3>3. QED
      BY <1>1, <1>7, <2>5, <3>1, <3>2, ExecutePerforms DEF QueueStep, OwnStepOf, Answered
  <2>6. QED
    BY <2>4, <2>5
<1>8. ASSUME NEW p \in Proc, Resume(p)
      PROVE  QueueStep(q)
  <2>1. /\ in'[q] = IF q \in CommitsTo(p) THEN Posted(in[q], Merged(p)) ELSE in[q]
        /\ inptr' = inptr /\ self' = self
    BY <1>8 DEF Resume
  <2>2. Merged(p) \in Call
    BY <1>1, <1>8, ResumeFacts
  <2>3. q \in CommitsTo(p) => Added(q, Merged(p))
    BY <1>8 DEF Added
  <2>4. QED
    BY <1>1, <2>1, <2>2, <2>3, QueueStepQuiet, QueueStepPosted
<1>9. ASSUME NEW p \in Proc, ResumeError(p)
      PROVE  UNCHANGED <<in, inptr, self>>
  BY <1>9 DEF ResumeError
<1>10. UNCHANGED vars => UNCHANGED <<in, inptr, self>>
  BY DEF vars
<1>11. QED
  BY <1>2, <1>3, <1>4, <1>5, <1>6, <1>7, <1>8, <1>9, <1>10 DEF Next, Step

-----------------------------------------------------------------------------
(* What a step leaves of the calls that can be sent.                       *)

LEMMA ReturnKept ==
  ASSUME SafetyInv, Moves, NEW m, ReturnOf(m)
  PROVE  \E a \in Master :
           /\ m.ret + 1 \in DOMAIN rl'[a] /\ rl'[a][m.ret + 1].func = m.func
           /\ CallerOf(m)' = CallerOf(m)
           /\ IsReturn(m) => CallerOf(m) = rl[a][m.ret + 1].from
<1>1. PICK a \in Master : m.ret + 1 \in DOMAIN rl[a] /\ rl[a][m.ret + 1].func = m.func
  BY DEF ReturnOf
<1>2. a \in Proc
  BY DEF Proc
<1>3. m.ret + 1 \in DOMAIN rl'[a] /\ SameEntry(rl[a][m.ret + 1], rl'[a][m.ret + 1])
  BY <1>1, <1>2, RlMoves
<1>4. a = CHOOSE b \in Master : TRUE
  BY <1>1, ProcAssumption
<1>5. Caller(m) = rl[a][m.ret + 1].from /\ Caller(m)' = rl'[a][m.ret + 1].from
  BY <1>4 DEF Caller
<1>6. QED
  BY <1>1, <1>3, <1>5 DEF SameEntry, SameCall, CallerOf

LEMMA OutUnchanged ==
  ASSUME NEW q \in Proc, out'[q] = out[q]
  PROVE  OutStepOf(q)
BY DEF OutStepOf, SameRequest, SameCall

LEMMA OutAppended ==
  ASSUME TypeOK, NEW p \in Proc, NEW calls \in Seq(Call),
         out' = [out EXCEPT ![p] = @ \o calls],
         \A k \in DOMAIN calls : Sent(p, calls[k]) /\ calls[k].outnb = Len(out[p]) + k - 1,
         NEW q \in Proc
  PROVE  OutStepOf(q)
<1>1. CASE q # p
  BY <1>1, OutUnchanged DEF TypeOK
<1>2. CASE q = p
  <2>1. out[p] \in Seq(Call) /\ out'[p] = out[p] \o calls
    BY DEF TypeOK
  <2>2. \A i \in DOMAIN out[p] : i \in DOMAIN out'[p] /\ out'[p][i] = out[p][i]
    BY <2>1
  <2>3. \A i \in DOMAIN out'[p] : i \in DOMAIN out[p] \/
          (i - Len(out[p]) \in DOMAIN calls /\ out'[p][i] = calls[i - Len(out[p])])
    BY <2>1
  <2>4. \A i \in DOMAIN out'[p] : i \in Nat /\ Len(out[p]) \in Nat
    BY <2>1
  <2>5. QED
    BY <1>2, <2>2, <2>3, <2>4 DEF OutStepOf, SameRequest, SameCall
<1>3. QED
  BY <1>1, <1>2

LEMMA OutPushed ==
  ASSUME TypeOK, NEW p \in Proc, NEW to \in Proc \cup {Group}, NEW f \in Func,
         NEW r \in Nat \cup {NoNb}, Push(p, to, f, r),
         Sendable(NewCall(p, Len(out[p]), to, f, r)), NEW q \in Proc
  PROVE  OutStepOf(q)
<1> DEFINE m == NewCall(p, Len(out[p]), to, f, r)
<1>1. Len(out[p]) \in Nat /\ out[p] \in Seq(Call)
  BY DEF TypeOK
<1>2. m \in Call
  BY <1>1, NewCallType
<1>3. Sent(p, m) /\ m.outnb = Len(out[p])
  BY DEF Sent, NewCall
<1>4. out' = [out EXCEPT ![p] = Append(out[p], m)]
  BY DEF Push
<1> HIDE DEF m
<1>5. Append(out[p], m) = out[p] \o <<m>> /\ <<m>> \in Seq(Call)
  BY <1>1, <1>2
<1>6. out' = [out EXCEPT ![p] = @ \o <<m>>]
  BY <1>4, <1>5
<1>7. \A k \in DOMAIN <<m>> : k = 1 /\ <<m>>[k] = m
  OBVIOUS
<1>8. \A k \in DOMAIN <<m>> : Sent(p, <<m>>[k]) /\ <<m>>[k].outnb = Len(out[p]) + k - 1
  BY <1>1, <1>3, <1>7
<1>9. QED
  BY <1>5, <1>6, <1>8, OutAppended

LEMMA OutSynced ==
  ASSUME SafetyInv, NEW p \in Proc, NEW r \in Peer, Sync(p, r), NEW q \in Proc
  PROVE  OutStepOf(q)
<1>1. TypeOK /\ RlNumbered
  BY DEF SafetyInv, QueueInv
<1>2. PICK m \in Master : \E f \in InOrder(Missing(r, m)) :
        Missing(r, m) # {} /\ SyncSend(p, SyncCalls(p, m, f))
  BY DEF Sync
<1>3. PICK f \in InOrder(Missing(r, m)) :
        Missing(r, m) # {} /\ SyncSend(p, SyncCalls(p, m, f))
  BY <1>2
<1> DEFINE calls == SyncCalls(p, m, f)
           sent == IF state[p] = "Waiting" THEN <<calls[1]>> ELSE calls
           good(c, k) == Sent(p, c) /\ c.outnb = Len(out[p]) + k - 1
<1>4. calls \in Seq(Call) /\ calls # <<>>
  BY <1>1, <1>3, SyncCallsType
<1>5. ASSUME NEW k \in DOMAIN calls
      PROVE  good(calls[k], k)
  <2>1. f[k] \in DOMAIN rl[m] /\ m \in Proc
    BY <1>5 DEF SyncCalls, InOrder, Missing, Proc
  <2> DEFINE i == f[k]
  <2> HIDE DEF calls, good, i
  <2>2. rl[m] \in Seq(Call) /\ i \in DOMAIN rl[m]
    BY <1>1, <2>1 DEF TypeOK, i
  <2>3. i \in Nat \ {0} /\ rl[m][i].innb = i - 1
    BY <1>1, <2>1, <2>2 DEF RlNumbered
  <2> USE DEF calls, good
  <2>4. rl[m] \in Seq(Call) /\ rl[m][f[k]].innb = f[k] - 1 /\ f[k] \in Nat \ {0}
    BY <2>2, <2>3 DEF i
  <2>5. calls[k] = NewCall(p, Len(out[p]) + k - 1, Group, rl[m][f[k]].func, f[k] - 1)
    BY <2>4 DEF SyncCalls
  <2>6. /\ calls[k].from = p /\ calls[k].ret = f[k] - 1 /\ calls[k].innb = NoNb
        /\ calls[k].to = Group /\ calls[k].func = rl[m][f[k]].func
        /\ calls[k].outnb = Len(out[p]) + k - 1 /\ calls[k].sign = {}
    BY <2>5 DEF NewCall
  <2>7. IsReturn(calls[k]) /\ calls[k].ret + 1 = f[k]
    BY <2>4, <2>6 DEF IsReturn, NoNb
  <2>8. ReturnOf(calls[k])
    BY <2>1, <2>6, <2>7 DEF ReturnOf
  <2>9. QED
    BY <2>4, <2>6, <2>7, <2>8 DEF Sent, Sendable
<1>6. out' = [out EXCEPT ![p] = @ \o sent]
  BY <1>3 DEF SyncSend
<1> HIDE DEF calls, good
<1>7. calls[1] \in Call /\ 1 \in DOMAIN calls
  BY <1>4
<1>8. sent \in Seq(Call) /\ \A k \in DOMAIN sent : good(sent[k], k)
  BY <1>4, <1>5, <1>7
<1> HIDE DEF sent
<1>9. QED
  BY <1>1, <1>6, <1>8, OutAppended DEF good

LEMMA OutEffect ==
  ASSUME SafetyInv, [Next]_vars, NEW q \in Proc
  PROVE  OutStepOf(q)
<1>1. TypeOK
  BY DEF SafetyInv, QueueInv
<1>2. CASE out' = out
  BY <1>2, OutUnchanged
<1>3. ASSUME NEW p \in Proc, NEW to \in DOMAIN Method, NEW f \in Method[to], Send(p, to, f)
      PROVE  OutStepOf(q)
  <2>1. to \in Proc \cup {Group} /\ f \in Func /\ NoNb \in Nat \cup {NoNb}
    BY <1>3, ProcAssumption DEF Proc
  <2>2. Sendable(NewCall(p, Len(out[p]), to, f, NoNb))
    BY DEF Sendable, IsReturn, NewCall
  <2>3. QED
    BY <1>1, <1>3, <2>1, <2>2, OutPushed DEF Send
<1>4. ASSUME NEW p \in Proc, SendReturn(p)
      PROVE  OutStepOf(q)
  <2>1. PICK m \in Master : \E i \in DOMAIN rl[m] : Push(p, Group, rl[m][i].func, i - 1)
    BY <1>4 DEF SendReturn
  <2>2. PICK i \in DOMAIN rl[m] : Push(p, Group, rl[m][i].func, i - 1)
    BY <2>1
  <2>3. rl[m] \in Seq(Call)
    BY <1>1 DEF TypeOK, Proc
  <2>4. rl[m][i] \in Call /\ i \in Nat \ {0}
    BY <2>3
  <2>5. rl[m][i].func \in Func /\ i - 1 \in Nat
    BY <2>4 DEF Call
  <2> DEFINE c == NewCall(p, Len(out[p]), Group, rl[m][i].func, i - 1)
  <2>6. c.ret = i - 1 /\ c.to = Group /\ c.func = rl[m][i].func
    BY DEF NewCall
  <2>7. IsReturn(c) /\ c.ret + 1 = i
    BY <2>4, <2>6 DEF IsReturn, NoNb
  <2>8. Sendable(c)
    BY <2>6, <2>7 DEF Sendable, ReturnOf
  <2>9. QED
    BY <1>1, <2>2, <2>5, <2>8, OutPushed
<1>5. ASSUME NEW p \in Proc, OutStep(p)
      PROVE  OutStepOf(q)
  <2> DEFINE m == Transmitted(p)
  <2>1. outptr[p] \in DOMAIN out[p] /\ out[p] \in Seq(Call) /\ SameRequest(out[p][outptr[p]], m)
    BY <1>1, <1>5, TransmittedFacts DEF TypeOK
  <2>2. out[p][outptr[p]] \in Call
    BY <2>1
  <2>3. m.innb = out[p][outptr[p]].innb /\ m.result = out[p][outptr[p]].result
    BY <2>2 DEF Transmitted, Call
  <2>4. out' = [out EXCEPT ![p] = [@ EXCEPT ![outptr[p]] = m]]
    BY <1>5 DEF OutStep
  <2> HIDE DEF m
  <2>5. CASE q # p
    BY <1>1, <2>4, <2>5, OutUnchanged DEF TypeOK
  <2>6. CASE q = p
    <3>1. /\ DOMAIN out'[p] = DOMAIN out[p] /\ out'[p][outptr[p]] = m
          /\ \A i \in DOMAIN out[p] : i # outptr[p] => out'[p][i] = out[p][i]
      BY <1>1, <2>1, <2>4 DEF TypeOK
    <3>2. QED
      BY <2>1, <2>3, <2>6, <3>1 DEF OutStepOf, SameRequest, SameCall
  <2>7. QED
    BY <2>5, <2>6
<1>6. ASSUME NEW p \in Proc, ReadAck(p) \/ SkipFailed(p) \/ Execute(p) \/ Resume(p) \/ ResumeError(p)
      PROVE  out' = out
  BY <1>6 DEF ReadAck, SkipFailed, Execute, Resume, ResumeError, Consume
<1>7. UNCHANGED vars => out' = out
  BY DEF vars
<1>8. QED
  BY <1>2, <1>3, <1>4, <1>5, <1>6, <1>7, OutSynced DEF Next, Step, UserCommand

LEMMA OutptrGrows ==
  ASSUME SafetyInv, [Next]_vars, NEW p \in Proc
  PROVE  outptr'[p] \in Nat /\ outptr[p] <= outptr'[p]
<1>1. TypeOK /\ TypeOK'
  BY SafetyInvNext DEF SafetyInv, QueueInv
<1>2. outptr \in [Proc -> Nat \ {0}] /\ outptr' \in [Proc -> Nat \ {0}]
  BY <1>1 DEF TypeOK
<1>3. ASSUME NEW r \in Proc, OutStep(r)
      PROVE  outptr' = [outptr EXCEPT ![r] = @ + 1]
  BY <1>3 DEF OutStep
<1>4. ASSUME NEW r \in Proc, UserCommand(r) \/ ReadAck(r) \/ SkipFailed(r) \/ Execute(r)
                               \/ Resume(r) \/ ResumeError(r)
      PROVE  outptr' = outptr
  BY <1>4 DEF UserCommand, Send, SendReturn, Sync, SyncSend, Push, ReadAck, SkipFailed,
              Execute, Resume, ResumeError, Consume
<1>5. outptr' = outptr \/ \E r \in Proc : outptr' = [outptr EXCEPT ![r] = @ + 1]
  BY <1>3, <1>4 DEF Next, Step, vars
<1>6. QED
  BY <1>2, <1>5

LEMMA NextMoves ==
  ASSUME SafetyInv, [Next]_vars
  PROVE  Moves
<1> SUFFICES ASSUME NEW q \in Proc
             PROVE  OwnStepOf(q) /\ CondStepOf(q) /\ OutStepOf(q) /\ outptr[q] <= outptr'[q]
  BY SafetyInvNext, StepMoves DEF Moves
<1>1. CondStepOf(q)
  BY OwnSteps, ExecutePerforms DEF CondStepOf, SafetyInv, QueueInv
<1>2. QED
  BY <1>1, QueueEffect, OutEffect, OutptrGrows DEF QueueStep

-----------------------------------------------------------------------------
(* The calls on their way stay what they may be. *)

LEMMA SendableKept ==
  ASSUME SafetyInv, Moves, NEW m, NEW n, SameRequest(m, n), Sendable(m)
  PROVE  Sendable(n)'
<1>1. CASE IsReturn(m)
  <2>1. m.to = Group /\ ReturnOf(m)
    BY <1>1 DEF Sendable
  <2>2. \E a \in Master : m.ret + 1 \in DOMAIN rl'[a] /\ rl'[a][m.ret + 1].func = m.func
    BY <2>1, ReturnKept
  <2>3. QED
    BY <1>1, <2>1, <2>2 DEF SameRequest, Sendable, ReturnOf, IsReturn
<1>2. CASE ~IsReturn(m)
  BY <1>2 DEF SameRequest, Sendable, IsReturn
<1>3. QED
  BY <1>1, <1>2

LEMMA OutSendableNext ==
  ASSUME SafetyInv, OutSendable, Moves
  PROVE  OutSendable'
<1> SUFFICES ASSUME NEW p \in Proc, NEW i \in DOMAIN out'[p]
             PROVE  Sendable(out[p][i])'
  BY DEF OutSendable
<1> DEFINE n == out'[p][i]
<1>1. \E m : SameRequest(m, n) /\ Sendable(m)
  <2>1. OutStepOf(p)
    BY MovesOf
  <2>2. CASE i \in DOMAIN out[p]
    BY <2>1, <2>2 DEF OutStepOf, OutSendable
  <2>3. CASE i \notin DOMAIN out[p]
    BY <2>1, <2>3 DEF OutStepOf, Sent, SameRequest, SameCall
  <2>4. QED
    BY <2>2, <2>3
<1>2. \A x : x = n => Sendable(x)'
  BY <1>1, SendableKept
<1>3. QED
  BY <1>2 DEF Sendable, ReturnOf, IsReturn

(* An answer is to the call at INPTR. *)
LEMMA AnsweredFacts ==
  ASSUME SafetyInv, NEW q \in Proc, NEW m, Answered(q, m)
  PROVE  /\ inptr[q] \in DOMAIN in[q] /\ Current(q) \in Call
         /\ ~Current(q).ack /\ ~m.ack /\ SameRequest(Current(q), m)
<1>1. TypeOK /\ ~InIdle(q) /\ ~Current(q).ack
  BY DEF Answered, SafetyInv, QueueInv, Performs, SkipFailed, Ready
<1>2. inptr[q] \in DOMAIN in[q] /\ Current(q) \in Call
  BY <1>1, CurrentType
<1>3. ~m.ack /\ SameRequest(Current(q), m)
  BY <1>1, <1>2 DEF Answered, Done, Ran, Call, SameRequest, SameCall
<1>4. QED
  BY <1>1, <1>2, <1>3

LEMMA EntrySendable ==
  ASSUME SafetyInv, InSendable, EntryRequest, NEW p \in Proc, NEW k \in DOMAIN rl[p]
  PROVE  Sendable(rl[p][k]) /\ Destined(p, rl[p][k])
<1>1. PICK i \in DOMAIN in[p] : Processed(p, k, i)
  BY DEF SafetyInv, LoggedProcessed
<1>2. SameRequest(rl[p][k], in[p][i]) /\ ~in[p][i].ack
  BY <1>1 DEF EntryRequest, Processed
<1>3. Sendable(in[p][i]) /\ Destined(p, in[p][i])
  BY <1>2 DEF InSendable
<1>4. QED
  BY <1>2, <1>3 DEF SameRequest, Sendable, Destined, IsReturn, ReturnOf

LEMMA InSendableNext ==
  ASSUME SafetyInv, OutSendable, InSendable, EntryRequest, AwaitsGroup, [Next]_vars
  PROVE  InSendable'
<1> SUFFICES ASSUME NEW p \in Proc, NEW i \in DOMAIN in'[p], ~in'[p][i].ack
             PROVE  (Sendable(in[p][i]) /\ Destined(p, in[p][i]))'
  BY DEF InSendable
<1> Moves
  BY NextMoves
<1> DEFINE n == in'[p][i]
<1>1. TypeOK /\ QueueState
  BY DEF SafetyInv, QueueInv
<1>2. \E m : SameRequest(m, n) /\ Sendable(m) /\ Destined(p, m)
  <2>1. QueueStep(p)
    BY QueueEffect
  <2>2. CASE i \in DOMAIN in[p] /\ n = in[p][i]
    BY <2>2 DEF InSendable, SameRequest, SameCall
  <2>3. CASE i \in DOMAIN in[p] /\ n # in[p][i]
    <3>1. i = inptr[p] /\ Answered(p, n)
      BY <2>1, <2>3 DEF QueueStep, OwnStepOf
    <3>2. ~in[p][i].ack /\ SameRequest(in[p][i], n)
      BY <3>1, AnsweredFacts DEF Current
    <3>3. QED
      BY <2>3, <3>2 DEF InSendable
  <2>4. CASE i \notin DOMAIN in[p]
    <3>1. Added(p, n)
      BY <2>1, <2>4 DEF QueueStep
    <3>2. ASSUME NEW r \in Proc, OutStep(r), n = Transmitted(r), p \in Dest(n.to)
          PROVE  \E m : SameRequest(m, n) /\ Sendable(m) /\ Destined(p, m)
      <4> DEFINE m == out[r][outptr[r]]
      <4>1. SameRequest(m, n) /\ outptr[r] \in DOMAIN out[r]
        BY <1>1, <3>2, TransmittedFacts
      <4>2. Sendable(m)
        BY <4>1 DEF OutSendable
      <4>3. Destined(p, m)
        BY <3>2, <4>1 DEF Destined, SameRequest
      <4>4. QED
        BY <4>1, <4>2, <4>3
    <3>3. ASSUME NEW r \in Proc, Execute(r), n = Ack(r)
          PROVE  FALSE
      <4>1. TypeOK /\ ~InIdle(r)
        BY <1>1, <3>3 DEF Execute, Ready
      <4>2. Entry(r) \in Call /\ Ran(r) \in Call
        <5>1. Entry(r) \in Call /\ Current(r) \in Call
          BY <4>1, ExecuteCalls, CurrentType
        <5>2. Ran(r) \in Call
          BY <5>1 DEF Ran, Call
        <5>3. QED
          BY <5>1, <5>2
      <4>3. n.ack
        BY <3>3, <4>2 DEF Ack, Call
      <4>4. QED
        BY <4>3
    <3>4. ASSUME NEW r \in Proc, Resume(r), p \in CommitsTo(r), n = Merged(r)
          PROVE  \E m : SameRequest(m, n) /\ Sendable(m) /\ Destined(p, m)
      <4> DEFINE m == rl[r][cond[r]]
      <4>1. cond[r] # 0 /\ AllAcks(r)
        BY <1>1, <3>4, ResumeFacts DEF Resume
      <4>2. cond[r] \in DOMAIN rl[r] /\ SameEntry(m, n)
        BY <3>4, <4>1, MergedFacts
      <4>3. SameRequest(m, n)
        BY <4>2 DEF SameEntry, SameRequest, SameCall
      <4>4. Sendable(m) /\ m.to = Group
        BY <4>1, <4>2, EntrySendable DEF AwaitsGroup
      <4>5. p \in Master /\ ~IsReturn(n) /\ n.func \in Committed
        BY <3>4 DEF CommitsTo, Commits
      <4>6. Destined(p, m)
        BY <4>3, <4>4, <4>5 DEF Destined, SameRequest, IsReturn
      <4>7. QED
        BY <4>3, <4>4, <4>6
    <3>5. QED
      BY <3>1, <3>2, <3>3, <3>4 DEF Added
  <2>5. QED
    BY <2>2, <2>3, <2>4
<1>3. PICK m : SameRequest(m, n) /\ Sendable(m) /\ Destined(p, m)
  BY <1>2
<1>4. \A x : x = n => Sendable(x)'
  BY <1>3, SendableKept
<1>5. Sendable(in[p][i])'
  BY <1>4 DEF Sendable, ReturnOf, IsReturn
<1>6. Destined(p, in[p][i])'
  BY <1>3 DEF Destined, SameRequest, IsReturn
<1>7. QED
  BY <1>5, <1>6

(* Which message an entry was made from does not change, ...               *)
LEMMA ProcessedKept ==
  ASSUME SafetyInv, Moves, NEW p \in Proc, NEW k \in DOMAIN rl[p],
         NEW i \in DOMAIN in[p], Processed(p, k, i)
  PROVE  Processed(p, k, i)' /\ i \in DOMAIN in'[p] /\ in'[p][i] = in[p][i]
<1>1. InStepOf(p)
  BY MovesOf
<1>2. i < inptr[p] /\ inptr[p] \in Nat /\ inptr'[p] \in Nat /\ i \in Nat
  <2>1. TypeOK /\ TypeOK'
    BY MovesSafe DEF SafetyInv, QueueInv
  <2>2. inptr[p] \in Nat /\ inptr'[p] \in Nat /\ in[p] \in Seq(Call)
    BY <2>1 DEF TypeOK
  <2>3. i < inptr[p] /\ i \in Nat
    BY <2>2 DEF Processed
  <2>4. QED
    BY <2>2, <2>3
<1>3. i \in DOMAIN in'[p] /\ in'[p][i] = in[p][i] /\ i < inptr'[p]
  BY <1>1, <1>2 DEF InStepOf, InKept
<1>4. SameEntry(rl[p][k], rl'[p][k])
  BY RlMoves
<1>5. QED
  BY <1>3, <1>4 DEF Processed, SameEntry, SameCall

(* ... and a step may only add one, for the message at INPTR.              *)
NewEntry(p, k, i) ==
  /\ Performs(p) /\ Logs(p)
  /\ k = Len(rl[p]) + 1 /\ i = inptr[p]
  /\ rl'[p][k] = Entry(p) /\ in'[p][i] = Done(p)

LEMMA ProcessedBack ==
  ASSUME SafetyInv, Moves, NEW p \in Proc, NEW k \in DOMAIN rl'[p],
         NEW i \in DOMAIN in'[p], Processed(p, k, i)'
  PROVE  \/ k \in DOMAIN rl[p] /\ i \in DOMAIN in[p] /\ Processed(p, k, i)
         \/ k \notin DOMAIN rl[p] /\ NewEntry(p, k, i)
<1>1. SafetyInv'
  BY MovesSafe
<1>2. ~in'[p][i].ack /\ SameCall(in'[p][i], rl'[p][k])
  BY DEF Processed
<1>3. CASE k \in DOMAIN rl[p]
  <2>1. PICK j \in DOMAIN in[p] : Processed(p, k, j)
    BY <1>3 DEF SafetyInv, LoggedProcessed
  <2>2. Processed(p, k, j)' /\ j \in DOMAIN in'[p]
    BY <1>3, <2>1, ProcessedKept
  <2>3. i = j
    BY <1>1, <1>2, <2>2 DEF SafetyInv, ReceivedOnce, Processed, SameCall
  <2>4. QED
    BY <1>3, <2>1, <2>3
<1>4. CASE k \notin DOMAIN rl[p]
  <2>1. k = Len(rl[p]) + 1 /\ Performs(p) /\ Logs(p) /\ rl'[p][k] = Entry(p)
    BY <1>4, MovesOf DEF RlGrowsOf
  <2>2. /\ inptr[p] \in DOMAIN in[p] /\ in'[p] = [in[p] EXCEPT ![inptr[p]] = Done(p)]
        /\ in[p] \in Seq(Call)
    BY <2>1, PerformFacts
  <2>3. inptr[p] \in DOMAIN in'[p] /\ in'[p][inptr[p]] = Done(p)
    BY <2>2
  <2>4. ~Done(p).ack /\ SameCall(Done(p), Entry(p))
    <3>1. Answered(p, Done(p))
      BY <2>1 DEF Answered
    <3>2. ~Done(p).ack /\ SameRequest(Current(p), Done(p))
      BY <3>1, AnsweredFacts
    <3>3. Entry(p).from = Current(p).from /\ Entry(p).outnb = Current(p).outnb
      BY <2>1, EntryOf
    <3>4. QED
      BY <3>2, <3>3 DEF SameRequest, SameCall
  <2>5. i = inptr[p]
    BY <1>1, <1>2, <2>1, <2>3, <2>4 DEF SafetyInv, ReceivedOnce, SameCall
  <2>6. QED
    BY <1>4, <2>1, <2>3, <2>5 DEF NewEntry
<1>5. QED
  BY <1>3, <1>4

(* The fields of a new entry. *)
LEMMA NewEntryFacts ==
  ASSUME SafetyInv, NEW p \in Proc, ~InIdle(p)
  PROVE  /\ SameRequest(Current(p), Entry(p)) /\ SameRequest(Current(p), Done(p))
         /\ Done(p).result = (IF Succeeds(p) THEN "ok" ELSE "fail")
         /\ Done(p).innb = (IF Logs(p) THEN Len(rl[p]) ELSE Current(p).innb)
         /\ Entry(p).innb = Len(rl[p])
<1>1. Current(p) \in Call
  BY CurrentType DEF SafetyInv, QueueInv
<1>2. QED
  BY <1>1 DEF Entry, Done, Ran, Call, SameRequest, SameCall

LEMMA EntryRequestNext ==
  ASSUME SafetyInv, EntryRequest, Moves
  PROVE  EntryRequest'
<1> SUFFICES ASSUME NEW p \in Proc, NEW k \in DOMAIN rl'[p], NEW i \in DOMAIN in'[p],
                    Processed(p, k, i)'
             PROVE  SameRequest(rl'[p][k], in'[p][i])
  BY DEF EntryRequest
<1>1. CASE k \in DOMAIN rl[p] /\ i \in DOMAIN in[p] /\ Processed(p, k, i)
  <2>1. SameRequest(rl[p][k], in[p][i]) /\ in'[p][i] = in[p][i] /\ SameEntry(rl[p][k], rl'[p][k])
    BY <1>1, ProcessedKept, RlMoves DEF EntryRequest
  <2>2. QED
    BY <2>1 DEF SameEntry, SameRequest, SameCall
<1>2. CASE NewEntry(p, k, i)
  <2>1. Performs(p) /\ rl'[p][k] = Entry(p) /\ in'[p][i] = Done(p)
    BY <1>2 DEF NewEntry
  <2>2. SameRequest(Current(p), Entry(p)) /\ SameRequest(Current(p), Done(p))
    BY <2>1, NewEntryFacts, PerformFacts
  <2>3. QED
    BY <2>1, <2>2 DEF SameRequest, SameCall
<1>3. QED
  BY <1>1, <1>2, ProcessedBack

LEMMA AwaitsGroupNext ==
  ASSUME SafetyInv, AwaitsGroup, Moves
  PROVE  AwaitsGroup'
<1> SUFFICES ASSUME NEW p \in Proc, cond'[p] # 0
             PROVE  rl'[p][cond'[p]].to = Group
  BY DEF AwaitsGroup
<1>1. TypeOK /\ QueueState
  BY DEF SafetyInv, QueueInv
<1>2. CASE rl'[p] = rl[p] /\ cond'[p] = cond[p]
  BY <1>2 DEF AwaitsGroup
<1>3. CASE Performs(p)
  <2>1. cond[p] = 0
    BY <1>3, PerformFacts
  <2>2. Awaits(p) /\ cond'[p] = Len(rl[p]) + 1 /\ Logs(p)
    BY <1>3, <2>1, PerformFacts DEF Performs
  <2>3. rl'[p] = Append(rl[p], Entry(p)) /\ rl[p] \in Seq(Call) /\ ~InIdle(p)
    BY <1>1, <1>3, <2>2, PerformFacts DEF TypeOK
  <2>4. Entry(p).to = Group
    BY <2>2, <2>3, NewEntryFacts DEF Awaits, Acks, SameRequest
  <2>5. QED
    BY <2>2, <2>3, <2>4
<1>4. CASE Resume(p)
  BY <1>1, <1>4 DEF Resume, TypeOK
<1>5. CASE ResumeError(p)
  <2>1. cond'[p] = cond[p] /\ cond[p] # 0 /\ AllAcks(p)
    BY <1>5 DEF ResumeError
  <2>2. cond[p] \in DOMAIN rl[p]
    BY <2>1, MergedFacts
  <2>3. SameEntry(rl[p][cond[p]], rl'[p][cond[p]])
    BY <2>2, RlMoves
  <2>4. QED
    BY <2>1, <2>3 DEF AwaitsGroup, SameEntry
<1>6. QED
  BY <1>2, <1>3, <1>4, <1>5, MovesOf DEF CondStepOf

-----------------------------------------------------------------------------
(* SELF after each entry. *)

LEMMA AfterFacts ==
  ASSUME TypeOK, NEW p \in Proc
  PROVE  /\ After(p)[0] = Self0[p]
         /\ \A n \in DOMAIN rl[p] :
              After(p)[n] = Applied(After(p)[n - 1], rl[p][n], CallerOf(rl[p][n]))
<1> DEFINE cs == [n \in DOMAIN rl[p] |-> CallerOf(rl[p][n])]
<1>1. rl[p] \in Seq(Call)
  BY DEF TypeOK
<1>2. Len(rl[p]) \in Nat /\ DOMAIN rl[p] = 1 .. Len(rl[p])
  BY <1>1
<1>3. After(p) = ReplayOf(Self0[p], rl[p], cs)
  BY DEF After
<1>4. \A n \in DOMAIN rl[p] : cs[n] = CallerOf(rl[p][n])
  OBVIOUS
<1> DEFINE after == ReplayOf(Self0[p], rl[p], cs)
<1> HIDE DEF cs
<1>5. /\ after[0] = Self0[p]
      /\ \A n \in DOMAIN rl[p] : after[n] = Applied(after[n - 1], rl[p][n], cs[n])
  BY <1>2, ReplayOfFacts
<1> HIDE DEF after
<1>6. After(p) = after
  BY <1>3 DEF after
<1>7. QED
  BY <1>4, <1>5, <1>6

LEMMA AfterFactsNext ==
  ASSUME TypeOK', NEW p \in Proc
  PROVE  /\ After(p)'[0] = Self0[p]
         /\ \A n \in DOMAIN rl'[p] :
              After(p)'[n] = Applied(After(p)'[n - 1], rl'[p][n], CallerOf(rl[p][n])')
<1> DEFINE cs == [n \in DOMAIN rl'[p] |-> CallerOf(rl[p][n])']
<1>1. rl'[p] \in Seq(Call)
  BY DEF TypeOK
<1>2. Len(rl'[p]) \in Nat /\ DOMAIN rl'[p] = 1 .. Len(rl'[p])
  BY <1>1
<1>3. After(p)' = ReplayOf(Self0[p], rl'[p], cs)
  BY DEF After
<1>4. \A n \in DOMAIN rl'[p] : cs[n] = CallerOf(rl[p][n])'
  OBVIOUS
<1> HIDE DEF cs
<1> DEFINE g == After(p)'
<1>5. g = ReplayOf(Self0[p], rl'[p], cs)
  BY <1>3
<1> HIDE DEF g
<1>6. /\ g[0] = Self0[p]
      /\ \A n \in 1 .. Len(rl'[p]) : g[n] = Applied(g[n - 1], rl'[p][n], cs[n])
  BY <1>2, <1>5, ReplayOfFacts
<1>7. \A n \in DOMAIN rl'[p] : g[n] = Applied(g[n - 1], rl'[p][n], CallerOf(rl[p][n])')
  BY <1>2, <1>4, <1>6
<1>8. QED
  BY <1>6, <1>7 DEF g

(* The caller of a return is known, and does not change.                   *)
LEMMA CallerKept ==
  ASSUME SafetyInv, Moves, NEW m, NEW n, SameRequest(m, n), Sendable(m)
  PROVE  CallerOf(n)' = CallerOf(m)
<1>1. CASE IsReturn(m)
  <2>1. ReturnOf(m)
    BY <1>1 DEF Sendable
  <2>2. CallerOf(m)' = CallerOf(m)
    BY <2>1, ReturnKept
  <2>3. QED
    BY <2>2 DEF SameRequest, SameCall, CallerOf, IsReturn, Caller
<1>2. CASE ~IsReturn(m)
  BY <1>2 DEF SameRequest, SameCall, CallerOf, IsReturn
<1>3. QED
  BY <1>1, <1>2

LEMMA AfterKept ==
  ASSUME SafetyInv, InSendable, EntryRequest, Moves, NEW p \in Proc
  PROVE  \A n \in 0 .. Len(rl[p]) : After(p)'[n] = After(p)[n]
<1>1. TypeOK /\ TypeOK' /\ rl[p] \in Seq(Call)
  BY MovesSafe DEF SafetyInv, QueueInv, TypeOK
<1>2. Len(rl[p]) \in Nat /\ DOMAIN rl[p] = 1 .. Len(rl[p])
  BY <1>1
<1> DEFINE f == After(p)'
           g == After(p)
<1>3. f[0] = g[0]
  BY <1>1, AfterFacts, AfterFactsNext
<1>4. ASSUME NEW n \in 1 .. Len(rl[p]), f[n - 1] = g[n - 1]
      PROVE  f[n] = g[n]
  <2>1. n \in DOMAIN rl[p] /\ n \in DOMAIN rl'[p] /\ SameEntry(rl[p][n], rl'[p][n])
    BY <1>2, RlMoves
  <2>2. SameRequest(rl[p][n], rl'[p][n]) /\ Sendable(rl[p][n])
    BY <2>1, EntrySendable DEF SameEntry, SameRequest, SameCall
  <2>3. \A x : x = rl'[p][n] => CallerOf(x)' = CallerOf(rl[p][n])
    BY <2>2, CallerKept
  <2>4. CallerOf(rl[p][n])' = CallerOf(rl[p][n])
    BY <2>3 DEF CallerOf, Caller, IsReturn
  <2>5. /\ f[n] = Applied(f[n - 1], rl'[p][n], CallerOf(rl[p][n])')
        /\ g[n] = Applied(g[n - 1], rl[p][n], CallerOf(rl[p][n]))
    BY <1>1, <2>1, AfterFacts, AfterFactsNext
  <2>6. QED
    BY <1>4, <2>2, <2>4, <2>5 DEF Applied, SameRequest, SameCall, IsReturn
<1> HIDE DEF f, g
<1>5. \A n \in 0 .. Len(rl[p]) : f[n] = g[n]
  BY <1>2, <1>3, <1>4, ChainUnique
<1>6. QED
  BY <1>5 DEF f, g

(* The run of the current call. *)
LEMMA RunFacts ==
  ASSUME NEW p \in Proc
  PROVE  Run(p, Current(p)) = Applied(self[p], Current(p), CallerOf(Current(p)))
BY DEF Run, Applied, CallerOf

LEMMA Handling ==
  ASSUME NEW p \in Proc, NEW m, Sendable(m), Destined(p, m)
  PROVE  /\ IsReturn(m) => p \in Peer /\ \E a \in Master : m.ret + 1 \in DOMAIN rl[a] /\ rl[a][m.ret + 1].func = m.func
         /\ ~IsReturn(m) => m.func \in Handles(p)
<1>1. CASE IsReturn(m)
  BY <1>1, ProcAssumption DEF Destined, Sendable, ReturnOf, Dest
<1>2. CASE ~IsReturn(m)
  BY <1>2, ProcAssumption DEF Destined, Sendable, Handles, Dest, Proc
<1>3. QED
  BY <1>1, <1>2

(* Running a call leaves SELF among the servlet's values, and alone when   *)
(* the call is not logged.                                                 *)
LEMMA RunKeeps ==
  ASSUME NEW S, Servlets(S), SafetyInv, InSendable, EntryRequest,
         NEW p \in Proc, self[p] \in S[p], ~InIdle(p), ~Current(p).ack
  PROVE  /\ Run(p, Current(p)) \in S[p]
         /\ ~Logs(p) => Run(p, Current(p)) = self[p]
<1> DEFINE m == Current(p)
<1>1. m \in Call /\ ~m.ack /\ inptr[p] \in DOMAIN in[p]
  BY EntryOfCurrent
<1>2. Sendable(m) /\ Destined(p, m) /\ m.from \in Proc
  BY <1>1 DEF InSendable, Current, Call
<1>3. CASE IsReturn(m)
  <2>1. PICK a \in Master : m.ret + 1 \in DOMAIN rl[a] /\ rl[a][m.ret + 1].func = m.func
    BY <1>2, <1>3, Handling
  <2> DEFINE e == rl[a][m.ret + 1]
  <2>2. a \in Proc /\ a \notin Peer
    BY ProcAssumption DEF Proc
  <2>3. rl[a] \in Seq(Call) /\ m.ret + 1 \in DOMAIN rl[a]
    BY <2>1, <2>2 DEF SafetyInv, QueueInv, TypeOK
  <2>4. e \in Call /\ Sendable(e) /\ Destined(a, e)
    BY <2>2, <2>3, EntrySendable
  <2>5. m.func \in Handles(a) /\ e.from \in Proc
    BY <2>1, <2>2, <2>4, Handling DEF Call
  <2>6. Caller(m) = e.from
    BY <2>1, ProcAssumption DEF Caller
  <2>7. p \in Peer
    BY <1>2, <1>3, Handling
  <2>8. Return(self[p], m.from, e.from, m.func) \in S[p]
    BY <1>2, <2>5, <2>7 DEF Servlets
  <2>9. Logs(p)
    BY <1>3 DEF Logs, Succeeds, Durable
  <2>10. QED
    BY <1>3, <2>6, <2>8, <2>9 DEF Run
<1>4. CASE ~IsReturn(m)
  <2>1. m.func \in Handles(p)
    BY <1>2, <1>4, Handling
  <2>2. /\ Exec(self[p], m.from, m.func) \in S[p]
        /\ m.func \in Volatile \/ ~Accepts(self[p], m.from, m.func)
             => Exec(self[p], m.from, m.func) = self[p]
    BY <1>2, <2>1 DEF Servlets
  <2>3. QED
    BY <1>4, <2>2 DEF Run, Logs, Succeeds, Durable
<1>5. QED
  BY <1>3, <1>4

LEMMA SelfNext ==
  ASSUME NEW S, Servlets(S), ReplayInv(S), Moves, NEW p \in Proc
  PROVE  self'[p] \in S[p] /\ self'[p] = Replay(p)'
<1>1. /\ SafetyInv /\ InSendable /\ EntryRequest
      /\ self[p] \in S[p] /\ self[p] = After(p)[Len(rl[p])]
  BY DEF ReplayInv, SelfIsReplay, Replay
<1>2. TypeOK /\ TypeOK'
  BY <1>1, MovesSafe DEF SafetyInv, QueueInv
<1>3. rl[p] \in Seq(Call) /\ rl'[p] \in Seq(Call) /\ Len(rl[p]) \in Nat
  BY <1>2 DEF TypeOK
<1>4. After(p)'[Len(rl[p])] = self[p]
  BY <1>1, <1>3, AfterKept
<1>5. Replay(p)' = After(p)'[Len(rl'[p])]
  BY DEF Replay
<1>6. CASE Performs(p)
  <2>1. self'[p] = Run(p, Current(p))
    BY <1>6 DEF Performs
  <2>2. self'[p] \in S[p] /\ (~Logs(p) => self'[p] = self[p])
    BY <1>1, <1>6, <2>1, RunKeeps DEF Performs, Ready
  <2>3. rl'[p] = IF Logs(p) THEN Append(rl[p], Entry(p)) ELSE rl[p]
    BY <1>6 DEF Performs
  <2>4. CASE ~Logs(p)
    BY <1>4, <1>5, <2>2, <2>3, <2>4
  <2>5. CASE Logs(p)
    <3>1. PICK n \in Nat : n = Len(rl[p]) + 1
      BY <1>3
    <3>2. /\ Len(rl'[p]) = n /\ n \in DOMAIN rl'[p] /\ rl'[p][n] = Entry(p)
          /\ n - 1 = Len(rl[p])
      BY <1>1, <1>3, <1>6, <2>3, <2>5, <3>1, PerformFacts
    <3>3. After(p)'[n] = Applied(After(p)'[n - 1], rl'[p][n], CallerOf(rl[p][n])')
      BY <1>2, <3>2, AfterFactsNext
    <3>4. SameRequest(Current(p), Entry(p)) /\ Sendable(Current(p))
      BY <1>1, <1>6, NewEntryFacts, EntryOf, PerformFacts DEF InSendable, Current
    <3>5. \A x : x = rl'[p][n] => CallerOf(x)' = CallerOf(Current(p))
      BY <1>1, <3>2, <3>4, CallerKept
    <3>6. CallerOf(rl[p][n])' = CallerOf(Current(p))
      BY <3>5 DEF CallerOf, Caller, IsReturn
    <3>7. Applied(self[p], Entry(p), CallerOf(Current(p))) = Run(p, Current(p))
      BY <3>4, RunFacts DEF Applied, SameRequest, SameCall, IsReturn
    <3>8. QED
      BY <1>4, <1>5, <2>1, <2>2, <3>2, <3>3, <3>6, <3>7
  <2>6. QED
    BY <2>4, <2>5
<1>7. CASE self'[p] = self[p] /\ ~Performs(p)
  <2>1. Len(rl'[p]) = Len(rl[p])
    <3>1. DOMAIN rl'[p] = DOMAIN rl[p]
      BY <1>1, <1>7, MovesOf DEF RlGrowsOf
    <3>2. QED
      BY <1>3, <3>1
  <2>2. QED
    BY <1>1, <1>4, <1>5, <1>7, <2>1
<1>8. QED
  BY <1>6, <1>7, MovesOf DEF OwnStepOf

LEMMA ReplayInvInit ==
  ASSUME NEW S, Servlets(S), Init
  PROVE  ReplayInv(S)
<1>1. SafetyInv
  BY SafetyInvInit
<1>2. /\ OutSendable /\ InSendable /\ EntryRequest /\ AwaitsGroup
  BY DEF Init, OutSendable, InSendable, EntryRequest, AwaitsGroup
<1>3. ASSUME NEW p \in Proc
      PROVE  self[p] \in S[p] /\ self[p] = Replay(p)
  <2>1. self[p] = Self0[p] /\ Len(rl[p]) = 0
    BY DEF Init
  <2>2. After(p)[0] = Self0[p]
    BY <1>1, AfterFacts DEF SafetyInv, QueueInv
  <2>3. QED
    BY <2>1, <2>2 DEF Replay, Servlets
<1>4. QED
  BY <1>1, <1>2, <1>3 DEF ReplayInv, SelfIsReplay

LEMMA ReplayInvNext ==
  ASSUME NEW S, Servlets(S), ReplayInv(S), Moves, InSendable'
  PROVE  ReplayInv(S)'
<1>1. SafetyInv'
  BY MovesSafe
<1>2. OutSendable' /\ EntryRequest' /\ AwaitsGroup'
  BY OutSendableNext, EntryRequestNext, AwaitsGroupNext DEF ReplayInv
<1>3. \A p \in Proc : self'[p] \in S[p] /\ self'[p] = Replay(p)'
  BY SelfNext
<1>4. QED
  BY <1>1, <1>2, <1>3 DEF ReplayInv, SelfIsReplay

LEMMA ReplayInvStep ==
  ASSUME NEW S, Servlets(S), ReplayInv(S), [Next]_vars
  PROVE  ReplayInv(S)'
<1>1. Moves
  BY NextMoves DEF ReplayInv
<1>2. InSendable'
  BY InSendableNext DEF ReplayInv
<1>3. QED
  BY <1>1, <1>2, ReplayInvNext

(***************************************************************************)
(* SELF never holds more, or less, than what executing IN! from the start  *)
(* gives (MANUAL: the replay list recreates the state), for every servlet  *)
(* whose failed and volatile calls leave it alone.                         *)
(***************************************************************************)
THEOREM SelfReplays ==
  ASSUME NEW S, Servlets(S)
  PROVE  Spec => []SelfIsReplay
<1>1. Init => ReplayInv(S)
  BY ReplayInvInit
<1>2. ReplayInv(S) /\ [Next]_vars => ReplayInv(S)'
  BY ReplayInvStep
<1>3. ReplayInv(S) => SelfIsReplay
  BY DEF ReplayInv
<1>4. QED
  BY <1>1, <1>2, <1>3, PTL DEF Spec

-----------------------------------------------------------------------------
(* Calls are numbered by their sender; all the peers receive those of the  *)
(* group at the same time.                                                 *)

LEMMA IndexFacts ==
  ASSUME SafetyInv, NEW p \in Proc
  PROVE  /\ in[p] \in Seq(Call) /\ Len(in[p]) \in Nat /\ DOMAIN in[p] = 1 .. Len(in[p])
         /\ rl[p] \in Seq(Call) /\ Len(rl[p]) \in Nat /\ DOMAIN rl[p] = 1 .. Len(rl[p])
         /\ inptr[p] \in Nat \ {0} /\ inptr[p] <= Len(in[p]) + 1
         /\ outptr[p] \in Nat \ {0}
BY DEF SafetyInv, QueueInv, TypeOK

LEMMA OutNumberedNext ==
  ASSUME SafetyInv, OutNumbered, Moves
  PROVE  OutNumbered'
<1> SUFFICES ASSUME NEW p \in Proc, NEW i \in DOMAIN out'[p]
             PROVE  out'[p][i].outnb = i - 1
  BY DEF OutNumbered
<1>1. OutStepOf(p)
  BY MovesOf
<1>2. QED
  BY <1>1 DEF OutStepOf, OutNumbered, SameRequest, SameCall

(* What is transmitted has not been received by anyone.                    *)
LEMMA TransmittedNew ==
  ASSUME SafetyInv, OutNumbered, InTransmitted, NEW r \in Proc, OutStep(r)
  PROVE  /\ Transmitted(r).from = r /\ Transmitted(r).outnb = outptr[r] - 1
         /\ ~Transmitted(r).ack /\ outptr'[r] = outptr[r] + 1
         /\ \A p \in Proc : ~Known(in[p], Transmitted(r))
<1>1. TypeOK
  BY DEF SafetyInv, QueueInv
<1> DEFINE m == Transmitted(r)
<1>2. /\ outptr[r] \in DOMAIN out[r] /\ SameRequest(out[r][outptr[r]], m)
      /\ m.ack = out[r][outptr[r]].ack
  BY <1>1, TransmittedFacts
<1>3. m.from = r /\ m.outnb = outptr[r] - 1 /\ ~m.ack
  BY <1>2 DEF SafetyInv, OutFresh, OutNumbered, SameRequest, SameCall
<1>4. outptr'[r] = outptr[r] + 1
  BY <1>1 DEF OutStep, TypeOK
<1> HIDE DEF m
<1>5. ASSUME NEW p \in Proc, NEW i \in DOMAIN in[p], SameCall(in[p][i], m)
      PROVE  FALSE
  BY <1>3, <1>5, IndexFacts DEF InTransmitted, SameCall
<1>6. QED
  BY <1>3, <1>4, <1>5 DEF Known, m

LEMMA InTransmittedNext ==
  ASSUME SafetyInv, OutNumbered, InTransmitted, [Next]_vars
  PROVE  InTransmitted'
<1> SUFFICES ASSUME NEW p \in Proc, NEW i \in DOMAIN in'[p]
             PROVE  in'[p][i].outnb + 1 < outptr'[in'[p][i].from]
  BY DEF InTransmitted
<1>1. TypeOK /\ QueueState /\ TypeOK'
  BY SafetyInvNext DEF SafetyInv, QueueInv
<1> Moves
  BY NextMoves
<1> DEFINE m == in'[p][i]
<1>2. in'[p] \in Seq(Call)
  BY <1>1 DEF TypeOK
<1>3. m \in Call
  BY <1>2
<1>4. m.from \in Proc /\ m.outnb \in Nat
  BY <1>3 DEF Call
<1>5. ASSUME NEW r \in Proc, NEW j \in DOMAIN in[r], SameCall(in[r][j], m)
      PROVE  m.outnb + 1 < outptr'[m.from]
  <2>1. m.outnb + 1 < outptr[m.from]
    BY <1>5 DEF InTransmitted, SameCall
  <2> HIDE DEF m
  <2>2. outptr[m.from] \in Nat /\ outptr'[m.from] \in Nat /\ outptr[m.from] <= outptr'[m.from]
    BY <1>4, IndexFacts, OutptrGrows
  <2>3. QED
    BY <1>4, <2>1, <2>2
<1>6. QueueStep(p)
  BY QueueEffect
<1>7. CASE i \in DOMAIN in[p]
  <2>1. CASE m = in[p][i]
    BY <1>5, <1>7, <2>1 DEF SameCall
  <2>2. CASE m # in[p][i]
    <3>1. i = inptr[p] /\ Answered(p, m)
      BY <1>7, <2>2, MovesOf DEF OwnStepOf
    <3>2. SameCall(in[p][i], m)
      BY <3>1, AnsweredFacts DEF SameRequest, Current
    <3>3. QED
      BY <1>5, <1>7, <3>2
  <2>3. QED
    BY <2>1, <2>2
<1>8. CASE i \notin DOMAIN in[p]
  <2>1. Added(p, m)
    BY <1>6, <1>8 DEF QueueStep
  <2>2. ASSUME NEW r \in Proc, OutStep(r), m = Transmitted(r)
        PROVE  m.outnb + 1 < outptr'[m.from]
    <3>1. m.from = r /\ m.outnb = outptr[r] - 1 /\ outptr'[r] = outptr[r] + 1
      BY <2>2, TransmittedNew
    <3> HIDE DEF m
    <3>2. QED
      BY <3>1, IndexFacts
  <2>3. ASSUME NEW r \in Proc, Execute(r), m = Ack(r)
        PROVE  \E j \in DOMAIN in[r] : SameCall(in[r][j], m)
    <3>1. Current(r) \in Call /\ inptr[r] \in DOMAIN in[r]
      BY <2>3, ExecutePerforms, EntryFacts
    <3>2. SameCall(Current(r), Ack(r))
      BY <3>1 DEF Ack, Entry, Ran, Call, SameCall
    <3>3. QED
      BY <2>3, <3>1, <3>2 DEF Current
  <2>4. ASSUME NEW r \in Proc, Resume(r), m = Merged(r)
        PROVE  \E j \in DOMAIN in[r] : SameCall(in[r][j], m)
    <3>1. cond[r] \in DOMAIN rl[r] /\ SameEntry(rl[r][cond[r]], m)
      BY <1>1, <2>4, ResumeFacts, MergedFacts DEF Resume
    <3>2. PICK j \in DOMAIN in[r] : Processed(r, cond[r], j)
      BY <3>1 DEF SafetyInv, LoggedProcessed
    <3>3. QED
      BY <3>1, <3>2 DEF Processed, SameEntry, SameCall
  <2>5. QED
    BY <1>5, <2>1, <2>2, <2>3, <2>4 DEF Added
<1>9. QED
  BY <1>7, <1>8

(* A group's call reaches all the peers at once. *)
LEMMA GroupTransmitted ==
  ASSUME SafetyInv, OutNumbered, InTransmitted, NEW r \in Proc, OutStep(r),
         Transmitted(r).to = Group, NEW p \in Peer
  PROVE  in'[p] = Append(in[p], Transmitted(r))
<1>1. p \in Proc /\ p \in Dest(Group)
  BY DEF Proc, Dest
<1>2. in'[p] = Posted(in[p], Transmitted(r))
  BY <1>1 DEF OutStep
<1>3. ~Known(in[p], Transmitted(r))
  BY <1>1, TransmittedNew
<1>4. QED
  BY <1>2, <1>3 DEF Posted

NewCallOf(p, i) ==
  /\ i = Len(in[p]) + 1
  /\ \E r \in Proc : OutStep(r) /\ Transmitted(r).to = Group /\ in'[p][i] = Transmitted(r)

LEMMA ReceivedWas ==
  ASSUME SafetyInv, Moves, NEW p \in Proc, NEW i \in DOMAIN in[p], Received(p, i)'
  PROVE  Received(p, i) /\ SameRequest(in[p][i], in'[p][i])
<1>1. i \in DOMAIN in'[p] /\ ~in'[p][i].ack /\ in'[p][i].to = Group
  BY DEF Received
<1>2. CASE in'[p][i] = in[p][i]
  BY <1>1, <1>2 DEF Received, SameRequest, SameCall
<1>3. CASE in'[p][i] # in[p][i]
  <2>1. i = inptr[p] /\ Answered(p, in'[p][i])
    BY <1>3, MovesOf DEF OwnStepOf
  <2>2. ~in[p][i].ack /\ SameRequest(in[p][i], in'[p][i])
    BY <2>1, AnsweredFacts DEF Current
  <2>3. QED
    BY <1>1, <2>2 DEF Received, SameRequest
<1>4. QED
  BY <1>2, <1>3

LEMMA ReceivedBack ==
  ASSUME SafetyInv, [Next]_vars, NEW p \in Peer, NEW i, Received(p, i)'
  PROVE  \/ Received(p, i) /\ SameRequest(in[p][i], in'[p][i])
         \/ i \notin DOMAIN in[p] /\ NewCallOf(p, i)
<1> DEFINE m == in'[p][i]
<1>1. p \in Proc /\ p \notin Master /\ i \in DOMAIN in'[p] /\ ~m.ack /\ m.to = Group
  BY ProcAssumption DEF Proc, Received
<1>2. QueueStep(p)
  BY <1>1, QueueEffect
<1>3. CASE i \in DOMAIN in[p]
  BY <1>1, <1>3, NextMoves, ReceivedWas
<1>4. CASE i \notin DOMAIN in[p]
  <2>1. i = Len(in[p]) + 1 /\ Added(p, m)
    BY <1>1, <1>2, <1>4 DEF QueueStep
  <2>2. ASSUME NEW r \in Proc, Execute(r), m = Ack(r)
        PROVE  FALSE
    <3>1. Entry(r) \in Call /\ Current(r) \in Call
      BY <2>2, EntryFacts, ExecuteCalls DEF SafetyInv, QueueInv, Execute, Ready
    <3>2. Ran(r) \in Call
      BY <3>1 DEF Ran, Call
    <3>3. Ack(r).ack
      BY <3>1, <3>2 DEF Ack, Call
    <3>4. QED
      BY <1>1, <2>2, <3>3
  <2>3. ASSUME NEW r \in Proc, p \in CommitsTo(r)
        PROVE  FALSE
    BY <1>1, <2>3 DEF CommitsTo
  <2>4. \E r \in Proc : OutStep(r) /\ m = Transmitted(r)
    BY <2>1, <2>2, <2>3 DEF Added
  <2>5. QED
    BY <1>1, <1>4, <2>1, <2>4 DEF NewCallOf
<1>5. QED
  BY <1>3, <1>4

LEMMA ReceivedKept ==
  ASSUME SafetyInv, Moves, NEW p \in Proc, NEW i, Received(p, i)
  PROVE  /\ Received(p, i)' /\ SameRequest(in[p][i], in'[p][i])
         /\ i < inptr[p] => in'[p][i] = in[p][i]
<1>1. i \in DOMAIN in[p] /\ ~in[p][i].ack /\ in[p][i].to = Group
  BY DEF Received
<1>2. InStepOf(p)
  BY MovesOf
<1>3. i \in DOMAIN in'[p] /\ InKept(p, i)
  BY <1>1, <1>2 DEF InStepOf
<1>4. ~in'[p][i].ack /\ SameRequest(in[p][i], in'[p][i])
  BY <1>1, <1>3 DEF InKept, SameMessage, SameRequest, SameCall
<1>5. i < inptr[p] => in'[p][i] = in[p][i]
  BY <1>1, <1>3, IndexFacts DEF InKept
<1>6. QED
  BY <1>1, <1>3, <1>4, <1>5 DEF Received, SameRequest

LEMMA MatchSymmetric ==
  ASSUME NEW p, NEW q, NEW i, NEW j, Match(p, i, q, j)
  PROVE  Match(q, j, p, i)
BY DEF Match, SameCall

LEMMA MatchJoins ==
  ASSUME NEW p, NEW q, NEW r, NEW i, NEW j, NEW k, Match(p, i, q, j), Match(q, j, r, k)
  PROVE  Match(p, i, r, k)
BY DEF Match, SameCall

LEMMA MatchUnique ==
  ASSUME SafetyInv, NEW p \in Proc, NEW i, NEW j, Match(p, i, p, j)
  PROVE  i = j
BY DEF Match, SafetyInv, ReceivedOnce, Received

LEMMA MatchExists ==
  ASSUME SameOrder, NEW p \in Peer, NEW q \in Peer, NEW i, Received(p, i)
  PROVE  \E j : Match(p, i, q, j)
BY DEF SameOrder, Match, Received, SameRequest

(* What one has received before a call of both, the other has too.         *)
LEMMA MatchBefore ==
  ASSUME SafetyInv, OneOrder, NEW p \in Peer, NEW q \in Peer,
         NEW i, NEW j, Match(p, i, q, j), NEW n, Received(p, n), n < i
  PROVE  \E k : Match(p, n, q, k) /\ k < j
BY DEF OneOrder, Match, Received

LEMMA MatchFacts ==
  ASSUME SafetyInv, OneOrder, NEW p \in Peer, NEW q \in Peer,
         NEW i, NEW j, Match(p, i, q, j)
  PROVE  /\ SameRequest(in[p][i], in[q][j])
         /\ \A n, k : Match(p, n, q, k) => (n < i <=> k < j)
<1>1. SameRequest(in[p][i], in[q][j])
  BY DEF OneOrder, Match, Received
<1>2. ASSUME NEW r \in Peer, NEW s \in Peer, NEW x, NEW y, Match(r, x, s, y),
             NEW n, NEW k, Match(r, n, s, k), n < x
      PROVE  k < y
  <2>1. PICK l : Match(r, n, s, l) /\ l < y
    BY <1>2, MatchBefore DEF Match
  <2>2. Match(s, k, s, l)
    BY <1>2, <2>1, MatchSymmetric, MatchJoins
  <2>3. QED
    BY <2>1, <2>2, MatchUnique DEF Proc
<1>3. ASSUME NEW n, NEW k, Match(p, n, q, k)
      PROVE  n < i <=> k < j
  <2>1. n < i => k < j
    BY <1>2, <1>3
  <2>2. k < j => n < i
    BY <1>2, <1>3, MatchSymmetric
  <2>3. QED
    BY <2>1, <2>2
<1>4. QED
  BY <1>1, <1>3

LEMMA SameIsOneOrder ==
  ASSUME SafetyInv, SameOrder
  PROVE  OneOrder
<1> SUFFICES ASSUME NEW p \in Peer, NEW q \in Peer, NEW i \in DOMAIN in[p], NEW j \in DOMAIN in[q]
             PROVE  /\ Match(p, i, q, j) =>
                         /\ SameRequest(in[p][i], in[q][j])
                         /\ \A n \in DOMAIN in[p] : Received(p, n) /\ n < i =>
                              \E k \in DOMAIN in[q] : Match(p, n, q, k) /\ k < j
                    /\ Received(p, i) => \E k : Match(p, i, q, k)
  BY DEF OneOrder
<1>1. ASSUME Match(p, i, q, j)
      PROVE  /\ SameRequest(in[p][i], in[q][j])
             /\ \A n \in DOMAIN in[p] : Received(p, n) /\ n < i =>
                  \E k \in DOMAIN in[q] : Match(p, n, q, k) /\ k < j
  <2>1. PICK l \in DOMAIN in[q] :
          /\ Received(q, l) /\ SameRequest(in[p][i], in[q][l])
          /\ \A n \in DOMAIN in[p], k \in DOMAIN in[q] :
               Received(p, n) /\ Received(q, k) /\ SameCall(in[p][n], in[q][k])
                 => (n < i <=> k < l)
    BY <1>1 DEF SameOrder, Match, Received
  <2>2. l = j
    BY <1>1, <2>1 DEF SafetyInv, ReceivedOnce, Match, Received, SameRequest, SameCall, Proc
  <2>3. ASSUME NEW n \in DOMAIN in[p], Received(p, n), n < i
        PROVE  \E k \in DOMAIN in[q] : Match(p, n, q, k) /\ k < j
    <3>1. PICK k : Match(p, n, q, k)
      BY <2>3, MatchExists
    <3>2. QED
      BY <2>1, <2>2, <2>3, <3>1 DEF Match, Received
  <2>4. QED
    BY <2>1, <2>2, <2>3
<1>2. QED
  BY <1>1, MatchExists

LEMMA SameIsOneOrderNext ==
  (SafetyInv /\ SameOrder => OneOrder)'
<1>1. SafetyInv /\ SameOrder => OneOrder
  BY SameIsOneOrder
<1>2. QED
  BY <1>1, PTL

LEMMA MatchBack ==
  ASSUME SafetyInv, OutNumbered, InTransmitted, [Next]_vars,
         NEW p \in Peer, NEW q \in Peer, NEW i, NEW j, Match(p, i, q, j)'
  PROVE  \/ Match(p, i, q, j)
         \/ i = Len(in[p]) + 1 /\ j = Len(in[q]) + 1 /\ in'[p][i] = in'[q][j]
<1>1. Received(p, i)' /\ Received(q, j)' /\ SameCall(in'[p][i], in'[q][j])
  BY DEF Match
<1>2. p \in Proc /\ q \in Proc
  BY DEF Proc
<1>3. ASSUME NEW r \in Proc, OutStep(r), NEW m, Transmitted(r) = m, NEW s \in Peer,
             NEW k, Received(s, k), SameRequest(in[s][k], in'[s][k]), SameCall(in'[s][k], m)
      PROVE  FALSE
  <2>1. ~Known(in[s], m)
    BY <1>3, TransmittedNew DEF Proc
  <2>2. QED
    BY <1>3, <2>1 DEF Known, Received, SameRequest, SameCall
<1>4. CASE Received(p, i) /\ SameRequest(in[p][i], in'[p][i])
  <2>1. ~NewCallOf(q, j)
    BY <1>1, <1>3, <1>4 DEF NewCallOf, SameCall
  <2>2. Received(q, j) /\ SameRequest(in[q][j], in'[q][j])
    BY <1>1, <2>1, ReceivedBack
  <2>3. QED
    BY <1>1, <1>4, <2>2 DEF Match, SameRequest, SameCall
<1>5. CASE NewCallOf(p, i)
  <2>1. ~(Received(q, j) /\ SameRequest(in[q][j], in'[q][j]))
    BY <1>1, <1>3, <1>5 DEF NewCallOf, SameCall
  <2>2. NewCallOf(q, j)
    BY <1>1, <2>1, ReceivedBack
  <2>3. PICK r \in Proc : OutStep(r) /\ Transmitted(r).to = Group /\ in'[p][i] = Transmitted(r)
    BY <1>5 DEF NewCallOf
  <2>4. in'[q] = Append(in[q], Transmitted(r)) /\ j = Len(in[q]) + 1 /\ in[q] \in Seq(Call)
    BY <1>2, <2>2, <2>3, GroupTransmitted, IndexFacts DEF NewCallOf
  <2>5. Transmitted(r) \in Call
    BY <2>3, TransmittedFacts DEF SafetyInv, QueueInv
  <2>6. in'[q][j] = Transmitted(r)
    BY <2>4, <2>5
  <2>7. QED
    BY <1>5, <2>2, <2>3, <2>6 DEF NewCallOf
<1>6. QED
  BY <1>1, <1>4, <1>5, ReceivedBack

LEMMA SameOrderNext ==
  ASSUME SafetyInv, OutNumbered, InTransmitted, SameOrder, [Next]_vars
  PROVE  SameOrder'
<1> SUFFICES ASSUME NEW p \in Peer, NEW q \in Peer, NEW i, Received(p, i)'
             PROVE  \E j : /\ Match(p, i, q, j)' /\ SameRequest(in'[p][i], in'[q][j])
                           /\ \A n, k : Match(p, n, q, k)' => (n < i <=> k < j)
  BY DEF SameOrder, Match, Received
<1>1. p \in Proc /\ q \in Proc /\ Moves
  BY NextMoves DEF Proc
<1>2. /\ DOMAIN in[p] = 1 .. Len(in[p]) /\ Len(in[p]) \in Nat /\ in[p] \in Seq(Call)
      /\ DOMAIN in[q] = 1 .. Len(in[q]) /\ Len(in[q]) \in Nat /\ in[q] \in Seq(Call)
  BY <1>1, IndexFacts
<1>3. \A n, k : Match(p, n, q, k) => n \in 1 .. Len(in[p]) /\ k \in 1 .. Len(in[q])
  BY <1>2 DEF Match, Received
<1>4. \A n, k : Match(p, n, q, k)' =>
        Match(p, n, q, k) \/ (n = Len(in[p]) + 1 /\ k = Len(in[q]) + 1 /\ in'[p][n] = in'[q][k])
  BY MatchBack
<1>5. CASE Received(p, i)
  <2>1. PICK j : Match(p, i, q, j)
    BY <1>5, MatchExists
  <2>2. /\ SameRequest(in[p][i], in[q][j])
        /\ \A n, k : Match(p, n, q, k) => (n < i <=> k < j)
    BY <2>1, SameIsOneOrder, MatchFacts
  <2>3. Match(p, i, q, j)' /\ SameRequest(in'[p][i], in'[q][j])
    <3>1. /\ Received(p, i)' /\ SameRequest(in[p][i], in'[p][i])
          /\ Received(q, j)' /\ SameRequest(in[q][j], in'[q][j])
      BY <1>1, <2>1, ReceivedKept DEF Match
    <3>2. QED
      BY <2>2, <3>1 DEF Match, SameRequest, SameCall
  <2>4. i \in 1 .. Len(in[p]) /\ j \in 1 .. Len(in[q])
    BY <1>3, <2>1
  <2>5. QED
    BY <1>2, <1>3, <1>4, <2>2, <2>3, <2>4
<1>6. CASE NewCallOf(p, i)
  <2>1. PICK r \in Proc : OutStep(r) /\ Transmitted(r).to = Group /\ in'[p][i] = Transmitted(r)
    BY <1>6 DEF NewCallOf
  <2> DEFINE j == Len(in[q]) + 1
  <2>2. in'[q] = Append(in[q], Transmitted(r)) /\ Transmitted(r) \in Call
    BY <2>1, GroupTransmitted, TransmittedFacts DEF SafetyInv, QueueInv
  <2>3. j \in DOMAIN in'[q] /\ in'[q][j] = in'[p][i]
    BY <1>2, <2>1, <2>2
  <2>4. \E k : k = j
    OBVIOUS
  <2>5. PICK k : k = j
    BY <2>4
  <2>6. Match(p, i, q, k)'
    BY <2>3, <2>5 DEF Match, Received, SameCall
  <2>7. SameRequest(in'[p][i], in'[q][k])
    BY <2>3, <2>5 DEF SameRequest, SameCall
  <2>8. i = Len(in[p]) + 1
    BY <1>6 DEF NewCallOf
  <2>9. QED
    BY <1>2, <1>3, <1>4, <2>5, <2>6, <2>7, <2>8
<1>7. QED
  BY <1>5, <1>6, ReceivedBack

LEMMA LogOrderNext ==
  ASSUME SafetyInv, LogOrder, Moves
  PROVE  LogOrder'
<1> SUFFICES ASSUME NEW p \in Proc, NEW k \in DOMAIN rl'[p], NEW n \in DOMAIN rl'[p],
                    NEW i \in DOMAIN in'[p], NEW j \in DOMAIN in'[p],
                    Processed(p, k, i)', Processed(p, n, j)', k < n
             PROVE  i < j
  BY DEF LogOrder
<1>1. /\ Len(rl[p]) \in Nat /\ DOMAIN rl[p] = 1 .. Len(rl[p]) /\ inptr[p] \in Nat
      /\ DOMAIN in[p] \subseteq Nat
  BY IndexFacts
<1>2. n \in 1 .. Len(rl[p]) + 1
  BY <1>1, MovesOf DEF RlGrowsOf
<1>3. k \in DOMAIN rl[p] /\ i \in DOMAIN in[p] /\ Processed(p, k, i)
  BY <1>1, <1>2, ProcessedBack DEF NewEntry
<1>4. CASE n \in DOMAIN rl[p] /\ j \in DOMAIN in[p] /\ Processed(p, n, j)
  BY <1>3, <1>4 DEF LogOrder
<1>5. CASE NewEntry(p, n, j)
  BY <1>3, <1>5 DEF NewEntry, Processed
<1>6. QED
  BY <1>4, <1>5, ProcessedBack

-----------------------------------------------------------------------------
(* What is known of a call at one mirror holds at another.                 *)

LEMMA FateFacts ==
  ASSUME NEW S, FateInv(S)
  PROVE  /\ SafetyInv /\ ReplayInv(S) /\ OutSendable /\ InSendable /\ EntryRequest
         /\ AwaitsGroup /\ SelfIsReplay /\ OneOrder
         /\ LogOrder /\ EntriesAgreed /\ Fates /\ SameFate /\ FailuresTrue
         /\ ReplayListsAgree /\ OncePerCall
BY LoggedOnce DEF FateInv, ReplayInv

LEMMA MirrorFacts ==
  ASSUME NEW S, MirrorInv(S)
  PROVE  /\ FateInv(S) /\ SafetyInv /\ ReplayInv(S) /\ OutSendable /\ InSendable
         /\ EntryRequest /\ AwaitsGroup /\ SelfIsReplay /\ OutNumbered /\ InTransmitted
         /\ SameOrder /\ OneOrder /\ LogOrder /\ EntriesAgreed /\ Fates /\ SameFate
         /\ FailuresTrue /\ ReplayListsAgree /\ OncePerCall
BY FateFacts DEF MirrorInv

(* A logged call of the group was received and handled.                    *)
LEMMA LoggedHandled ==
  ASSUME NEW S, FateInv(S), NEW p \in Peer, NEW k \in DOMAIN rl[p]
  PROVE  \E i : /\ Processed(p, k, i) /\ Handled(p, i) /\ Lasting(in[p][i])
                /\ in[p][i].result = "ok" /\ SameRequest(rl[p][k], in[p][i])
<1>1. p \in Proc
  BY DEF Proc
<1>2. PICK i \in DOMAIN in[p] : Processed(p, k, i)
  BY <1>1, FateFacts DEF SafetyInv, LoggedProcessed
<1>3. SameRequest(rl[p][k], in[p][i])
  BY <1>1, <1>2, FateFacts DEF EntryRequest
<1>4. rl[p][k].to = Group /\ Lasting(rl[p][k]) /\ in[p][i].result = "ok"
  BY <1>2, FateFacts DEF EntriesAgreed
<1>5. QED
  BY <1>2, <1>3, <1>4 DEF Processed, Handled, Received, SameRequest, Lasting, IsReturn

(* Two peers number a call alike. *)
LEMMA NumberUnique ==
  ASSUME SafetyInv, ReplayListsAgree, NEW p \in Peer, NEW q \in Peer,
         NEW n \in DOMAIN rl[p], NEW k \in DOMAIN rl[q], SameCall(rl[p][n], rl[q][k])
  PROVE  n = k
<1>1. p \in Proc /\ q \in Proc /\ OncePerCall
  BY LoggedOnce DEF Proc
<1>2. /\ DOMAIN rl[p] = 1 .. Len(rl[p]) /\ Len(rl[p]) \in Nat
      /\ DOMAIN rl[q] = 1 .. Len(rl[q]) /\ Len(rl[q]) \in Nat
  BY <1>1, IndexFacts
<1>3. \A x \in DOMAIN rl[p] \cap DOMAIN rl[q] : SameCall(rl[p][x], rl[q][x])
  BY DEF ReplayListsAgree
<1>4. CASE n \in DOMAIN rl[q]
  <2>1. SameCall(rl[q][n], rl[q][k])
    BY <1>3, <1>4 DEF SameCall
  <2>2. QED
    BY <1>1, <1>4, <2>1 DEF OncePerCall
<1>5. CASE n \notin DOMAIN rl[q]
  <2>1. k \in DOMAIN rl[p]
    BY <1>2, <1>5
  <2>2. SameCall(rl[p][n], rl[p][k])
    BY <1>3, <2>1 DEF SameCall
  <2>3. QED
    BY <1>1, <2>1, <2>2 DEF OncePerCall
<1>6. QED
  BY <1>4, <1>5

(* A call that one has logged and another handled has the same number.     *)
LEMMA Transfer ==
  ASSUME NEW S, FateInv(S), NEW p \in Peer, NEW q \in Peer,
         NEW k \in DOMAIN rl[q], NEW i, NEW j, Processed(q, k, j), Match(p, i, q, j),
         i < inptr[p]
  PROVE  k \in DOMAIN rl[p] /\ Processed(p, k, i)
<1>1. p \in Proc /\ q \in Proc /\ i \in DOMAIN in[p] /\ j \in DOMAIN in[q]
  BY DEF Proc, Match, Received
<1>2. SameRequest(in[p][i], in[q][j])
  BY FateFacts, MatchFacts
<1>3. Lasting(in[q][j]) /\ in[q][j].result = "ok"
  BY <1>1, FateFacts DEF EntriesAgreed, EntryRequest, SameRequest, Lasting, IsReturn
<1>4. Handled(p, i) /\ Handled(q, j) /\ Lasting(in[p][i])
  BY <1>2, <1>3 DEF Match, Handled, Processed, SameRequest, Lasting, IsReturn
<1>5. in[p][i].result = "ok"
  BY <1>1, <1>3, <1>4, FateFacts DEF SameFate, Match
<1>6. PICK n \in DOMAIN rl[p] : Processed(p, n, i)
  BY <1>1, <1>4, <1>5, FateFacts DEF Fates
<1>7. SameCall(rl[p][n], rl[q][k])
  BY <1>6 DEF Processed, Match, SameCall
<1>8. n = k
  BY <1>6, <1>7, FateFacts, NumberUnique
<1>9. QED
  BY <1>6, <1>8

(* Before a call they have both received, they have logged the same.       *)
LEMMA PrefixLe ==
  ASSUME NEW S, FateInv(S), NEW p \in Peer, NEW q \in Peer, NEW i, NEW j,
         Match(p, i, q, j), j <= inptr[q],
         NEW n \in 0 .. Len(rl[p]), NEW m \in 0 .. Len(rl[q]),
         LoggedBefore(p, i, n), LoggedBefore(q, j, m)
  PROVE  n <= m
<1>1. SafetyInv /\ OneOrder /\ p \in Proc /\ q \in Proc
  BY FateFacts DEF Proc
<1>2. /\ DOMAIN rl[p] = 1 .. Len(rl[p]) /\ Len(rl[p]) \in Nat /\ inptr[q] \in Nat
      /\ DOMAIN in[p] \subseteq Nat /\ DOMAIN in[q] \subseteq Nat /\ Len(rl[q]) \in Nat
  BY <1>1, IndexFacts
<1>3. CASE n = 0
  BY <1>3
<1>4. CASE n # 0
  <2>1. n \in DOMAIN rl[p]
    BY <1>2, <1>4
  <2>2. PICK l : Processed(p, n, l) /\ Handled(p, l)
    BY <2>1, LoggedHandled
  <2>3. l \in DOMAIN in[p] /\ Received(p, l)
    BY <2>2 DEF Handled, Received
  <2>4. l < i
    BY <2>1, <2>2, <2>3 DEF LoggedBefore
  <2>5. PICK k : Match(p, l, q, k) /\ k < j
    BY <1>1, <2>3, <2>4, MatchBefore
  <2>6. k < j
    BY <2>5
  <2>7. k < inptr[q] /\ k \in DOMAIN in[q] /\ j \in DOMAIN in[q]
    BY <1>2, <2>5, <2>6 DEF Match, Received
  <2>8. n \in DOMAIN rl[q] /\ Processed(q, n, k)
    <3>1. Match(q, k, p, l)
      BY <2>5, MatchSymmetric
    <3>2. QED
      BY <2>1, <2>2, <2>7, <3>1, Transfer
  <2>9. QED
    BY <2>6, <2>7, <2>8 DEF LoggedBefore
<1>5. QED
  BY <1>3, <1>4

LEMMA AfterSame ==
  ASSUME NEW S, FateInv(S), Mirrored, NEW p \in Peer, NEW q \in Peer,
         NEW N \in Nat, N <= Len(rl[p]), N <= Len(rl[q])
  PROVE  \A n \in 0 .. N : After(p)[n] = After(q)[n]
<1>1. SafetyInv /\ TypeOK /\ p \in Proc /\ q \in Proc
  BY FateFacts DEF Proc, SafetyInv, QueueInv
<1>2. /\ DOMAIN rl[p] = 1 .. Len(rl[p]) /\ Len(rl[p]) \in Nat
      /\ DOMAIN rl[q] = 1 .. Len(rl[q]) /\ Len(rl[q]) \in Nat
  BY <1>1, IndexFacts
<1> DEFINE f == After(p)
           g == After(q)
<1>3. f[0] = g[0]
  BY <1>1, AfterFacts DEF Mirrored
<1>4. ASSUME NEW n \in 1 .. N, f[n - 1] = g[n - 1]
      PROVE  f[n] = g[n]
  <2>1. n \in DOMAIN rl[p] /\ n \in DOMAIN rl[q]
    BY <1>2
  <2>2. /\ SameCall(rl[p][n], rl[q][n]) /\ rl[p][n].func = rl[q][n].func
        /\ rl[p][n].ret = rl[q][n].ret
    BY <2>1, FateFacts DEF ReplayListsAgree
  <2>3. CallerOf(rl[p][n]) = CallerOf(rl[q][n])
    BY <2>2 DEF CallerOf, Caller, IsReturn, SameCall
  <2>4. /\ f[n] = Applied(f[n - 1], rl[p][n], CallerOf(rl[p][n]))
        /\ g[n] = Applied(g[n - 1], rl[q][n], CallerOf(rl[q][n]))
    BY <1>1, <2>1, AfterFacts
  <2>5. QED
    BY <1>4, <2>2, <2>3, <2>4 DEF Applied, IsReturn, SameCall
<1> HIDE DEF f, g
<1>5. \A n \in 1 .. N : f[n - 1] = g[n - 1] => f[n] = g[n]
  BY <1>4
<1>6. \A n \in 0 .. N : f[n] = g[n]
  BY ONLY N \in Nat, <1>3, <1>5, ChainUnique
<1>7. QED
  BY <1>6 DEF f, g

LEMMA Prefix ==
  ASSUME NEW S, FateInv(S), Mirrored, NEW p \in Peer, NEW q \in Peer, NEW i, NEW j,
         Match(p, i, q, j), i <= inptr[p], j <= inptr[q],
         NEW n \in 0 .. Len(rl[p]), NEW m \in 0 .. Len(rl[q]),
         LoggedBefore(p, i, n), LoggedBefore(q, j, m)
  PROVE  n = m /\ After(p)[n] = After(q)[n]
<1>1. p \in Proc /\ q \in Proc /\ SafetyInv
  BY FateFacts DEF Proc
<1>2. Len(rl[p]) \in Nat /\ Len(rl[q]) \in Nat
  BY <1>1, IndexFacts
<1>3. n <= m
  BY PrefixLe
<1>4. m <= n
  BY PrefixLe, MatchSymmetric
<1>5. n = m /\ n \in Nat /\ n <= Len(rl[p]) /\ n <= Len(rl[q])
  BY <1>2, <1>3, <1>4
<1>6. n \in 0 .. n
  BY <1>5
<1>7. \A x \in 0 .. n : After(p)[x] = After(q)[x]
  BY <1>5, AfterSame
<1>8. QED
  BY <1>5, <1>6, <1>7

(* All that p has logged, it has logged before the call at INPTR, ...      *)
LEMMA AllBefore ==
  ASSUME SafetyInv, NEW p \in Proc
  PROVE  Len(rl[p]) \in 0 .. Len(rl[p]) /\ LoggedBefore(p, inptr[p], Len(rl[p]))
BY IndexFacts DEF LoggedBefore, Processed

(* ... and before its k-th entry it has logged k - 1.                      *)
LEMMA EntryBefore ==
  ASSUME NEW S, FateInv(S), NEW p \in Peer, NEW k \in DOMAIN rl[p],
         NEW i \in DOMAIN in[p], Processed(p, k, i)
  PROVE  k - 1 \in 0 .. Len(rl[p]) /\ LoggedBefore(p, i, k - 1)
<1>1. SafetyInv /\ p \in Proc /\ LogOrder
  BY FateFacts DEF Proc
<1>2. /\ DOMAIN rl[p] = 1 .. Len(rl[p]) /\ Len(rl[p]) \in Nat /\ DOMAIN in[p] \subseteq Nat
  BY <1>1, IndexFacts
<1>3. ASSUME NEW n \in DOMAIN rl[p], NEW j \in DOMAIN in[p], Processed(p, n, j)
      PROVE  n <= k - 1 <=> j < i
  <2>1. n < k => j < i
    BY <1>1, <1>3 DEF LogOrder
  <2>2. k < n => i < j
    BY <1>1, <1>3 DEF LogOrder
  <2>3. n = k => j = i
    BY <1>1, <1>3 DEF Processed, SafetyInv, ReceivedOnce, SameCall
  <2>4. QED
    BY <1>2, <2>1, <2>2, <2>3
<1>4. QED
  BY <1>2, <1>3 DEF LoggedBefore

-----------------------------------------------------------------------------
(* The fate of a call: the same at all the mirrors. *)

HandledNow(p, i) ==
  /\ i = inptr[p] /\ Received(p, i)
  /\ \/ Performs(p) /\ in'[p][i] = Done(p)
     \/ SkipFailed(p) /\ in'[p][i] = [Current(p) EXCEPT !.result = "fail"]

LEMMA HandledBack ==
  ASSUME SafetyInv, Moves, NEW p \in Peer, NEW i, Handled(p, i)'
  PROVE  (Handled(p, i) /\ in'[p][i] = in[p][i]) \/ HandledNow(p, i)
<1>1. p \in Proc /\ TypeOK
  BY DEF Proc, SafetyInv, QueueInv
<1>2. /\ DOMAIN in[p] = 1 .. Len(in[p]) /\ Len(in[p]) \in Nat
      /\ inptr[p] \in Nat /\ inptr[p] <= Len(in[p]) + 1 /\ in[p] \in Seq(Call)
  BY <1>1, IndexFacts
<1>3. Received(p, i)' /\ i < inptr'[p]
  BY DEF Handled
<1>4. OwnStepOf(p)
  BY <1>1, MovesOf
<1>5. i \in Nat
  <2>1. TypeOK'
    BY MovesSafe DEF SafetyInv, QueueInv
  <2>2. in'[p] \in Seq(Call)
    BY <1>1, <2>1 DEF TypeOK
  <2>3. QED
    BY <1>3, <2>2 DEF Received
<1>6. CASE i < inptr[p]
  <2>1. i \in DOMAIN in[p]
    <3>1. i # 0
      <4>1. in'[p] \in Seq(Call)
        BY <1>1, MovesSafe DEF SafetyInv, QueueInv, TypeOK
      <4>2. QED
        BY <1>3, <4>1 DEF Received
    <3>2. QED
      BY <1>2, <1>5, <1>6, <3>1
  <2>2. Received(p, i)
    BY <1>1, <1>3, <2>1, ReceivedWas
  <2>3. in'[p][i] = in[p][i]
    BY <1>1, <1>6, <2>2, ReceivedKept
  <2>4. QED
    BY <1>6, <2>2, <2>3 DEF Handled
<1>7. CASE ~(i < inptr[p])
  <2>1. inptr'[p] = inptr[p] + 1 /\ (ReadAck(p) \/ SkipFailed(p) \/ Performs(p))
    BY <1>2, <1>3, <1>4, <1>5, <1>7 DEF OwnStepOf
  <2>2. i = inptr[p]
    BY <1>2, <1>3, <1>5, <1>7, <2>1
  <2>3. ~InIdle(p)
    BY <2>1 DEF ReadAck, SkipFailed, Performs, Ready
  <2>4. i \in DOMAIN in[p]
    BY <1>1, <2>2, <2>3, CurrentType
  <2>5. Received(p, i)
    BY <1>1, <1>3, <2>4, ReceivedWas
  <2>6. ~ReadAck(p)
    BY <2>2, <2>5 DEF ReadAck, Current, Received
  <2>7. Performs(p) => in'[p][i] = Done(p)
    <3>1. SUFFICES ASSUME Performs(p)
                   PROVE  in'[p][i] = Done(p)
      OBVIOUS
    <3>2. in'[p] = [in[p] EXCEPT ![inptr[p]] = Done(p)]
      BY <1>1, <3>1, PerformFacts
    <3>3. QED
      BY <1>2, <2>2, <2>4, <3>2
  <2>8. SkipFailed(p) => in'[p][i] = [Current(p) EXCEPT !.result = "fail"]
    <3> DEFINE m == [Current(p) EXCEPT !.result = "fail"]
    <3>1. SkipFailed(p) => in' = [in EXCEPT ![p] = [@ EXCEPT ![inptr[p]] = m]]
      BY DEF SkipFailed, Current
    <3> HIDE DEF m
    <3>2. SkipFailed(p) => in'[p][i] = m
      BY <1>1, <1>2, <2>2, <2>4, <3>1 DEF TypeOK
    <3>3. QED
      BY <3>2 DEF m
  <2>9. QED
    BY <2>1, <2>2, <2>5, <2>6, <2>7, <2>8 DEF HandledNow
<1>8. QED
  BY <1>6, <1>7

LEMMA HandledKept ==
  ASSUME SafetyInv, Moves, NEW p \in Proc, NEW i, Handled(p, i)
  PROVE  Handled(p, i)' /\ in'[p][i] = in[p][i]
<1>1. Received(p, i) /\ i < inptr[p]
  BY DEF Handled
<1>2. Received(p, i)' /\ in'[p][i] = in[p][i]
  BY <1>1, ReceivedKept
<1>3. inptr[p] <= inptr'[p] /\ inptr[p] \in Nat /\ i \in Nat
  BY <1>1, MovesOf, IndexFacts DEF InStepOf, Received
<1>4. inptr'[p] \in Nat
  BY MovesSafe DEF SafetyInv, QueueInv, TypeOK
<1>5. QED
  BY <1>1, <1>2, <1>3, <1>4 DEF Handled

LEMMA EntriesAgreedNext ==
  ASSUME NEW S, FateInv(S), Mirrored, Moves
  PROVE  EntriesAgreed'
<1> SUFFICES ASSUME NEW p \in Peer, NEW k \in DOMAIN rl'[p]
             PROVE  /\ rl'[p][k].to = Group /\ Lasting(rl[p][k])'
                    /\ Agreed(After(p)[k - 1], rl[p][k])'
                    /\ \A i \in DOMAIN in'[p] : Processed(p, k, i)' => in'[p][i].result = "ok"
  BY DEF EntriesAgreed
<1>1. p \in Proc /\ SafetyInv /\ InSendable /\ EntryRequest /\ EntriesAgreed /\ SelfIsReplay
  BY FateFacts DEF Proc
<1>2. /\ DOMAIN rl[p] = 1 .. Len(rl[p]) /\ Len(rl[p]) \in Nat /\ rl[p] \in Seq(Call)
  BY <1>1, IndexFacts
<1>3. \A n \in 0 .. Len(rl[p]) : After(p)'[n] = After(p)[n]
  BY <1>1, AfterKept
<1>4. CASE k \in DOMAIN rl[p]
  <2>1. SameEntry(rl[p][k], rl'[p][k])
    BY <1>1, <1>4, RlMoves
  <2>2. SameRequest(rl[p][k], rl'[p][k])
    BY <2>1 DEF SameEntry, SameRequest, SameCall
  <2>3. k - 1 \in 0 .. Len(rl[p])
    BY <1>2, <1>4
  <2>4. After(p)'[k - 1] = After(p)[k - 1]
    BY <1>3, <2>3
  <2>5. rl[p][k].to = Group /\ Lasting(rl[p][k]) /\ Agreed(After(p)[k - 1], rl[p][k])
    BY <1>1, <1>4 DEF EntriesAgreed
  <2>6. rl'[p][k].to = Group /\ Lasting(rl[p][k])'
    BY <2>2, <2>5 DEF SameRequest, Lasting, IsReturn
  <2>7. Agreed(After(p)[k - 1], rl[p][k])'
    BY <2>2, <2>4, <2>5 DEF SameRequest, SameCall, Agreed, IsReturn
  <2>8. \A i \in DOMAIN in'[p] : Processed(p, k, i)' => in'[p][i].result = "ok"
    <3> SUFFICES ASSUME NEW i \in DOMAIN in'[p], Processed(p, k, i)'
                 PROVE  in'[p][i].result = "ok"
      OBVIOUS
    <3>1. i \in DOMAIN in[p] /\ Processed(p, k, i)
      BY <1>1, <1>4, ProcessedBack
    <3>2. in'[p][i] = in[p][i]
      BY <1>1, <1>4, <3>1, ProcessedKept
    <3>3. QED
      BY <1>1, <1>4, <3>1, <3>2 DEF EntriesAgreed
  <2>9. QED
    BY <2>6, <2>7, <2>8
<1>5. CASE k \notin DOMAIN rl[p]
  <2>1. k = Len(rl[p]) + 1 /\ Performs(p) /\ Logs(p) /\ rl'[p][k] = Entry(p)
    BY <1>1, <1>5, MovesOf DEF RlGrowsOf
  <2>2. SameRequest(Current(p), Entry(p))
    BY <1>1, <2>1, NewEntryFacts, PerformFacts
  <2>3. Sendable(Current(p)) /\ Destined(p, Current(p))
    BY <1>1, <2>1, PerformFacts DEF Performs, InSendable, Current
  <2>4. Lasting(Current(p))
    BY <2>1 DEF Logs, Durable, Lasting
  <2>5. Current(p).to = Group
    <3>1. CASE IsReturn(Current(p))
      BY <2>3, <3>1 DEF Sendable
    <3>2. CASE ~IsReturn(Current(p))
      BY <2>3, <2>4, <3>2, ProcAssumption DEF Sendable, Destined, Dest, Lasting, Mirrored
    <3>3. QED
      BY <3>1, <3>2
  <2>6. rl'[p][k].to = Group /\ Lasting(rl[p][k])'
    BY <2>1, <2>2, <2>4, <2>5 DEF SameRequest, Lasting, IsReturn
  <2>7. k - 1 = Len(rl[p]) /\ Len(rl[p]) \in 0 .. Len(rl[p])
    BY <1>2, <2>1
  <2>8. After(p)'[k - 1] = self[p]
    BY <1>1, <1>3, <2>7 DEF SelfIsReplay, Replay
  <2>9. Agreed(self[p], Current(p))
    BY <2>1 DEF Logs, Succeeds, Agreed
  <2>10. Agreed(After(p)[k - 1], rl[p][k])'
    BY <2>1, <2>2, <2>8, <2>9 DEF SameRequest, SameCall, Agreed, IsReturn
  <2>11. \A i \in DOMAIN in'[p] : Processed(p, k, i)' => in'[p][i].result = "ok"
    <3> SUFFICES ASSUME NEW i \in DOMAIN in'[p], Processed(p, k, i)'
                 PROVE  in'[p][i].result = "ok"
      OBVIOUS
    <3>1. in'[p][i] = Done(p)
      BY <1>1, <1>5, ProcessedBack DEF NewEntry
    <3>2. QED
      BY <1>1, <2>1, <3>1, NewEntryFacts, PerformFacts DEF Logs
  <2>12. QED
    BY <2>6, <2>10, <2>11
<1>6. QED
  BY <1>4, <1>5

LEMMA LoggedBeforeKept ==
  ASSUME SafetyInv, Moves, NEW p \in Proc, NEW i \in Nat, i <= inptr[p],
         NEW n \in 0 .. Len(rl[p]), LoggedBefore(p, i, n)
  PROVE  LoggedBefore(p, i, n)' /\ n \in 0 .. Len(rl'[p])
<1>1. /\ DOMAIN rl[p] = 1 .. Len(rl[p]) /\ Len(rl[p]) \in Nat /\ inptr[p] \in Nat
  BY IndexFacts
<1>2. ASSUME NEW k \in DOMAIN rl'[p], NEW j \in DOMAIN in'[p], Processed(p, k, j)'
      PROVE  k <= n <=> j < i
  <2>1. CASE k \in DOMAIN rl[p] /\ j \in DOMAIN in[p] /\ Processed(p, k, j)
    BY <2>1 DEF LoggedBefore
  <2>2. CASE NewEntry(p, k, j)
    BY <1>1, <2>2 DEF NewEntry
  <2>3. QED
    BY <1>2, <2>1, <2>2, ProcessedBack
<1>3. Len(rl[p]) <= Len(rl'[p]) /\ Len(rl'[p]) \in Nat
  <2>1. rl'[p] \in Seq(Call)
    BY MovesSafe DEF SafetyInv, QueueInv, TypeOK
  <2>2. \A k \in DOMAIN rl[p] : k \in DOMAIN rl'[p]
    BY RlMoves
  <2>3. DOMAIN rl'[p] = 1 .. Len(rl'[p]) /\ Len(rl'[p]) \in Nat
    BY <2>1
  <2>4. Len(rl[p]) # 0 => Len(rl[p]) \in DOMAIN rl[p]
    BY <1>1
  <2>5. QED
    BY <1>1, <2>2, <2>3, <2>4
<1>4. QED
  BY <1>1, <1>2, <1>3 DEF LoggedBefore

LEMMA RefusedKept ==
  ASSUME SafetyInv, InSendable, EntryRequest, Moves, NEW p \in Proc, NEW i \in Nat,
         i <= inptr[p], NEW n \in 0 .. Len(rl[p]), LoggedBefore(p, i, n),
         NEW m, SameRequest(m, in'[p][i]), ~Agreed(After(p)[n], m)
  PROVE  Refused(p, i)'
<1>1. LoggedBefore(p, i, n)' /\ n \in 0 .. Len(rl'[p])
  BY LoggedBeforeKept
<1>2. After(p)'[n] = After(p)[n]
  BY AfterKept
<1>3. ~Agreed(After(p)[n], in[p][i])'
  BY <1>2 DEF Agreed, SameRequest, SameCall, IsReturn
<1>4. QED
  BY <1>1, <1>3 DEF Refused

(* A failure that a peer has learnt of has happened at some peer.          *)
LEMMA FailedElsewhere ==
  ASSUME NEW S, FateInv(S), NEW p \in Peer, Received(p, inptr[p]), FailAcked(p)
  PROVE  \E r \in Peer : \E l : /\ Match(p, inptr[p], r, l) /\ Handled(r, l)
                                /\ Lasting(in[r][l]) /\ in[r][l].result = "fail"
<1>1. PICK x \in DOMAIN in[p] : /\ SameCall(in[p][x], Current(p))
                                /\ in[p][x].ack /\ in[p][x].result = "fail"
  BY DEF FailAcked
<1>2. PICK r \in Peer : \E j \in DOMAIN in[r] :
        /\ Handled(r, j) /\ Lasting(in[r][j]) /\ in[r][j].result = "fail"
        /\ SameCall(in[p][x], in[r][j])
  BY <1>1, FateFacts DEF FailuresTrue
<1>3. PICK j \in DOMAIN in[r] :
        /\ Handled(r, j) /\ Lasting(in[r][j]) /\ in[r][j].result = "fail"
        /\ SameCall(in[p][x], in[r][j])
  BY <1>2
<1>4. Match(p, inptr[p], r, j)
  BY <1>1, <1>3 DEF Match, Handled, SameCall, Current
<1>5. QED
  BY <1>3, <1>4

(* The call at INPTR is accepted iff it was where it has been handled.     *)
LEMMA SameVerdict ==
  ASSUME NEW S, FateInv(S), Mirrored, NEW p \in Peer, NEW q \in Peer, NEW j,
         Match(p, inptr[p], q, j), Handled(q, j), Lasting(in[q][j])
  PROVE  in[q][j].result = (IF Succeeds(p) THEN "ok" ELSE "fail")
<1>1. SafetyInv /\ p \in Proc /\ q \in Proc /\ SelfIsReplay /\ OneOrder
  BY FateFacts DEF Proc
<1>2. /\ Len(rl[p]) \in 0 .. Len(rl[p]) /\ LoggedBefore(p, inptr[p], Len(rl[p]))
      /\ inptr[p] \in Nat /\ inptr[q] \in Nat /\ j \in Nat /\ j <= inptr[q]
  <2>1. Len(rl[p]) \in 0 .. Len(rl[p]) /\ LoggedBefore(p, inptr[p], Len(rl[p]))
    BY <1>1, AllBefore
  <2>2. inptr[p] \in Nat /\ inptr[q] \in Nat /\ j \in Nat
    BY <1>1, IndexFacts DEF Handled, Received
  <2>3. QED
    BY <2>1, <2>2 DEF Handled
<1>3. SameRequest(Current(p), in[q][j])
  BY <1>1, MatchFacts DEF Current
<1>4. After(p)[Len(rl[p])] = self[p]
  BY <1>1 DEF SelfIsReplay, Replay
<1>5. Succeeds(p) <=> Agreed(self[p], Current(p))
  BY DEF Succeeds, Agreed
<1>6. CASE in[q][j].result = "fail" /\ Refused(q, j)
  <2>1. PICK n \in 0 .. Len(rl[q]) : LoggedBefore(q, j, n) /\ ~Agreed(After(q)[n], in[q][j])
    BY <1>6 DEF Refused
  <2>2. n = Len(rl[p]) /\ After(q)[n] = self[p]
    BY <1>2, <1>4, <2>1, Prefix
  <2>3. QED
    BY <1>3, <1>5, <1>6, <2>1, <2>2 DEF Agreed, SameRequest, SameCall, IsReturn
<1>7. CASE in[q][j].result = "ok" /\ \E k \in DOMAIN rl[q] : Processed(q, k, j)
  <2>1. PICK k \in DOMAIN rl[q] : Processed(q, k, j)
    BY <1>7
  <2>2. j \in DOMAIN in[q]
    BY DEF Handled, Received
  <2>3. k - 1 \in 0 .. Len(rl[q]) /\ LoggedBefore(q, j, k - 1)
    BY <2>1, <2>2, EntryBefore
  <2>4. k - 1 = Len(rl[p]) /\ After(q)[k - 1] = self[p]
    BY <1>2, <1>4, <2>3, Prefix
  <2>5. Agreed(After(q)[k - 1], rl[q][k]) /\ SameRequest(rl[q][k], in[q][j])
    BY <1>1, <2>1, <2>2, FateFacts DEF EntriesAgreed, EntryRequest
  <2>6. QED
    BY <1>3, <1>5, <1>7, <2>4, <2>5 DEF Agreed, SameRequest, SameCall, IsReturn
<1>8. QED
  BY <1>6, <1>7, FateFacts DEF Fates, Handled, Received

LEMMA NewFate ==
  ASSUME NEW S, FateInv(S), Mirrored, Moves, NEW p \in Peer, NEW q \in Peer,
         NEW i, NEW j, HandledNow(p, i), Handled(q, j), Lasting(in[q][j]), Match(p, i, q, j)
  PROVE  in'[p][i].result = in[q][j].result
<1>1. i = inptr[p] /\ Received(p, i) /\ SafetyInv /\ p \in Proc
  BY FateFacts DEF HandledNow, Proc
<1>2. CASE Performs(p) /\ in'[p][i] = Done(p)
  <2>1. in[q][j].result = IF Succeeds(p) THEN "ok" ELSE "fail"
    BY <1>1, SameVerdict
  <2>2. Done(p).result = IF Succeeds(p) THEN "ok" ELSE "fail"
    BY <1>1, <1>2, NewEntryFacts, PerformFacts
  <2>3. QED
    BY <1>2, <2>1, <2>2
<1>3. CASE SkipFailed(p) /\ in'[p][i] = [Current(p) EXCEPT !.result = "fail"]
  <2>1. PICK r \in Peer : \E l : /\ Match(p, i, r, l) /\ Handled(r, l)
                                 /\ Lasting(in[r][l]) /\ in[r][l].result = "fail"
    BY <1>1, <1>3, FailedElsewhere DEF SkipFailed
  <2>2. PICK l : /\ Match(p, i, r, l) /\ Handled(r, l)
                 /\ Lasting(in[r][l]) /\ in[r][l].result = "fail"
    BY <2>1
  <2>3. Match(r, l, q, j)
    BY <2>2, MatchSymmetric, MatchJoins
  <2>4. in[q][j].result = "fail"
    BY <2>2, <2>3, FateFacts DEF SameFate, Match, Received
  <2>5. Answered(p, in'[p][i])
    BY <1>3 DEF Answered
  <2>6. Current(p) \in Call
    BY <1>1, <2>5, AnsweredFacts
  <2>7. QED
    BY <1>3, <2>4, <2>6 DEF Call
<1>4. QED
  BY <1>2, <1>3 DEF HandledNow

(* One process takes a step. *)
LEMMA OneHandles ==
  ASSUME SafetyInv, NEW p \in Peer, NEW q \in Peer, NEW i, NEW j,
         HandledNow(p, i), HandledNow(q, j)
  PROVE  p = q
<1>1. TypeOK /\ p \in Proc /\ q \in Proc
  BY DEF SafetyInv, QueueInv, Proc
<1>2. \A r \in Proc : Performs(r) \/ SkipFailed(r) => inptr' = [inptr EXCEPT ![r] = @ + 1]
  BY DEF Performs, SkipFailed, Consume
<1>3. /\ inptr' = [inptr EXCEPT ![p] = @ + 1] /\ inptr' = [inptr EXCEPT ![q] = @ + 1]
  BY <1>1, <1>2 DEF HandledNow
<1>4. inptr \in [Proc -> Nat \ {0}]
  BY <1>1 DEF TypeOK
<1>5. QED
  BY <1>1, <1>3, <1>4

LEMMA SameFateNext ==
  ASSUME NEW S, FateInv(S), Mirrored, Moves
  PROVE  SameFate'
<1> SUFFICES ASSUME NEW p \in Peer, NEW q \in Peer, NEW i \in DOMAIN in'[p],
                    NEW j \in DOMAIN in'[q], Handled(p, i)', Handled(q, j)',
                    Lasting(in[p][i])', SameCall(in'[p][i], in'[q][j])
             PROVE  in'[p][i].result = in'[q][j].result
  BY DEF SameFate, SameCall
<1>1. /\ SafetyInv /\ SafetyInv' /\ OneOrder /\ p \in Proc /\ q \in Proc
      /\ SameFate
  BY FateFacts, MovesSafe DEF Proc
<1>2. \A r \in Peer : \A l : HandledNow(r, l) => Received(r, l)
  BY DEF HandledNow
<1>3. Received(p, i) /\ Received(q, j)
  BY <1>1, <1>2, HandledBack DEF Handled
<1>4. SameRequest(in[p][i], in'[p][i]) /\ SameRequest(in[q][j], in'[q][j])
  BY <1>1, <1>3, ReceivedKept
<1>5. Match(p, i, q, j) /\ Match(q, j, p, i)
  BY <1>3, <1>4 DEF Match, SameRequest, SameCall
<1>6. Lasting(in[p][i]) /\ Lasting(in[q][j])
  <2>1. SameRequest(in[p][i], in[q][j])
    BY <1>1, <1>5, MatchFacts
  <2>2. QED
    BY <1>4, <2>1 DEF SameRequest, Lasting, IsReturn
<1>7. CASE Handled(p, i) /\ in'[p][i] = in[p][i] /\ Handled(q, j) /\ in'[q][j] = in[q][j]
  BY <1>1, <1>5, <1>6, <1>7 DEF SameFate, Match, Received
<1>8. CASE HandledNow(p, i) /\ Handled(q, j) /\ in'[q][j] = in[q][j]
  BY <1>5, <1>6, <1>8, NewFate
<1>9. CASE Handled(p, i) /\ in'[p][i] = in[p][i] /\ HandledNow(q, j)
  BY <1>5, <1>6, <1>9, NewFate
<1>10. CASE HandledNow(p, i) /\ HandledNow(q, j)
  <2>1. p = q
    BY <1>1, <1>10, OneHandles
  <2>2. i = j
    BY <1>10, <2>1 DEF HandledNow
  <2>3. QED
    BY <2>1, <2>2
<1>11. QED
  BY <1>1, <1>7, <1>8, <1>9, <1>10, HandledBack

LEMMA FatesNext ==
  ASSUME NEW S, FateInv(S), Mirrored, Moves
  PROVE  Fates'
<1> SUFFICES ASSUME NEW p \in Peer, NEW i \in DOMAIN in'[p], Handled(p, i)', Lasting(in[p][i])'
             PROVE  \/ in'[p][i].result = "fail" /\ Refused(p, i)'
                    \/ in'[p][i].result = "ok" /\ \E k \in DOMAIN rl'[p] : Processed(p, k, i)'
  BY DEF Fates
<1>1. SafetyInv /\ InSendable /\ EntryRequest /\ p \in Proc /\ OneOrder /\ SelfIsReplay /\ Fates
  BY FateFacts DEF Proc
<1>2. /\ inptr[p] \in Nat /\ Len(rl[p]) \in Nat /\ DOMAIN in[p] = 1 .. Len(in[p])
      /\ rl[p] \in Seq(Call)
  BY <1>1, IndexFacts
<1>3. CASE Handled(p, i) /\ in'[p][i] = in[p][i]
  <2>1. i \in DOMAIN in[p] /\ Lasting(in[p][i]) /\ i < inptr[p]
    BY <1>3 DEF Handled, Received, Lasting, IsReturn
  <2>2. CASE in[p][i].result = "fail" /\ Refused(p, i)
    <3>1. PICK n \in 0 .. Len(rl[p]) : LoggedBefore(p, i, n) /\ ~Agreed(After(p)[n], in[p][i])
      BY <2>2 DEF Refused
    <3>2. i \in Nat /\ i <= inptr[p] /\ SameRequest(in[p][i], in'[p][i])
      BY <1>2, <1>3, <2>1 DEF SameRequest, SameCall
    <3>3. Refused(p, i)'
      BY <1>1, <3>1, <3>2, RefusedKept
    <3>4. QED
      BY <1>3, <2>2, <3>3
  <2>3. CASE in[p][i].result = "ok" /\ \E k \in DOMAIN rl[p] : Processed(p, k, i)
    <3>1. PICK k \in DOMAIN rl[p] : Processed(p, k, i)
      BY <2>3
    <3>2. k \in DOMAIN rl'[p] /\ Processed(p, k, i)'
      BY <1>1, <2>1, <3>1, ProcessedKept, RlMoves
    <3>3. QED
      BY <1>3, <2>3, <3>2
  <2>4. QED
    BY <1>1, <1>3, <2>1, <2>2, <2>3 DEF Fates
<1>4. CASE HandledNow(p, i)
  <2>1. i = inptr[p] /\ Received(p, i)
    BY <1>4 DEF HandledNow
  <2>2. Len(rl[p]) \in 0 .. Len(rl[p]) /\ LoggedBefore(p, i, Len(rl[p]))
    BY <1>1, <2>1, AllBefore
  <2>3. After(p)[Len(rl[p])] = self[p]
    BY <1>1 DEF SelfIsReplay, Replay
  <2>4. SameRequest(Current(p), in'[p][i])
    BY <1>1, <2>1, ReceivedKept DEF Current
  <2>5. Lasting(Current(p))
    BY <2>4 DEF SameRequest, Lasting, IsReturn
  <2>6. Succeeds(p) <=> Agreed(self[p], Current(p))
    BY DEF Succeeds, Agreed
  <2>7. ~Succeeds(p) => Refused(p, i)'
    <3>1. PICK n \in 0 .. Len(rl[p]) : n = Len(rl[p])
      BY <2>2
    <3>2. LoggedBefore(p, i, n) /\ i \in Nat /\ i <= inptr[p]
      BY <1>2, <2>1, <2>2, <3>1
    <3>3. ~Succeeds(p) => ~Agreed(After(p)[n], Current(p))
      BY <2>3, <2>6, <3>1
    <3>4. QED
      BY <1>1, <2>4, <3>2, <3>3, RefusedKept
  <2>8. CASE Performs(p) /\ in'[p][i] = Done(p)
    <3>1. Done(p).result = IF Succeeds(p) THEN "ok" ELSE "fail"
      BY <1>1, <2>8, NewEntryFacts, PerformFacts
    <3>2. ASSUME Succeeds(p)
          PROVE  \E k \in DOMAIN rl'[p] : Processed(p, k, i)'
      <4>1. Logs(p)
        BY <2>5, <3>2 DEF Logs, Durable, Lasting
      <4>2. PICK k \in Nat : k = Len(rl[p]) + 1
        BY <1>2
      <4>3. Entry(p) \in Call /\ rl'[p] = Append(rl[p], Entry(p))
        BY <1>1, <2>8, <4>1, PerformFacts DEF SafetyInv, QueueInv
      <4>4. k \in DOMAIN rl'[p] /\ rl'[p][k] = Entry(p)
        BY <1>2, <4>2, <4>3
      <4>5. inptr'[p] = inptr[p] + 1
        BY <1>1, <2>8 DEF Performs, SafetyInv, QueueInv, TypeOK
      <4>6. Done(p).innb = Len(rl[p]) /\ SameCall(Done(p), Entry(p))
        BY <1>1, <2>8, <4>1, NewEntryFacts, PerformFacts DEF SameRequest, SameCall
      <4>7. ~in'[p][i].ack
        BY DEF Handled, Received
      <4>8. Processed(p, k, i)'
        BY <1>2, <2>1, <2>8, <4>2, <4>4, <4>5, <4>6, <4>7 DEF Processed
      <4>9. QED
        BY <4>4, <4>8
    <3>3. QED
      BY <2>7, <2>8, <3>1, <3>2
  <2>9. CASE SkipFailed(p) /\ in'[p][i] = [Current(p) EXCEPT !.result = "fail"]
    <3>1. PICK r \in Peer : \E l : /\ Match(p, i, r, l) /\ Handled(r, l)
                                   /\ Lasting(in[r][l]) /\ in[r][l].result = "fail"
      BY <2>1, <2>9, FailedElsewhere DEF SkipFailed
    <3>2. ~Succeeds(p)
      BY <2>1, <3>1, SameVerdict
    <3>3. Answered(p, in'[p][i])
      BY <2>9 DEF Answered
    <3>4. Current(p) \in Call
      BY <1>1, <3>3, AnsweredFacts
    <3>5. in'[p][i].result = "fail"
      BY <2>9, <3>4 DEF Call
    <3>6. QED
      BY <2>7, <3>2, <3>5
  <2>10. QED
    BY <1>4, <2>8, <2>9 DEF HandledNow
<1>5. QED
  BY <1>1, <1>3, <1>4, HandledBack

LEMMA AckedFailure ==
  ASSUME SafetyInv, InSendable, Moves, NEW r \in Proc, Performs(r), Acks(r),
         NEW m, m = Ack(r), m.result = "fail"
  PROVE  \E q \in Peer : \E j \in DOMAIN in'[q] :
           /\ Handled(q, j)' /\ Lasting(in[q][j])' /\ in'[q][j].result = "fail"
           /\ SameCall(m, in'[q][j])
<1>1. /\ Current(r) \in Call /\ ~Current(r).ack /\ inptr[r] \in DOMAIN in[r] /\ ~InIdle(r)
      /\ in'[r][inptr[r]] = Done(r) /\ inptr'[r] = inptr[r] + 1 /\ inptr[r] \in Nat
  BY PerformFacts, CurrentType, IndexFacts DEF Performs, SafetyInv, QueueInv
<1>2. r \in Peer
  BY <1>1 DEF InSendable, Destined, Current, Acks, Dest
<1>3. PICK n \in DOMAIN in[r] : n = inptr[r] /\ in[r][n] = Current(r)
  BY <1>1 DEF Current
<1>4. Received(r, n) /\ Lasting(in[r][n])
  BY <1>1, <1>3 DEF Received, Acks, Lasting, Durable
<1>5. Received(r, n)' /\ SameRequest(in[r][n], in'[r][n])
  BY <1>4, ReceivedKept
<1>6. Handled(r, n)' /\ Lasting(in[r][n])'
  BY <1>1, <1>3, <1>4, <1>5 DEF Handled, SameRequest, Lasting, IsReturn
<1>7. Ack(r).result = Ran(r).result /\ SameCall(Ack(r), Current(r))
  BY <1>1 DEF Ack, Entry, Ran, Call, SameCall
<1>8. Done(r).result = Ran(r).result /\ SameRequest(Current(r), Done(r))
  BY <1>1, NewEntryFacts, Zenon DEF Done, Ran, Call
<1>9. n \in DOMAIN in'[r] /\ in'[r][n].result = "fail" /\ SameCall(m, in'[r][n])
  BY <1>1, <1>3, <1>5, <1>7, <1>8 DEF Received, SameRequest, SameCall
<1>10. QED
  BY <1>2, <1>6, <1>9

LEMMA FailuresTrueNext ==
  ASSUME NEW S, MirrorInv(S), [Next]_vars
  PROVE  FailuresTrue'
<1> SUFFICES ASSUME NEW p \in Peer, NEW i \in DOMAIN in'[p],
                    in'[p][i].ack, in'[p][i].result = "fail"
             PROVE  \E q \in Peer : \E j \in DOMAIN in'[q] :
                      /\ Handled(q, j)' /\ Lasting(in[q][j])' /\ in'[q][j].result = "fail"
                      /\ SameCall(in'[p][i], in'[q][j])
  BY DEF FailuresTrue, SameCall
<1>1. /\ SafetyInv /\ InSendable /\ OutNumbered /\ InTransmitted /\ FailuresTrue
      /\ p \in Proc /\ TypeOK /\ QueueState /\ Moves
  BY MirrorFacts, NextMoves DEF Proc, SafetyInv, QueueInv
<1>2. QueueStep(p)
  BY <1>1, QueueEffect
<1>3. CASE i \in DOMAIN in[p]
  <2>1. in'[p][i] = in[p][i]
    BY <1>1, <1>2, <1>3, AnsweredFacts DEF QueueStep, OwnStepOf
  <2>2. PICK q \in Peer : \E j \in DOMAIN in[q] :
          /\ Handled(q, j) /\ Lasting(in[q][j]) /\ in[q][j].result = "fail"
          /\ SameCall(in[p][i], in[q][j])
    BY <1>1, <1>3, <2>1 DEF FailuresTrue
  <2>3. PICK j \in DOMAIN in[q] :
          /\ Handled(q, j) /\ Lasting(in[q][j]) /\ in[q][j].result = "fail"
          /\ SameCall(in[p][i], in[q][j])
    BY <2>2
  <2>4. Handled(q, j)' /\ in'[q][j] = in[q][j]
    BY <1>1, <2>3, HandledKept DEF Proc
  <2>5. QED
    BY <2>1, <2>3, <2>4 DEF Lasting, IsReturn, Handled, Received
<1>4. CASE i \notin DOMAIN in[p]
  <2>1. Added(p, in'[p][i])
    BY <1>2, <1>4 DEF QueueStep, OwnStepOf
  <2>2. ASSUME NEW r \in Proc, OutStep(r), in'[p][i] = Transmitted(r)
        PROVE  FALSE
    BY <1>1, <2>2, TransmittedNew
  <2>3. ASSUME NEW r \in Proc, Resume(r), in'[p][i] = Merged(r)
        PROVE  FALSE
    BY <1>1, <2>3, ResumeFacts, MergedFacts, ZenonT(40) DEF Resume
  <2>4. PICK r \in Proc : Execute(r) /\ Acks(r) /\ in'[p][i] = Ack(r)
    BY <2>1, <2>2, <2>3 DEF Added
  <2>5. QED
    BY <1>1, <2>4, ExecutePerforms, AckedFailure
<1>5. QED
  BY <1>3, <1>4

(* The peer that logs a call logs it where the others have, or before they *)
(* do.                                                                     *)
LEMMA NewEntryAgrees ==
  ASSUME NEW S, FateInv(S), Mirrored, Moves, NEW p \in Peer, NEW q \in Peer,
         Performs(p), Logs(p), NEW k \in DOMAIN rl[q], k = Len(rl[p]) + 1
  PROVE  SameRequest(rl[q][k], Entry(p))
<1>1. /\ SafetyInv /\ SafetyInv' /\ p \in Proc /\ q \in Proc /\ InSendable /\ OneOrder
      /\ EntriesAgreed' /\ OncePerCall /\ LogOrder
  BY FateFacts, EntriesAgreedNext, MovesSafe DEF Proc
<1>2. /\ inptr[p] \in DOMAIN in[p] /\ ~Current(p).ack /\ inptr[q] \in Nat /\ inptr[p] \in Nat
      /\ DOMAIN in[q] \subseteq Nat /\ DOMAIN in[p] \subseteq Nat
      /\ DOMAIN rl[p] = 1 .. Len(rl[p]) /\ Len(rl[p]) \in Nat /\ rl[p] \in Seq(Call)
      /\ DOMAIN rl[q] \subseteq Nat \ {0}
  <2>1. inptr[p] \in DOMAIN in[p] /\ ~Current(p).ack
    BY <1>1, PerformFacts DEF Performs
  <2>2. QED
    BY <1>1, <2>1, IndexFacts, SMTT(30)
<1>3. SameRequest(Current(p), Entry(p))
  BY <1>1, NewEntryFacts, PerformFacts
<1>4. Received(p, inptr[p]) /\ Lasting(Current(p))
  <2>1. rl'[p] = Append(rl[p], Entry(p)) /\ Entry(p) \in Call
    BY <1>1, PerformFacts DEF SafetyInv, QueueInv
  <2>2. k \in DOMAIN rl'[p] /\ rl'[p][k] = Entry(p)
    BY <1>2, <2>1
  <2>3. Entry(p).to = Group
    BY <1>1, <2>2 DEF EntriesAgreed
  <2>4. QED
    BY <1>2, <1>3, <2>3 DEF Received, Current, SameRequest, Logs, Durable, Lasting
<1>5. PICK j : Processed(q, k, j) /\ Handled(q, j) /\ SameRequest(rl[q][k], in[q][j])
  BY LoggedHandled
<1>6. j \in DOMAIN in[q] /\ j < inptr[q] /\ Received(q, j)
  BY <1>5 DEF Handled, Received
<1>7. \A l : Match(p, l, q, j) => l \in Nat
  BY <1>2 DEF Match, Received
<1>8. ASSUME NEW l, Match(p, l, q, j), l = inptr[p]
      PROVE  SameRequest(rl[q][k], Entry(p))
  <2>1. SameRequest(in[p][l], in[q][j])
    BY <1>1, <1>8, MatchFacts
  <2>2. QED
    BY <1>3, <1>5, <1>8, <2>1 DEF SameRequest, SameCall, Current
<1>9. ASSUME NEW l, Match(p, l, q, j)
      PROVE  ~(l < inptr[p])
  <2>1. l < inptr[p] => k \in DOMAIN rl[p]
    BY <1>5, <1>9, Transfer
  <2>2. QED
    BY <1>2, <2>1
<1>10. ASSUME NEW c, Match(p, inptr[p], q, c), c < j
       PROVE  FALSE
  <2>3. c \in DOMAIN in[q] /\ Handled(q, c)
    BY <1>2, <1>6, <1>10 DEF Match, Received, Handled
  <2>4. Lasting(in[q][c])
    <3>1. SameRequest(in[p][inptr[p]], in[q][c])
      BY <1>1, <1>10, MatchFacts
    <3>2. QED
      BY <1>4, <3>1 DEF Current, SameRequest, Lasting, IsReturn
  <2>5. in[q][c].result = "ok"
    BY <1>10, <2>3, <2>4, SameVerdict DEF Logs
  <2>6. PICK n \in DOMAIN rl[q] : Processed(q, n, c)
    BY <2>3, <2>4, <2>5, FateFacts DEF Fates
  <2>7. n < k
    <3>1. n # k
      <4>1. c # j
        BY <1>2, <1>6, <1>10, <2>3
      <4>2. QED
        BY <1>1, <1>5, <1>6, <2>3, <2>6, <4>1 DEF Processed, SafetyInv, ReceivedOnce, SameCall
    <3>2. k < n => j < c
      BY <1>1, <1>5, <1>6, <2>3, <2>6 DEF LogOrder
    <3>3. QED
      BY <1>2, <1>6, <1>10, <2>3, <3>1, <3>2
  <2>8. n \in DOMAIN rl[p]
    BY <1>2, <2>7
  <2>9. PICK x : Processed(p, n, x) /\ Handled(p, x)
    BY <2>8, LoggedHandled
  <2>10. SameCall(rl[p][n], rl[q][n])
    BY <2>6, <2>8, FateFacts DEF ReplayListsAgree
  <2>11. Match(p, x, p, inptr[p])
    BY <1>4, <1>10, <2>6, <2>9, <2>10 DEF Match, Handled, Processed, SameCall
  <2>12. x = inptr[p]
    BY <1>1, <2>11, MatchUnique
  <2>13. QED
    BY <1>2, <2>9, <2>12 DEF Handled
<1>11. CASE \E l : Match(p, l, q, j)
  <2>1. PICK l : Match(p, l, q, j)
    BY <1>11
  <2>2. l \in Nat
    BY <1>7, <2>1
  <2>3. CASE l > inptr[p]
    BY <1>1, <1>4, <1>10, <2>1, <2>3, MatchBefore
  <2>4. QED
    BY <1>2, <1>8, <1>9, <2>1, <2>2, <2>3
<1>12. CASE \E c : Match(p, inptr[p], q, c)
  <2>1. PICK c : Match(p, inptr[p], q, c)
    BY <1>12
  <2>2. c \in Nat
    BY <1>2, <2>1 DEF Match, Received
  <2>3. CASE c = j
    BY <1>8, <2>1, <2>3
  <2>4. CASE c > j
    <3>1. PICK l : Match(q, j, p, l) /\ l < inptr[p]
      BY <1>1, <1>6, <2>1, <2>4, MatchBefore, MatchSymmetric
    <3>2. QED
      BY <1>9, <3>1, MatchSymmetric
  <2>5. QED
    BY <1>2, <1>6, <1>10, <2>1, <2>2, <2>3, <2>4
<1>13. QED
  BY <1>1, <1>2, <1>4, <1>6, <1>11, <1>12 DEF OneOrder

LEMMA ReplayListsAgreeNext ==
  ASSUME NEW S, FateInv(S), Mirrored, Moves
  PROVE  ReplayListsAgree'
<1> SUFFICES ASSUME NEW p \in Peer, NEW q \in Peer,
                    NEW i \in DOMAIN rl'[p] \cap DOMAIN rl'[q]
             PROVE  SameRequest(rl'[p][i], rl'[q][i]) /\ rl'[p][i].innb = rl'[q][i].innb
  BY DEF ReplayListsAgree, SameRequest, SameCall
<1>1. SafetyInv /\ SafetyInv' /\ p \in Proc /\ q \in Proc /\ ReplayListsAgree
  BY FateFacts, MovesSafe DEF Proc
<1>2. rl'[p][i].innb = rl'[q][i].innb
  BY <1>1 DEF SafetyInv, RlNumbered
<1>3. ASSUME NEW r \in Peer, NEW s \in Peer, i \in DOMAIN rl'[r], i \notin DOMAIN rl[r],
             i \in DOMAIN rl[s]
      PROVE  SameRequest(rl'[s][i], rl'[r][i])
  <2>1. r \in Proc /\ s \in Proc
    BY DEF Proc
  <2>2. Performs(r) /\ Logs(r) /\ rl'[r][i] = Entry(r) /\ i = Len(rl[r]) + 1
    BY <1>1, <1>3, <2>1, MovesOf DEF RlGrowsOf
  <2>3. SameRequest(rl[s][i], Entry(r))
    BY <1>3, <2>2, NewEntryAgrees
  <2>4. SameEntry(rl[s][i], rl'[s][i])
    BY <1>1, <1>3, <2>1, RlMoves
  <2>5. QED
    BY <2>2, <2>3, <2>4 DEF SameEntry, SameRequest, SameCall
<1>4. CASE i \in DOMAIN rl[p] /\ i \in DOMAIN rl[q]
  <2>1. SameEntry(rl[p][i], rl'[p][i]) /\ SameEntry(rl[q][i], rl'[q][i])
    BY <1>1, <1>4, RlMoves
  <2>2. p \in Proc /\ rl[p][i].to = Group /\ rl[q][i].to = Group
    BY <1>1, <1>4, FateFacts DEF EntriesAgreed
  <2>3. SameCall(rl[p][i], rl[q][i]) /\ rl[p][i].func = rl[q][i].func /\ rl[p][i].ret = rl[q][i].ret
    BY <1>1, <1>4 DEF ReplayListsAgree
  <2>4. QED
    BY <1>2, <2>1, <2>2, <2>3 DEF SameEntry, SameRequest, SameCall
<1>5. CASE i \notin DOMAIN rl[p] /\ i \in DOMAIN rl[q]
  BY <1>2, <1>3, <1>5 DEF SameRequest, SameCall
<1>6. CASE i \in DOMAIN rl[p] /\ i \notin DOMAIN rl[q]
  BY <1>2, <1>3, <1>6
<1>7. CASE i \notin DOMAIN rl[p] /\ i \notin DOMAIN rl[q]
  <2>1. Performs(p) /\ Performs(q)
    BY <1>1, <1>7, MovesOf DEF RlGrowsOf
  <2>2. /\ inptr' = [inptr EXCEPT ![p] = @ + 1] /\ inptr' = [inptr EXCEPT ![q] = @ + 1]
        /\ inptr \in [Proc -> Nat \ {0}]
    BY <1>1, <2>1 DEF Performs, SafetyInv, QueueInv, TypeOK
  <2>3. p = q
    BY <1>1, <2>2
  <2>4. QED
    BY <1>2, <2>3 DEF SameRequest, SameCall
<1>8. QED
  BY <1>4, <1>5, <1>6, <1>7

LEMMA MirrorInvInit ==
  ASSUME NEW S, Servlets(S), Init
  PROVE  MirrorInv(S)
<1>1. ReplayInv(S)
  BY ReplayInvInit
<1>2. \A p \in Proc : in[p] = <<>> /\ rl[p] = <<>> /\ out[p] = <<>>
  BY DEF Init
<1>3. \A p \in Peer : p \in Proc
  BY DEF Proc
<1>4. OneOrder /\ OutNumbered /\ InTransmitted /\ SameOrder /\ LogOrder
  BY <1>2, <1>3 DEF OneOrder, OutNumbered, InTransmitted, SameOrder, LogOrder
<1>5. EntriesAgreed /\ Fates /\ SameFate /\ FailuresTrue /\ ReplayListsAgree
  BY <1>2, <1>3 DEF EntriesAgreed, Fates, SameFate, FailuresTrue, ReplayListsAgree
<1>6. QED
  BY <1>1, <1>4, <1>5 DEF MirrorInv, FateInv

LEMMA FateInvNext ==
  ASSUME NEW S, Servlets(S), Mirrored, FateInv(S), Moves,
         InSendable', OneOrder', FailuresTrue'
  PROVE  FateInv(S)'
<1>1. ReplayInv(S)'
  BY ReplayInvNext DEF FateInv
<1>2. LogOrder'
  BY FateFacts, LogOrderNext
<1>3. EntriesAgreed' /\ Fates' /\ SameFate' /\ ReplayListsAgree'
  BY EntriesAgreedNext, FatesNext, SameFateNext, ReplayListsAgreeNext
<1>4. QED
  BY <1>1, <1>2, <1>3 DEF FateInv

LEMMA MirrorInvNext ==
  ASSUME NEW S, Servlets(S), Mirrored, MirrorInv(S), [Next]_vars
  PROVE  MirrorInv(S)'
<1>1. SafetyInv /\ Moves /\ SafetyInv'
  BY MirrorFacts, NextMoves, SafetyInvNext
<1>2. OutNumbered' /\ InTransmitted' /\ SameOrder'
  BY <1>1, MirrorFacts, OutNumberedNext, InTransmittedNext, SameOrderNext
<1>3. OneOrder'
  BY <1>1, <1>2, SameIsOneOrderNext
<1>4. InSendable' /\ FailuresTrue'
  BY MirrorFacts, InSendableNext, FailuresTrueNext
<1>5. FateInv(S)'
  BY <1>1, <1>3, <1>4, MirrorFacts, FateInvNext
<1>6. QED
  BY <1>2, <1>5 DEF MirrorInv

(***************************************************************************)
(* The peers number the group's calls alike, whatever the order in which   *)
(* users, messages and acks interleave (MANUAL: the processes of a state   *)
(* channel remain exact mirrors of one another).                           *)
(***************************************************************************)
THEOREM MirrorsAgree ==
  ASSUME NEW S, Servlets(S), Mirrored
  PROVE  Spec => []ReplayListsAgree
<1>1. Init => MirrorInv(S)
  BY MirrorInvInit
<1>2. MirrorInv(S) /\ [Next]_vars => MirrorInv(S)'
  BY MirrorInvNext
<1>3. MirrorInv(S) => ReplayListsAgree
  BY MirrorFacts
<1>4. QED
  BY <1>1, <1>2, <1>3, PTL DEF Spec

-----------------------------------------------------------------------------
(* Nobody waits for ever. *)

LEMMA WaitFacts ==
  ASSUME NEW S, WaitInv(S)
  PROVE  /\ MirrorInv(S) /\ FateInv(S) /\ SafetyInv /\ SameOrder /\ OwnMark /\ AckDelivered
         /\ WaitsForLast /\ SettledBefore /\ PostedAcked /\ PostedInOrder
         /\ TypeOK /\ QueueState /\ ReplayListsAgree
BY MirrorFacts DEF WaitInv, SafetyInv, QueueInv

LEMMA NewProcessed ==
  ASSUME SafetyInv, NEW p \in Proc, Performs(p), Logs(p)
  PROVE  \E k \in DOMAIN rl'[p], i \in DOMAIN in'[p] :
           NewEntry(p, k, i) /\ Processed(p, k, i)' /\ inptr'[p] = inptr[p] + 1
<1>1. /\ inptr[p] \in Nat /\ Len(rl[p]) \in Nat /\ rl[p] \in Seq(Call) /\ in[p] \in Seq(Call)
      /\ TypeOK
  BY IndexFacts DEF SafetyInv, QueueInv
<1>2. PICK k \in Nat : k = Len(rl[p]) + 1
  BY <1>1
<1>3. PICK i \in Nat : i = inptr[p]
  BY <1>1
<1>4. /\ Entry(p) \in Call /\ rl'[p] = Append(rl[p], Entry(p))
      /\ inptr[p] \in DOMAIN in[p] /\ in'[p] = [in[p] EXCEPT ![inptr[p]] = Done(p)]
  BY <1>1, PerformFacts
<1>5. /\ k \in DOMAIN rl'[p] /\ rl'[p][k] = Entry(p)
      /\ i \in DOMAIN in'[p] /\ in'[p][i] = Done(p)
  BY <1>1, <1>2, <1>3, <1>4
<1>6. inptr'[p] = inptr[p] + 1
  BY <1>1 DEF Performs, TypeOK
<1>7. Done(p).innb = Len(rl[p]) /\ SameCall(Done(p), Entry(p))
  BY PerformFacts, NewEntryFacts DEF SameRequest, SameCall
<1>8. ~Done(p).ack
  BY AnsweredFacts DEF Answered
<1>9. Processed(p, k, i)'
  BY <1>1, <1>2, <1>3, <1>5, <1>6, <1>7, <1>8 DEF Processed
<1>10. QED
  BY <1>2, <1>3, <1>5, <1>6, <1>9 DEF NewEntry

LEMMA OwnMarkNext ==
  ASSUME SafetyInv, OwnMark, Moves
  PROVE  OwnMark'
<1> SUFFICES ASSUME NEW p \in Proc, NEW k \in DOMAIN rl'[p]
             PROVE  p \in rl'[p][k].sign
  BY DEF OwnMark
<1>1. CASE k \in DOMAIN rl[p]
  BY <1>1, RlMoves DEF SameEntry, OwnMark
<1>2. CASE k \notin DOMAIN rl[p]
  BY <1>2, MovesOf, EntryOf DEF RlGrowsOf
<1>3. QED
  BY <1>1, <1>2

LEMMA WaitsForLastNext ==
  ASSUME SafetyInv, WaitsForLast, Moves
  PROVE  WaitsForLast'
<1> SUFFICES ASSUME NEW p \in Proc, NEW c, c = cond'[p], c # 0,
                    NEW l, l = inptr'[p] - 1
             PROVE  inptr'[p] > 1 /\ Processed(p, c, l)'
  BY DEF WaitsForLast
<1>1. TypeOK /\ QueueState /\ inptr[p] \in Nat /\ inptr[p] > 0 /\ Len(rl[p]) \in Nat
  BY IndexFacts DEF SafetyInv, QueueInv
<1>2. CASE Performs(p)
  <2>1. cond[p] = 0 /\ cond \in [Proc -> Nat]
    BY <1>1, <1>2 DEF Performs, Ready, QueueState, TypeOK
  <2>2. Awaits(p) /\ c = Len(rl[p]) + 1
    BY <1>2, <2>1 DEF Performs
  <2>3. Logs(p)
    BY <1>1, <1>2, <2>2, PerformFacts
  <2>4. PICK k \in DOMAIN rl'[p], i \in DOMAIN in'[p] :
          NewEntry(p, k, i) /\ Processed(p, k, i)' /\ inptr'[p] = inptr[p] + 1
    BY <1>2, <2>3, NewProcessed
  <2>5. k = c /\ i = l
    BY <1>1, <2>2, <2>4 DEF NewEntry
  <2>6. QED
    BY <1>1, <2>4, <2>5
<1>3. CASE ~Performs(p)
  <2>1. cond'[p] = cond[p]
    <3>1. ~Resume(p)
      BY <1>1 DEF Resume, TypeOK
    <3>2. QED
      BY <1>1, <1>3, <3>1, MovesOf DEF CondStepOf, ResumeError
  <2>2. inptr'[p] = inptr[p]
    BY <1>1, <2>1, MovesOf DEF OwnStepOf, ReadAck, SkipFailed, Performs, Ready, QueueState
  <2>3. inptr[p] > 1 /\ Processed(p, c, l)
    BY <2>1, <2>2 DEF WaitsForLast
  <2>4. c \in DOMAIN rl[p] /\ l \in DOMAIN in[p]
    <3>1. c = Len(rl[p]) /\ l = inptr[p] - 1
      BY <1>1, <2>1, <2>2 DEF QueueState
    <3>2. QED
      BY <2>3, <3>1, <1>1, IndexFacts
  <2>5. Processed(p, c, l)'
    BY <2>3, <2>4, ProcessedKept
  <2>6. QED
    BY <2>2, <2>3, <2>5
<1>4. QED
  BY <1>2, <1>3

(* The peers that wait, wait for a call of the group. *)
LEMMA WaitersArePeers ==
  ASSUME SafetyInv, InSendable, EntryRequest, AwaitsGroup, NEW p \in Proc, cond[p] # 0
  PROVE  p \in Peer /\ cond[p] \in DOMAIN rl[p] /\ cond[p] = Len(rl[p])
<1>1. cond[p] = Len(rl[p]) /\ p \notin Master
  BY DEF SafetyInv, QueueInv, QueueState
<1>2. cond[p] \in DOMAIN rl[p]
  BY <1>1, IndexFacts
<1>3. Destined(p, rl[p][cond[p]]) /\ rl[p][cond[p]].to = Group
  BY <1>2, EntrySendable DEF AwaitsGroup
<1>4. QED
  BY <1>1, <1>2, <1>3 DEF Destined, Dest

LEMMA AckallKept ==
  ASSUME SafetyInv, Moves, NEW p \in Peer, NEW k \in DOMAIN rl[p], rl[p][k].ackall
  PROVE  k \in DOMAIN rl'[p] /\ rl'[p][k].ackall
<1>1. p \in Proc /\ p \notin Master
  BY ProcAssumption DEF Proc
<1>2. k \in DOMAIN rl'[p] /\ SameEntry(rl[p][k], rl'[p][k])
  BY <1>1, RlMoves
<1>3. Peer \subseteq rl[p][k].sign
  BY <1>1 DEF SafetyInv, MarkedByAll
<1>4. Peer \subseteq rl'[p][k].sign
  BY <1>2, <1>3 DEF SameEntry
<1>5. rl'[p][k] = rl[p][k] \/ RlMerged(p, k)
  BY <1>1, MovesOf DEF RlGrowsOf
<1>6. RlMerged(p, k) => rl'[p][k].ackall
  <2>1. SUFFICES ASSUME RlMerged(p, k)
                 PROVE  rl'[p][k].ackall
    OBVIOUS
  <2>2. cond[p] # 0 /\ AllAcks(p) /\ rl'[p][k] = Merged(p)
    BY <1>1, <2>1 DEF RlMerged, SafetyInv, QueueInv, QueueState
  <2>3. QED
    BY <1>1, <1>4, <2>2, MergedFacts
<1>7. QED
  BY <1>2, <1>5, <1>6

LEMMA SettledBeforeNext ==
  ASSUME NEW S, WaitInv(S), Mirrored, [Next]_vars
  PROVE  SettledBefore'
<1> SUFFICES ASSUME NEW p \in Peer, NEW k \in DOMAIN rl'[p], k # cond'[p]
             PROVE  rl'[p][k].ackall
  BY DEF SettledBefore
<1>1. /\ p \in Proc /\ p \notin Master /\ SafetyInv /\ TypeOK /\ QueueState
      /\ OwnMark /\ SettledBefore /\ MirrorInv(S)
  BY WaitFacts, ProcAssumption DEF Proc
<1>2. cond \in [Proc -> Nat]
  BY <1>1 DEF TypeOK
<1>3. CASE k \in DOMAIN rl[p] /\ k # cond[p]
  BY <1>1, <1>3, NextMoves, AckallKept DEF SettledBefore
<1>4. CASE k \in DOMAIN rl[p] /\ k = cond[p]
  <2>1. cond[p] # 0 /\ cond'[p] # cond[p] /\ state[p] = "Waiting"
    <3>1. k # 0
      BY <1>1, <1>4, IndexFacts
    <3>2. QED
      BY <1>1, <1>4, <3>1 DEF QueueState
  <2>2. Resume(p)
    BY <1>1, <2>1, OwnSteps DEF Execute, ResumeError, Ready
  <2>3. AllAcks(p) /\ rl'[p][k] = Merged(p)
    BY <1>1, <1>4, <2>2, ResumeFacts DEF Resume, TypeOK
  <2>4. Merged(p).ackall <=> Peer \subseteq Merged(p).sign
    BY <1>1, <2>1, <2>3, MergedFacts
  <2>5. SameEntry(rl[p][k], Merged(p)) /\ Merged(p).sign = rl[p][k].sign
          \cup UNION {in[p][FirstAck(p, q)].sign : q \in Peer \ {p}}
    <3>1. SameEntry(rl[p][k], Merged(p))
      BY <1>1, <1>4, <2>1, <2>3, MergedFacts
    <3>2. rl[p] \in Seq(Call)
      BY <1>1, IndexFacts
    <3>3. rl[p][k] \in Call
      BY <1>4, <3>2
    <3>4. QED
      BY <1>4, <3>1, <3>3 DEF Merged, Call
  <2>6. p \in Merged(p).sign
    BY <1>1, <1>4, <2>5 DEF OwnMark
  <2>7. ASSUME NEW q \in Peer \ {p}
        PROVE  q \in Merged(p).sign
    <3>1. q \in in[p][FirstAck(p, q)].sign
      BY <1>1, <2>3, FirstAckFacts
    <3>2. QED
      BY <2>5, <3>1
  <2>8. QED
    BY <2>3, <2>4, <2>6, <2>7
<1>5. CASE k \notin DOMAIN rl[p]
  <2>1. Execute(p) /\ Logs(p) /\ rl'[p][k] = Entry(p) /\ k = Len(rl[p]) + 1
    BY <1>1, <1>5, StepEffect DEF RlStepOf
  <2>2. Entry(p).to = Group
    BY <1>1, <2>1, MirrorFacts, NextMoves, EntriesAgreedNext DEF EntriesAgreed
  <2>3. Awaits(p)
    BY <1>1, <2>1, <2>2, NewEntryFacts DEF Execute, Ready, Awaits, Acks, Logs, SameRequest
  <2>4. cond'[p] = k
    BY <1>1, <1>2, <2>1, <2>3 DEF Execute
  <2>5. QED
    BY <2>4
<1>6. QED
  BY <1>3, <1>4, <1>5

LEMMA AckDeliveredNext ==
  ASSUME NEW S, WaitInv(S), Mirrored, [Next]_vars
  PROVE  AckDelivered'
<1> SUFFICES ASSUME NEW p \in Peer, NEW q \in Peer, NEW k \in DOMAIN rl'[q], p # q
             PROVE  \E i \in DOMAIN in'[p] :
                      /\ in'[p][i].ack /\ SameCall(in'[p][i], rl'[q][k])
                      /\ in'[p][i].innb = k - 1 /\ q \in in'[p][i].sign
                      /\ \A j \in DOMAIN in'[p] :
                           Received(p, j)' /\ SameCall(in'[p][j], rl'[q][k]) => j < i
  BY DEF AckDelivered, SameCall
<1>1. /\ p \in Proc /\ q \in Proc /\ SafetyInv /\ TypeOK /\ MirrorInv(S) /\ AckDelivered
      /\ OutNumbered /\ InTransmitted
  BY WaitFacts, MirrorFacts DEF Proc
<1>2. /\ in[p] \in Seq(Call) /\ Len(in[p]) \in Nat /\ DOMAIN in[p] = 1 .. Len(in[p])
      /\ Len(rl[q]) \in Nat
  BY <1>1, IndexFacts
<1>3. CASE k \in DOMAIN rl[q]
  <2>1. PICK i \in DOMAIN in[p] :
          /\ in[p][i].ack /\ SameCall(in[p][i], rl[q][k]) /\ in[p][i].innb = k - 1
          /\ q \in in[p][i].sign
          /\ \A j \in DOMAIN in[p] : Received(p, j) /\ SameCall(in[p][j], rl[q][k]) => j < i
    BY <1>1, <1>3 DEF AckDelivered
  <2>2. SameEntry(rl[q][k], rl'[q][k])
    BY <1>1, <1>3, RlKept
  <2>3. i \in DOMAIN in'[p] /\ in'[p][i] = in[p][i]
    BY <1>1, <2>1, StepEffect DEF InStepOf, InKept
  <2>4. ASSUME NEW j \in DOMAIN in'[p], Received(p, j)', SameCall(in'[p][j], rl'[q][k])
        PROVE  j < i
    <3>1. CASE Received(p, j) /\ SameRequest(in[p][j], in'[p][j])
      BY <2>1, <2>2, <2>4, <3>1 DEF SameRequest, SameEntry, SameCall, Received
    <3>2. CASE NewCallOf(p, j)
      <4>1. PICK r \in Proc : OutStep(r) /\ in'[p][j] = Transmitted(r)
        BY <3>2 DEF NewCallOf
      <4>2. PICK x \in DOMAIN in[q] : Processed(q, k, x)
        BY <1>1, <1>3 DEF SafetyInv, LoggedProcessed
      <4>3. ~Known(in[q], Transmitted(r))
        BY <1>1, <4>1, TransmittedNew
      <4>4. SameCall(in[q][x], in'[p][j])
        BY <2>2, <2>4, <4>2 DEF Processed, SameEntry, SameCall
      <4>5. QED
        BY <4>1, <4>3, <4>4 DEF Known, SameCall
    <3>3. QED
      BY <1>1, <2>4, <3>1, <3>2, ReceivedBack
  <2>5. QED
    BY <2>1, <2>2, <2>3, <2>4 DEF SameEntry, SameCall
<1>4. CASE k \notin DOMAIN rl[q]
  <2>1. Execute(q) /\ Logs(q) /\ rl'[q][k] = Entry(q) /\ k = Len(rl[q]) + 1
    BY <1>1, <1>4, StepEffect DEF RlStepOf
  <2>2. Entry(q).to = Group
    BY <2>1, <1>1, MirrorFacts, NextMoves, EntriesAgreedNext DEF EntriesAgreed
  <2>3. Acks(q)
    BY <1>1, <2>1, <2>2, NewEntryFacts, ProcAssumption DEF Execute, Ready, Acks, Logs, SameRequest
  <2>4. Ack(q) \in Call /\ in'[p] = Append(in[p], Ack(q)) /\ Entry(q) \in Call
    BY <1>1, <2>1, <2>3, ExecuteFacts, ExecuteCalls
  <2>5. PICK i \in Nat : i = Len(in[p]) + 1
    BY <1>2
  <2>6. i \in DOMAIN in'[p] /\ in'[p][i] = Ack(q) /\ \A j \in DOMAIN in'[p] : j # i => j < i
    BY <1>2, <2>4, <2>5
  <2>7. /\ Ack(q).ack /\ SameCall(Ack(q), Entry(q)) /\ Ack(q).innb = Entry(q).innb
        /\ Ack(q).sign = Entry(q).sign
    BY <2>1, <2>4 DEF Ack, Call, SameCall
  <2>8. q \in Entry(q).sign /\ Entry(q).innb = k - 1
    BY <1>1, <1>2, <2>1, EntryFacts
  <2>9. ~Received(p, i)'
    BY <2>6, <2>7 DEF Received
  <2>10. QED
    BY <2>1, <2>6, <2>7, <2>8, <2>9
<1>5. QED
  BY <1>3, <1>4

(* What is posted to the master is a settled entry of a peer.              *)
Post(m, i) ==
  \E r \in Peer : /\ Resume(r) /\ m \in CommitsTo(r) /\ in'[m][i] = Merged(r)
                  /\ ~Known(in[m], Merged(r)) /\ cond[r] = Len(rl[r])
                  /\ cond[r] \in DOMAIN rl[r]
                  /\ SameEntry(rl[r][cond[r]], Merged(r))
                  /\ rl'[r][cond[r]] = Merged(r)

LEMMA PostsBack ==
  ASSUME NEW S, WaitInv(S), [Next]_vars, NEW m \in Master, NEW i \in Posts(m)'
  PROVE  \/ i \in Posts(m) /\ SameRequest(in[m][i], in'[m][i])
         \/ i \notin DOMAIN in[m] /\ i = Len(in[m]) + 1 /\ Post(m, i)
<1> DEFINE n == in'[m][i]
<1>1. /\ m \in Proc /\ m \notin Peer /\ m # Group /\ SafetyInv /\ TypeOK /\ QueueState
  BY WaitFacts, ProcAssumption DEF Proc
<1>2. i \in DOMAIN in'[m] /\ ~n.ack /\ n.to = Group
  BY DEF Posts
<1>3. QueueStep(m)
  BY <1>1, QueueEffect
<1>4. CASE i \in DOMAIN in[m]
  <2>1. CASE n = in[m][i]
    BY <1>2, <1>4, <2>1 DEF Posts, SameRequest, SameCall
  <2>2. CASE n # in[m][i]
    <3>1. i = inptr[m] /\ Answered(m, n)
      BY <1>3, <1>4, <2>2 DEF QueueStep, OwnStepOf
    <3>2. ~in[m][i].ack /\ SameRequest(in[m][i], n)
      BY <1>1, <3>1, AnsweredFacts DEF Current
    <3>3. QED
      BY <1>2, <1>4, <3>2 DEF Posts, SameRequest
  <2>3. QED
    BY <2>1, <2>2
<1>5. CASE i \notin DOMAIN in[m]
  <2>1. i = Len(in[m]) + 1 /\ Added(m, n)
    BY <1>2, <1>3, <1>5 DEF QueueStep, OwnStepOf
  <2>2. ~(m \in Dest(n.to))
    BY <1>1, <1>2 DEF Dest
  <2>3. PICK r \in Proc : Resume(r) /\ m \in CommitsTo(r) /\ n = Merged(r)
    BY <1>1, <2>1, <2>2 DEF Added
  <2>4. cond[r] # 0 /\ AllAcks(r)
    BY <1>1, <2>3, ResumeFacts DEF Resume
  <2>5. r \in Peer /\ cond[r] = Len(rl[r]) /\ cond[r] \in DOMAIN rl[r]
    BY <2>4, WaitFacts, MirrorFacts, WaitersArePeers
  <2>6. SameEntry(rl[r][cond[r]], Merged(r))
    BY <1>1, <2>4, MergedFacts
  <2>7. rl'[r][cond[r]] = Merged(r)
    <3>1. rl' = [rl EXCEPT ![r] = [@ EXCEPT ![cond[r]] = Merged(r)]]
      BY <2>3 DEF Resume
    <3>2. rl \in [Proc -> Seq(Call)] /\ rl[r] \in Seq(Call)
      BY <1>1 DEF TypeOK
    <3>3. rl'[r] = [rl[r] EXCEPT ![cond[r]] = Merged(r)]
      BY <3>1, <3>2
    <3>4. QED
      BY <2>5, <3>2, <3>3
  <2>8. ~Known(in[m], Merged(r))
    <3>1. in'[m] = Posted(in[m], Merged(r))
      BY <1>1, <2>3 DEF Resume
    <3>2. in'[m] # in[m]
      BY <1>2, <1>5
    <3>3. QED
      BY <1>2, <2>3, <3>1, <3>2 DEF Posted
  <2>9. QED
    BY <1>5, <2>1, <2>3, <2>5, <2>6, <2>7, <2>8 DEF Post
<1>6. QED
  BY <1>4, <1>5

LEMMA PostedAckedNext ==
  ASSUME NEW S, WaitInv(S), [Next]_vars
  PROVE  PostedAcked'
<1> SUFFICES ASSUME NEW m \in Master, NEW i \in Posts(m)'
             PROVE  \E p \in Peer : \E k \in DOMAIN rl'[p] :
                      SameCall(rl'[p][k], in'[m][i]) /\ rl'[p][k].ackall
  BY DEF PostedAcked, SameCall
<1>1. SafetyInv /\ PostedAcked
  BY WaitFacts
<1>2. CASE i \in Posts(m) /\ SameRequest(in[m][i], in'[m][i])
  <2>1. PICK p \in Peer : \E k \in DOMAIN rl[p] : SameCall(rl[p][k], in[m][i]) /\ rl[p][k].ackall
    BY <1>1, <1>2 DEF PostedAcked
  <2>2. PICK k \in DOMAIN rl[p] : SameCall(rl[p][k], in[m][i]) /\ rl[p][k].ackall
    BY <2>1
  <2>3. k \in DOMAIN rl'[p] /\ rl'[p][k].ackall /\ SameEntry(rl[p][k], rl'[p][k])
    BY <1>1, <2>2, NextMoves, AckallKept, RlKept DEF Proc
  <2>4. QED
    BY <1>2, <2>2, <2>3 DEF SameRequest, SameEntry, SameCall
<1>3. CASE Post(m, i)
  <2>1. PICK r \in Peer : /\ m \in CommitsTo(r) /\ in'[m][i] = Merged(r)
                          /\ cond[r] \in DOMAIN rl[r] /\ rl'[r][cond[r]] = Merged(r)
    BY <1>3 DEF Post
  <2>2. Merged(r).ackall
    BY <2>1 DEF CommitsTo, Commits
  <2>3. cond[r] \in DOMAIN rl'[r]
    BY <1>1, <2>1, RlKept DEF Proc
  <2>4. QED
    BY <2>1, <2>2, <2>3 DEF SameCall
<1>4. QED
  BY <1>2, <1>3, PostsBack

(* A peer that posts a call has already logged all those posted before.    *)
LEMMA PostedEarlier ==
  ASSUME NEW S, WaitInv(S), NEW m \in Master, NEW j, Post(m, j), NEW i \in Posts(m),
         NEW p \in Peer, NEW k \in DOMAIN rl[p], NEW n \in DOMAIN rl[p],
         SameCall(rl[p][k], in[m][i]), SameCall(rl[p][n], in'[m][j])
  PROVE  k < n
<1>1. SafetyInv /\ ReplayListsAgree /\ SettledBefore /\ PostedAcked /\ QueueState
  BY WaitFacts
<1>2. PICK r \in Peer :
        /\ m \in CommitsTo(r) /\ in'[m][j] = Merged(r) /\ ~Known(in[m], Merged(r))
        /\ cond[r] = Len(rl[r]) /\ cond[r] \in DOMAIN rl[r]
        /\ SameEntry(rl[r][cond[r]], Merged(r))
  BY DEF Post
<1> DEFINE c == cond[r]
           e == rl[r][c]
<1>3. n = c
  <2>1. SameCall(rl[p][n], e)
    BY <1>2 DEF SameEntry, SameCall
  <2>2. QED
    BY <1>1, <1>2, <2>1, NumberUnique
<1>4. PICK q \in Peer : \E l \in DOMAIN rl[q] : SameCall(rl[q][l], in[m][i]) /\ rl[q][l].ackall
  BY <1>1 DEF PostedAcked
<1>5. PICK l \in DOMAIN rl[q] : SameCall(rl[q][l], in[m][i]) /\ rl[q][l].ackall
  BY <1>4
<1>6. k = l
  <2>1. SameCall(rl[p][k], rl[q][l])
    BY <1>5 DEF SameCall
  <2>2. QED
    BY <1>1, <2>1, NumberUnique
<1>7. q \in Proc /\ p \in Proc /\ r \in Proc
  BY DEF Proc
<1>8. /\ DOMAIN rl[q] = 1 .. Len(rl[q]) /\ Len(rl[q]) \in Nat
      /\ DOMAIN rl[r] = 1 .. Len(rl[r]) /\ Len(rl[r]) \in Nat
  BY <1>1, <1>7, IndexFacts
<1>9. i \in DOMAIN in[m]
  BY DEF Posts
<1>10. CASE l = c
  <2>1. SameCall(rl[p][k], rl[p][n])
    BY <1>3, <1>6, <1>10 DEF SameCall
  <2>2. SameCall(in[m][i], Merged(r))
    BY <1>2, <2>1 DEF SameCall
  <2>3. QED
    BY <1>2, <1>9, <2>2 DEF Known
<1>11. CASE c < l
  <2>1. c \in DOMAIN rl[q] /\ c # cond[q]
    <3>1. c \in DOMAIN rl[q]
      BY <1>2, <1>8, <1>11
    <3>2. cond[q] # 0 => cond[q] = Len(rl[q])
      BY <1>1, <1>7 DEF QueueState
    <3>3. QED
      BY <1>2, <1>8, <1>11, <3>1, <3>2
  <2>2. rl[q][c].ackall
    BY <1>1, <2>1 DEF SettledBefore
  <2>3. SameCall(rl[q][c], e) /\ rl[q][c].func = e.func /\ rl[q][c].ret = e.ret
    BY <1>1, <1>2, <2>1 DEF ReplayListsAgree
  <2>4. Commits(r, Merged(r))
    BY <1>2 DEF CommitsTo
  <2>5. ~IsReturn(rl[q][c]) /\ rl[q][c].func \in Committed
    BY <1>2, <2>3, <2>4 DEF Commits, SameEntry, IsReturn
  <2>6. Known(in[m], rl[q][c])
    BY <1>1, <2>1, <2>2, <2>5 DEF SafetyInv, CommittedReachMaster
  <2>7. Known(in[m], Merged(r))
    BY <1>2, <2>3, <2>6 DEF Known, SameEntry, SameCall
  <2>8. QED
    BY <1>2, <2>7
<1>12. QED
  BY <1>2, <1>3, <1>6, <1>8, <1>10, <1>11

LEMMA LoggedOnceNext == SafetyInv' => OncePerCall'
BY LoggedOnce, PTL

LEMMA PostedInOrderNext ==
  ASSUME NEW S, WaitInv(S), Mirrored, [Next]_vars
  PROVE  PostedInOrder'
<1> SUFFICES ASSUME NEW m \in Master, NEW i \in Posts(m)', NEW j \in Posts(m)', i < j,
                    NEW p \in Peer, NEW k \in DOMAIN rl'[p], NEW n \in DOMAIN rl'[p],
                    SameCall(rl'[p][k], in'[m][i]), SameCall(rl'[p][n], in'[m][j])
             PROVE  k < n
  BY DEF PostedInOrder, SameCall
<1>1. /\ p \in Proc /\ m \in Proc /\ SafetyInv /\ SafetyInv' /\ ReplayListsAgree'
      /\ MirrorInv(S) /\ PostedInOrder /\ PostedAcked
  BY WaitFacts, SafetyInvNext, NextMoves, ReplayListsAgreeNext DEF Proc
<1>2. /\ DOMAIN rl[p] = 1 .. Len(rl[p]) /\ Len(rl[p]) \in Nat
      /\ DOMAIN in[m] = 1 .. Len(in[m]) /\ Len(in[m]) \in Nat
  BY <1>1, IndexFacts
<1>3. \A x \in DOMAIN rl[p] : x \in DOMAIN rl'[p] /\ SameCall(rl[p][x], rl'[p][x])
  BY <1>1, RlKept DEF SameEntry
<1>4. \A x \in DOMAIN rl'[p] : x \in DOMAIN rl[p] \/ (x = Len(rl[p]) + 1 /\ Execute(p))
  BY <1>1, StepEffect DEF RlStepOf
<1>5. k # n
  <2>1. SUFFICES ASSUME k = n
                 PROVE  i = j
    BY <1>2, PostsBack DEF Posts
  <2>2. SameCall(in'[m][i], in'[m][j])
    BY <2>1 DEF SameCall
  <2>3. QED
    BY <1>1, <2>2 DEF SafetyInv, ReceivedOnce, Posts
<1>6. i \in Posts(m) /\ SameRequest(in[m][i], in'[m][i])
  <2>1. CASE i = Len(in[m]) + 1
    BY <1>2, <2>1, PostsBack DEF Posts
  <2>2. QED
    BY <2>1, PostsBack
<1>7. CASE j \in Posts(m) /\ SameRequest(in[m][j], in'[m][j])
  <2>1. CASE k \in DOMAIN rl[p] /\ n \in DOMAIN rl[p]
    BY <1>1, <1>3, <1>6, <1>7, <2>1 DEF PostedInOrder, SameRequest, SameCall
  <2>2. CASE k \in DOMAIN rl[p] /\ n \notin DOMAIN rl[p]
    BY <1>2, <1>4, <2>2
  <2>3. CASE k \notin DOMAIN rl[p]
    <3>1. k = Len(rl[p]) + 1 /\ Execute(p) /\ n \in DOMAIN rl[p]
      BY <1>4, <1>5, <2>3
    <3>2. PICK q \in Peer : \E l \in DOMAIN rl[q] : SameCall(rl[q][l], in[m][i])
      BY <1>1, <1>6 DEF PostedAcked
    <3>3. PICK l \in DOMAIN rl[q] : SameCall(rl[q][l], in[m][i])
      BY <3>2
    <3>4. l \in DOMAIN rl'[q] /\ SameCall(rl[q][l], rl'[q][l])
      BY <1>1, <3>3, RlKept DEF Proc, SameEntry
    <3>5. SameCall(rl'[p][k], rl'[q][l])
      BY <1>6, <3>3, <3>4 DEF SameRequest, SameCall
    <3>6. k = l
      <4>1. \A r, s \in Peer : \A x \in DOMAIN rl'[r] \cap DOMAIN rl'[s] : SameCall(rl'[r][x], rl'[s][x])
        BY <1>1 DEF ReplayListsAgree, SameCall
      <4>2. rl'[p] \in Seq(Call) /\ rl'[q] \in Seq(Call)
        BY <1>1 DEF SafetyInv, QueueInv, TypeOK, Proc
      <4>3. \A r \in Proc : \A x, y \in DOMAIN rl'[r] : SameCall(rl'[r][x], rl'[r][y]) => x = y
        <5>1. OncePerCall'
          BY <1>1, LoggedOnceNext
        <5>2. QED
          BY <5>1 DEF OncePerCall, SameCall
      <4>4. k \in DOMAIN rl'[q] \/ l \in DOMAIN rl'[p]
        BY <3>4, <4>2
      <4>5. CASE k \in DOMAIN rl'[q]
        BY <3>4, <3>5, <4>1, <4>3, <4>5 DEF SameCall, Proc
      <4>6. CASE l \in DOMAIN rl'[p]
        BY <1>1, <3>4, <3>5, <4>1, <4>3, <4>6 DEF SameCall
      <4>7. QED
        BY <4>4, <4>5, <4>6
    <3>7. q \in Proc /\ DOMAIN rl[q] = 1 .. Len(rl[q]) /\ Len(rl[q]) \in Nat
      BY <1>1, IndexFacts DEF Proc
    <3>8. n \in DOMAIN rl[q]
      BY <1>2, <3>1, <3>3, <3>6, <3>7
    <3>9. SameCall(rl[p][n], rl[q][n])
      BY <1>1, <3>1, <3>8, MirrorFacts DEF ReplayListsAgree
    <3>10. SameCall(rl[q][n], in[m][j])
      BY <1>3, <1>7, <3>1, <3>9 DEF SameRequest, SameCall
    <3>11. l < n
      BY <1>1, <1>6, <1>7, <3>3, <3>8, <3>10 DEF PostedInOrder
    <3>12. QED
      BY <3>6, <3>11
  <2>4. QED
    BY <2>1, <2>2, <2>3
<1>8. CASE Post(m, j)
  <2>1. ~Execute(p)
    <3>1. PICK r \in Peer : Resume(r)
      BY <1>8 DEF Post
    <3>2. inptr' = inptr
      BY <3>1 DEF Resume
    <3>3. inptr[p] \in Nat /\ inptr \in [Proc -> Nat \ {0}]
      BY <1>1 DEF SafetyInv, QueueInv, TypeOK
    <3>4. Execute(p) => inptr'[p] = inptr[p] + 1
      BY <1>1, <3>3 DEF Execute, Consume
    <3>5. QED
      BY <3>2, <3>3, <3>4
  <2>2. k \in DOMAIN rl[p] /\ n \in DOMAIN rl[p]
    BY <1>4, <2>1
  <2>3. SameCall(rl[p][k], in[m][i]) /\ SameCall(rl[p][n], in'[m][j])
    BY <1>3, <1>6, <2>2 DEF SameRequest, SameCall
  <2>4. QED
    BY <1>6, <1>8, <2>2, <2>3, PostedEarlier
<1>9. QED
  BY <1>7, <1>8, PostsBack

LEMMA WaitInvInit ==
  ASSUME NEW S, Servlets(S), Init
  PROVE  WaitInv(S)
<1>1. MirrorInv(S)
  BY MirrorInvInit
<1>2. \A p \in Proc : in[p] = <<>> /\ rl[p] = <<>> /\ cond[p] = 0
  BY DEF Init
<1>3. Peer \subseteq Proc /\ Master \subseteq Proc
  BY DEF Proc
<1>4. OwnMark /\ AckDelivered /\ WaitsForLast /\ SettledBefore
  BY <1>2, <1>3 DEF OwnMark, AckDelivered, WaitsForLast, SettledBefore
<1>5. \A m \in Master : Posts(m) = {}
  BY <1>2, <1>3 DEF Posts
<1>6. PostedAcked /\ PostedInOrder
  BY <1>5 DEF PostedAcked, PostedInOrder
<1>7. QED
  BY <1>1, <1>4, <1>6 DEF WaitInv

LEMMA WaitInvNext ==
  ASSUME NEW S, Servlets(S), Mirrored, WaitInv(S), [Next]_vars
  PROVE  WaitInv(S)'
<1>1. MirrorInv(S)'
  BY WaitFacts, MirrorInvNext
<1>2. OwnMark' /\ WaitsForLast'
  BY WaitFacts, NextMoves, OwnMarkNext, WaitsForLastNext
<1>3. AckDelivered' /\ SettledBefore' /\ PostedAcked' /\ PostedInOrder'
  BY AckDeliveredNext, SettledBeforeNext, PostedAckedNext, PostedInOrderNext
<1>4. QED
  BY <1>1, <1>2, <1>3 DEF WaitInv

LEMMA WaitInvHolds ==
  ASSUME NEW S, Servlets(S), Mirrored
  PROVE  Spec => []WaitInv(S)
<1>1. Init => WaitInv(S)
  BY WaitInvInit
<1>2. WaitInv(S) /\ [Next]_vars => WaitInv(S)'
  BY WaitInvNext
<1>3. QED
  BY <1>1, <1>2, PTL DEF Spec

(* Of the peers that wait, the one with the shortest replay list has all   *)
(* the acks it needs as soon as the others have nothing left to process.   *)
LEMMA LaggardAcked ==
  ASSUME NEW S, FateInv(S), AckDelivered, WaitsForLast, AllMatched, NEW p \in Peer, cond[p] # 0,
         NEW q \in Peer \ {p},
         (cond[q] # 0 /\ Len(rl[p]) <= Len(rl[q])) \/ InIdle(q)
  PROVE  AcksOf(p, q) # {}
<1>1. /\ p \in Proc /\ q \in Proc /\ SafetyInv /\ AckDelivered
      /\ WaitsForLast /\ ReplayListsAgree
  BY FateFacts DEF Proc
<1>2. /\ DOMAIN in[p] = 1 .. Len(in[p]) /\ Len(in[p]) \in Nat
      /\ DOMAIN rl[p] = 1 .. Len(rl[p]) /\ Len(rl[p]) \in Nat
      /\ DOMAIN rl[q] = 1 .. Len(rl[q]) /\ Len(rl[q]) \in Nat
      /\ DOMAIN in[q] = 1 .. Len(in[q]) /\ Len(in[q]) \in Nat
      /\ inptr[p] \in Nat /\ inptr[q] \in Nat
  BY <1>1, IndexFacts
<1>3. cond[p] \in DOMAIN rl[p] /\ cond[p] = Len(rl[p])
  BY <1>1, FateFacts, WaitersArePeers
<1> DEFINE c == cond[p]
           l == inptr[p] - 1
<1>4. inptr[p] > 1 /\ Processed(p, c, l) /\ l \in DOMAIN in[p]
  BY <1>1, <1>2, IndexFacts DEF WaitsForLast
<1>5. Received(p, l)
  <2>1. SameRequest(rl[p][c], in[p][l]) /\ rl[p][c].to = Group
    BY <1>1, <1>3, <1>4, FateFacts DEF EntryRequest, AwaitsGroup
  <2>2. QED
    BY <1>4, <2>1 DEF Received, Processed, SameRequest
<1>6. c \in DOMAIN rl[q]
  <2>1. CASE cond[q] # 0 /\ Len(rl[p]) <= Len(rl[q])
    BY <1>2, <1>3, <2>1
  <2>2. CASE InIdle(q)
    <3>1. PICK j : Match(p, l, q, j)
      BY <1>1, <1>5 DEF AllMatched
    <3>2. j < inptr[q]
      BY <1>2, <2>2, <3>1 DEF InIdle, Match, Received
    <3>3. Match(q, j, p, l)
      BY <3>1, MatchSymmetric
    <3>4. c \in DOMAIN rl[p] /\ q \in Peer
      BY <1>3
    <3> HIDE DEF c, l
    <3>5. QED
      BY <1>1, <1>4, <3>2, <3>3, <3>4, Transfer
  <2>3. QED
    BY <2>1, <2>2
<1>7. SameCall(rl[p][c], rl[q][c])
  BY <1>1, <1>3, <1>6 DEF ReplayListsAgree
<1>8. PICK i \in DOMAIN in[p] :
        /\ in[p][i].ack /\ SameCall(in[p][i], rl[q][c]) /\ in[p][i].innb = c - 1
        /\ q \in in[p][i].sign
        /\ \A j \in DOMAIN in[p] : Received(p, j) /\ SameCall(in[p][j], rl[q][c]) => j < i
  BY <1>1, <1>6 DEF AckDelivered
<1>9. l < i
  BY <1>4, <1>5, <1>7, <1>8 DEF Processed, SameCall
<1>10. rl[p][c].innb = c - 1
  BY <1>1, <1>3 DEF SafetyInv, RlNumbered
<1>11. i \in AcksOf(p, q)
  BY <1>2, <1>7, <1>8, <1>9, <1>10 DEF AcksOf, SameCall
<1>12. QED
  BY <1>11

LEMMA WaitersAcked ==
  ASSUME NEW S, FateInv(S), AckDelivered, WaitsForLast, AllMatched,
         \A p \in Proc : Stuck(p), NEW w \in Proc, cond[w] # 0
  PROVE  \E p \in Peer : cond[p] # 0 /\ \A q \in Peer \ {p} : AcksOf(p, q) # {}
<1>1. /\ SafetyInv /\ TypeOK /\ QueueState /\ InSendable /\ EntryRequest /\ AwaitsGroup
  BY FateFacts DEF SafetyInv, QueueInv
<1>2. \A p \in Proc : cond[p] # 0 \/ InIdle(p)
  BY <1>1 DEF Stuck, QueueState
<1>3. \A p \in Proc : cond[p] # 0 => p \in Peer /\ Len(rl[p]) \in Nat
  BY <1>1, WaitersArePeers, IndexFacts
<1> DEFINE W == {Len(rl[p]) : p \in {q \in Peer : cond[q] # 0}}
<1>4. Peer \subseteq Proc
  BY DEF Proc
<1>5. W \in SUBSET Nat /\ W # {}
  BY <1>3, <1>4
<1>6. PICK n \in W : \A k \in W : n <= k
  <2> HIDE DEF W
  <2>1. QED
    BY <1>5, LeastExists
<1>7. PICK p \in Peer : cond[p] # 0 /\ Len(rl[p]) = n
  BY <1>6
<1>8. ASSUME NEW q \in Peer \ {p}
      PROVE  AcksOf(p, q) # {}
  <2>1. q \in Proc
    BY <1>4
  <2>2. cond[q] # 0 => Len(rl[p]) <= Len(rl[q])
    BY <1>6, <1>7
  <2>3. (cond[q] # 0 /\ Len(rl[p]) <= Len(rl[q])) \/ InIdle(q)
    BY <1>2, <2>1, <2>2
  <2>4. QED
    BY <1>7, <2>3, LaggardAcked
<1>9. QED
  BY <1>7, <1>8

(* Its acks are in its IN, after INPTR: it can go on. *)
LEMMA AckedNotIdle ==
  ASSUME SafetyInv, NEW p \in Proc, NEW q, AcksOf(p, q) # {}
  PROVE  ~InIdle(p)
<1>1. PICK i \in inptr[p] .. Len(in[p]) : TRUE
  BY DEF AcksOf
<1>2. inptr[p] \in Nat /\ Len(in[p]) \in Nat
  BY IndexFacts
<1>3. QED
  BY <1>1, <1>2 DEF InIdle

(* When all are stuck, all have processed what they have received.         *)
LEMMA StuckAreIdle ==
  ASSUME NEW S, FateInv(S), AckDelivered, WaitsForLast, AllMatched, \A p \in Proc : Stuck(p)
  PROVE  \A p \in Proc : InIdle(p)
<1>1. /\ SafetyInv /\ TypeOK /\ QueueState /\ InSendable /\ EntryRequest /\ AwaitsGroup
  BY FateFacts DEF SafetyInv, QueueInv
<1> SUFFICES ASSUME NEW w \in Proc, ~InIdle(w)
             PROVE  FALSE
  OBVIOUS
<1>2. cond[w] # 0 /\ ~AllAcks(w)
  BY <1>1 DEF Stuck, QueueState
<1>3. w \in Peer
  BY <1>1, <1>2, WaitersArePeers
<1>4. PICK p \in Peer : cond[p] # 0 /\ \A q \in Peer \ {p} : AcksOf(p, q) # {}
  BY <1>2, WaitersAcked
<1>5. p \in Proc /\ InIdle(p)
  BY <1>4 DEF Stuck, AllAcks, Proc
<1>6. w \in Peer \ {p}
  BY <1>3, <1>5
<1>7. QED
  BY <1>1, <1>4, <1>5, <1>6, AckedNotIdle

LEMMA WaitersProceed ==
  ASSUME NEW S, WaitInv(S), \A p \in Peer : Peer # {p}
  PROVE  NoDeadlock
<1> SUFFICES ASSUME \A p \in Proc : Stuck(p), NEW w \in Proc, state[w] # "Idle"
             PROVE  FALSE
  BY DEF NoDeadlock
<1>1. /\ FateInv(S) /\ AckDelivered /\ WaitsForLast /\ SameOrder /\ SafetyInv /\ QueueState
  BY WaitFacts
<1>2. AllMatched
  BY <1>1, MatchExists DEF AllMatched
<1>3. \A p \in Proc : InIdle(p)
  BY <1>1, <1>2, StuckAreIdle
<1>4. cond[w] # 0
  BY <1>1, <1>3 DEF Stuck, QueueState
<1>5. PICK p \in Peer : cond[p] # 0 /\ \A q \in Peer \ {p} : AcksOf(p, q) # {}
  BY <1>1, <1>2, <1>4, WaitersAcked
<1>6. PICK q \in Peer \ {p} : TRUE
  OBVIOUS
<1>7. p \in Proc /\ AcksOf(p, q) # {}
  BY <1>5 DEF Proc
<1>8. QED
  BY <1>1, <1>3, <1>7, AckedNotIdle

(***************************************************************************)
(* Peers that wait for each other's acks are never all stuck: there is     *)
(* always one whose acks have come, or are to be transmitted or made, when *)
(* the group has a second peer.                                            *)
(***************************************************************************)
THEOREM NobodyWaitsForEver ==
  ASSUME NEW S, Servlets(S), Mirrored, \A p \in Peer : Peer # {p}
  PROVE  Spec => []NoDeadlock
<1>1. WaitInv(S) => NoDeadlock
  BY WaitersProceed
<1>2. Spec => []WaitInv(S)
  BY WaitInvHolds
<1>3. QED
  BY <1>1, <1>2, PTL

LEMMA PostsInOrder ==
  ASSUME NEW S, WaitInv(S)
  PROVE  CommittedInOrder
<1> SUFFICES ASSUME NEW m \in Master, NEW i \in DOMAIN rl[m], rl[m][i].to = Group
             PROVE  /\ \E p \in Peer : \E n \in DOMAIN rl[p] :
                         SameCall(rl[p][n], rl[m][i]) /\ rl[p][n].ackall
                    /\ \A j \in 1 .. i - 1 : rl[m][j].to = Group =>
                         \A p \in Peer : \A k, n \in DOMAIN rl[p] :
                           SameCall(rl[p][k], rl[m][j]) /\ SameCall(rl[p][n], rl[m][i]) => k < n
  BY DEF CommittedInOrder
<1>1. /\ m \in Proc /\ SafetyInv /\ EntryRequest /\ LogOrder /\ PostedAcked /\ PostedInOrder
  BY WaitFacts, MirrorFacts DEF Proc
<1>2. ASSUME NEW j \in DOMAIN rl[m], rl[m][j].to = Group
      PROVE  \E x \in Posts(m) : Processed(m, j, x)
  <2>1. PICK x \in DOMAIN in[m] : Processed(m, j, x)
    BY <1>1 DEF SafetyInv, LoggedProcessed
  <2>2. SameRequest(rl[m][j], in[m][x])
    BY <1>1, <2>1 DEF EntryRequest
  <2>3. QED
    BY <1>2, <2>1, <2>2 DEF Posts, Processed, SameRequest
<1>3. PICK x \in Posts(m) : Processed(m, i, x)
  BY <1>2
<1>4. \E p \in Peer : \E n \in DOMAIN rl[p] : SameCall(rl[p][n], rl[m][i]) /\ rl[p][n].ackall
  <2>1. PICK p \in Peer : \E n \in DOMAIN rl[p] : SameCall(rl[p][n], in[m][x]) /\ rl[p][n].ackall
    BY <1>1 DEF PostedAcked
  <2>2. QED
    BY <1>3, <2>1 DEF Processed, SameCall
<1>5. ASSUME NEW j \in 1 .. i - 1, rl[m][j].to = Group,
             NEW p \in Peer, NEW k \in DOMAIN rl[p], NEW n \in DOMAIN rl[p],
             SameCall(rl[p][k], rl[m][j]), SameCall(rl[p][n], rl[m][i])
      PROVE  k < n
  <2>1. j \in DOMAIN rl[m] /\ j < i
    BY <1>1, IndexFacts
  <2>2. PICK y \in Posts(m) : Processed(m, j, y)
    BY <1>2, <1>5, <2>1
  <2>3. y < x
    BY <1>1, <1>3, <2>1, <2>2 DEF LogOrder, Posts
  <2>4. SameCall(rl[p][k], in[m][y]) /\ SameCall(rl[p][n], in[m][x])
    BY <1>3, <1>5, <2>2 DEF Processed, SameCall
  <2>5. QED
    BY <1>1, <2>3, <2>4 DEF PostedInOrder
<1>6. QED
  BY <1>4, <1>5

(***************************************************************************)
(* The master executes a committed call only after some peer has it acked  *)
(* by all, and executes these calls in the peers' order, whichever peer    *)
(* posts each of them.                                                     *)
(***************************************************************************)
THEOREM MasterInOrder ==
  ASSUME NEW S, Servlets(S), Mirrored
  PROVE  Spec => []CommittedInOrder
<1>1. WaitInv(S) => CommittedInOrder
  BY PostsInOrder
<1>2. Spec => []WaitInv(S)
  BY WaitInvHolds
<1>3. QED
  BY <1>1, <1>2, PTL

-----------------------------------------------------------------------------
(* The implementation of CallLog. *)

LEMMA AskedForKept ==
  ASSUME Moves, NEW m, NEW n, SameRequest(m, n), m.from \in Proc, AskedFor(m)
  PROVE  AskedFor(n)'
<1>1. PICK k \in DOMAIN out[m.from] : SameRequest(out[m.from][k], m)
  BY DEF AskedFor
<1>2. k \in DOMAIN out'[m.from] /\ SameRequest(out[m.from][k], out'[m.from][k])
  BY <1>1, MovesOf DEF OutStepOf
<1>3. n.from = m.from
  BY DEF SameRequest, SameCall
<1>4. QED
  BY <1>1, <1>2, <1>3, ZenonT(40) DEF AskedFor, SameRequest, SameCall

LEMMA InAskedNext ==
  ASSUME SafetyInv, InAsked, EntryRequest, [Next]_vars
  PROVE  InAsked'
<1> SUFFICES ASSUME NEW p \in Proc, NEW i \in DOMAIN in'[p], NEW n, n = in'[p][i], ~n.ack
             PROVE  AskedFor(n)'
  BY DEF InAsked, AskedFor
<1>1. TypeOK /\ QueueState
  BY DEF SafetyInv, QueueInv
<1>2. \E m : SameRequest(m, n) /\ m.from \in Proc /\ AskedFor(m)
  <2>1. ASSUME NEW r \in Proc, NEW j \in DOMAIN in[r], ~in[r][j].ack, SameRequest(in[r][j], n)
        PROVE  \E m : SameRequest(m, n) /\ m.from \in Proc /\ AskedFor(m)
    <3>1. in[r][j] \in Call
      BY <2>1, IndexFacts
    <3>2. in[r][j].from \in Proc /\ AskedFor(in[r][j])
      BY <2>1, <3>1 DEF InAsked, Call
    <3>3. QED
      BY <2>1, <3>2
  <2>2. QueueStep(p)
    BY QueueEffect
  <2>3. CASE i \in DOMAIN in[p]
    <3>1. CASE n = in[p][i]
      BY <2>1, <2>3, <3>1 DEF SameRequest, SameCall
    <3>2. CASE n # in[p][i]
      <4>1. i = inptr[p] /\ Answered(p, n)
        BY <2>2, <2>3, <3>2 DEF QueueStep, OwnStepOf
      <4>2. ~in[p][i].ack /\ SameRequest(in[p][i], n)
        BY <4>1, AnsweredFacts DEF Current
      <4>3. QED
        BY <2>1, <2>3, <4>2
    <3>3. QED
      BY <3>1, <3>2
  <2>4. CASE i \notin DOMAIN in[p]
    <3>1. Added(p, n)
      BY <2>2, <2>4 DEF QueueStep, OwnStepOf
    <3>2. ASSUME NEW r \in Proc, OutStep(r), n = Transmitted(r)
          PROVE  \E m : SameRequest(m, n) /\ m.from \in Proc /\ AskedFor(m)
      <4> DEFINE m == out[r][outptr[r]]
      <4>1. outptr[r] \in DOMAIN out[r] /\ SameRequest(m, n)
        BY <1>1, <3>2, TransmittedFacts
      <4>2. m.from = r
        BY <4>1 DEF SafetyInv, OutFresh
      <4>3. AskedFor(m)
        BY <4>1, <4>2 DEF AskedFor, SameRequest, SameCall
      <4>4. QED
        BY <4>1, <4>2, <4>3
    <3>3. ASSUME NEW r \in Proc, Execute(r), n = Ack(r)
          PROVE  FALSE
      <4>1. Entry(r) \in Call /\ Current(r) \in Call
        BY <1>1, <3>3, ExecuteCalls, EntryFacts DEF Execute, Ready
      <4>2. Ran(r) \in Call
        BY <4>1 DEF Ran, Call
      <4>3. Ack(r).ack
        BY <4>1, <4>2 DEF Ack, Call
      <4>4. QED
        BY <3>3, <4>3
    <3>4. ASSUME NEW r \in Proc, Resume(r), n = Merged(r)
          PROVE  \E m : SameRequest(m, n) /\ m.from \in Proc /\ AskedFor(m)
      <4>1. cond[r] # 0 /\ AllAcks(r)
        BY <1>1, <3>4, ResumeFacts DEF Resume
      <4>2. cond[r] \in DOMAIN rl[r] /\ SameEntry(rl[r][cond[r]], n)
        BY <3>4, <4>1, MergedFacts
      <4>3. PICK j \in DOMAIN in[r] : Processed(r, cond[r], j)
        BY <4>2 DEF SafetyInv, LoggedProcessed
      <4>4. SameRequest(rl[r][cond[r]], in[r][j]) /\ ~in[r][j].ack
        BY <4>2, <4>3 DEF EntryRequest, Processed
      <4>5. SameRequest(in[r][j], n)
        BY <4>2, <4>4 DEF SameEntry, SameRequest, SameCall
      <4>6. QED
        BY <2>1, <4>4, <4>5
    <3>5. QED
      BY <3>1, <3>2, <3>3, <3>4 DEF Added
  <2>5. QED
    BY <2>3, <2>4
<1>3. QED
  BY <1>2, NextMoves, AskedForKept

LEMMA UnnumberedNext ==
  ASSUME SafetyInv, OutNumbered, InTransmitted, Unnumbered, [Next]_vars
  PROVE  Unnumbered'
<1>1. ASSUME NEW p \in Proc, NEW i \in DOMAIN out'[p]
      PROVE  out'[p][i].innb = NoNb
  BY <1>1, OutEffect DEF OutStepOf, Sent, Unnumbered
<1>2. ASSUME NEW p \in Peer, NEW i \in DOMAIN in'[p], ~in'[p][i].ack, i >= inptr'[p]
      PROVE  in'[p][i].innb = NoNb
  <2>1. p \in Proc /\ p \notin Master
    BY ProcAssumption DEF Proc
  <2>2. /\ inptr[p] \in Nat /\ DOMAIN in[p] = 1 .. Len(in[p]) /\ Len(in[p]) \in Nat
        /\ QueueStep(p)
    BY <2>1, IndexFacts, QueueEffect
  <2>3. CASE i \in DOMAIN in[p]
    <3>1. i >= inptr[p]
      BY <1>2, <2>2, <2>3 DEF QueueStep, OwnStepOf
    <3>2. in'[p][i] = in[p][i]
      <4>1. SUFFICES ASSUME i = inptr[p], Answered(p, in'[p][i])
                     PROVE  FALSE
        BY <2>2, <2>3 DEF QueueStep, OwnStepOf
      <4>2. inptr'[p] = inptr[p] + 1
        BY <2>1, <4>1 DEF Answered, Performs, SkipFailed, Consume, SafetyInv, QueueInv, TypeOK
      <4>3. QED
        BY <1>2, <2>2, <4>1, <4>2
    <3>3. QED
      BY <1>2, <2>3, <3>1, <3>2 DEF Unnumbered
  <2>4. CASE i \notin DOMAIN in[p]
    <3>1. Added(p, in'[p][i])
      BY <1>2, <2>2, <2>4 DEF QueueStep, OwnStepOf
    <3>2. ASSUME NEW r \in Proc, OutStep(r), in'[p][i] = Transmitted(r)
          PROVE  in'[p][i].innb = NoNb
      <4>1. outptr[r] \in DOMAIN out[r] /\ out[r] \in Seq(Call)
        BY <3>2, TransmittedFacts DEF SafetyInv, QueueInv, TypeOK
      <4>2. out[r][outptr[r]] \in Call
        BY <4>1
      <4>3. Transmitted(r).innb = out[r][outptr[r]].innb
        BY <4>2 DEF Transmitted, Call
      <4>4. QED
        BY <3>2, <4>1, <4>3 DEF Unnumbered
    <3>3. ASSUME NEW r \in Proc, Execute(r), in'[p][i] = Ack(r)
          PROVE  FALSE
      <4>1. Entry(r) \in Call /\ Current(r) \in Call
        BY <3>3, ExecuteCalls, EntryFacts DEF Execute, Ready, SafetyInv, QueueInv
      <4>2. Ran(r) \in Call
        BY <4>1 DEF Ran, Call
      <4>3. Ack(r).ack
        BY <4>1, <4>2 DEF Ack, Call
      <4>4. QED
        BY <1>2, <3>3, <4>3
    <3>4. ASSUME NEW r \in Proc, p \in CommitsTo(r)
          PROVE  FALSE
      BY <2>1, <3>4 DEF CommitsTo
    <3>5. QED
      BY <3>1, <3>2, <3>3, <3>4 DEF Added
  <2>5. QED
    BY <2>3, <2>4
<1>3. QED
  BY <1>1, <1>2 DEF Unnumbered

LEMMA AuthoredKept ==
  ASSUME SafetyInv, Moves, NEW p, NEW m, Authored(p, m)
  PROVE  Authored(p, m)'
<1> SUFFICES ASSUME m.ack, m.innb # NoNb
             PROVE  \E r \in Peer \ {p} : LoggedAt(r, m)'
  BY DEF Authored, LoggedAt, SameCall
<1>1. PICK r \in Peer \ {p} : LoggedAt(r, m)
  BY DEF Authored
<1>2. m.innb + 1 \in DOMAIN rl'[r] /\ SameEntry(rl[r][m.innb + 1], rl'[r][m.innb + 1])
  BY <1>1, RlMoves DEF LoggedAt, Proc
<1>3. QED
  BY <1>1, <1>2 DEF LoggedAt, SameEntry, SameCall

(* A peer numbers its ack only if it logs the call, and then as it does. *)
LEMMA AckAuthored ==
  ASSUME SafetyInv, NEW r \in Peer, Performs(r), Current(r).innb = NoNb,
         NEW p, p # r, NEW n, n = Ack(r)
  PROVE  Authored(p, n)'
<1> SUFFICES ASSUME n.innb # NoNb
             PROVE  LoggedAt(r, n)'
  BY DEF Authored, LoggedAt, SameCall
<1>1. /\ r \in Proc /\ rl[r] \in Seq(Call) /\ Entry(r) \in Call /\ Current(r) \in Call
      /\ rl'[r] = IF Logs(r) THEN Append(rl[r], Entry(r)) ELSE rl[r]
  <2>1. r \in Proc
    BY DEF Proc
  <2>2. rl[r] \in Seq(Call) /\ Entry(r) \in Call
        /\ rl'[r] = IF Logs(r) THEN Append(rl[r], Entry(r)) ELSE rl[r]
    BY <2>1, PerformFacts, IndexFacts
  <2>3. in[r] \in Seq(Call) /\ inptr[r] \in DOMAIN in[r]
    BY <2>1, PerformFacts
  <2>4. Current(r) \in Call
    BY <2>3 DEF Current
  <2>5. QED
    BY <2>1, <2>2, <2>4
<1>2. Ran(r).innb = Current(r).innb /\ Ran(r) \in Call
  BY <1>1, SMTT(30) DEF Ran, Call
<1>3. Logs(r)
  <2>1. ~Logs(r) => Ack(r).innb = Ran(r).innb
    BY <1>2 DEF Ack, Call
  <2>2. QED
    BY <1>2, <2>1
<1>4. Entry(r).innb = Len(rl[r])
  BY <1>1, PerformFacts, NewEntryFacts
<1>5. n.innb = Len(rl[r]) /\ SameCall(n, Entry(r))
  BY <1>1, <1>3, <1>4 DEF Ack, Call, SameCall
<1>6. n.innb + 1 \in DOMAIN rl'[r] /\ rl'[r][n.innb + 1] = Entry(r)
  BY <1>1, <1>3, <1>5
<1>7. QED
  BY <1>5, <1>6 DEF LoggedAt, SameCall

LEMMA AckAuthorNext ==
  ASSUME SafetyInv, InSendable, Unnumbered, AckAuthor, [Next]_vars
  PROVE  AckAuthor'
<1> SUFFICES ASSUME NEW p \in Peer, NEW i \in DOMAIN in'[p], NEW n, n = in'[p][i],
                    n.ack, n.innb # NoNb
             PROVE  Authored(p, n)'
  BY DEF AckAuthor, Authored, LoggedAt, SameCall
<1>1. p \in Proc /\ TypeOK /\ QueueState /\ Moves
  BY NextMoves DEF Proc, SafetyInv, QueueInv
<1>2. QueueStep(p)
  BY <1>1, QueueEffect
<1>3. CASE i \in DOMAIN in[p]
  <2>1. n = in[p][i]
    BY <1>1, <1>2, <1>3, AnsweredFacts DEF QueueStep, OwnStepOf
  <2>2. Authored(p, n)
    BY <1>3, <2>1 DEF AckAuthor
  <2>3. QED
    BY <1>1, <2>2, AuthoredKept
<1>4. CASE i \notin DOMAIN in[p]
  <2>1. Added(p, n)
    BY <1>2, <1>4 DEF QueueStep
  <2>2. ASSUME NEW r \in Proc, OutStep(r), n = Transmitted(r)
        PROVE  FALSE
    BY <1>1, <2>2, TransmittedFacts DEF SafetyInv, OutFresh
  <2>3. ASSUME NEW r \in Proc, Resume(r), n = Merged(r)
        PROVE  FALSE
    BY <1>1, <2>3, ResumeFacts, MergedFacts, ZenonT(40) DEF Resume
  <2>4. PICK r \in Proc \ {p} : Execute(r) /\ Acks(r) /\ n = Ack(r)
    BY <2>1, <2>2, <2>3 DEF Added
  <2>5. Current(r) \in Call /\ ~Current(r).ack /\ inptr[r] \in DOMAIN in[r]
    BY <2>4, EntryFacts
  <2>6. r \in Peer
    BY <2>4, <2>5 DEF InSendable, Destined, Current, Acks, Dest
  <2>7. Current(r).innb = NoNb
    BY <2>5, <2>6, IndexFacts DEF Unnumbered, Current, Proc
  <2>8. Performs(r)
    BY <1>1, <2>4, ExecutePerforms
  <2>9. QED
    BY <2>4, <2>6, <2>7, <2>8, AckAuthored
<1>5. QED
  BY <1>3, <1>4

LEMMA LogInvInit ==
  ASSUME NEW S, Servlets(S), Init
  PROVE  LogInv(S)
<1>1. WaitInv(S)
  BY WaitInvInit
<1>2. \A p \in Proc : in[p] = <<>> /\ out[p] = <<>>
  BY DEF Init
<1>3. InAsked /\ Unnumbered /\ AckAuthor
  BY <1>2 DEF InAsked, Unnumbered, AckAuthor, Proc
<1>4. QED
  BY <1>1, <1>3 DEF LogInv

LEMMA LogInvNext ==
  ASSUME NEW S, Servlets(S), Mirrored, LogInv(S), [Next]_vars
  PROVE  LogInv(S)'
<1>1. /\ SafetyInv /\ InSendable /\ EntryRequest /\ OutNumbered /\ InTransmitted
      /\ WaitInv(S) /\ InAsked /\ Unnumbered /\ AckAuthor
  BY WaitFacts, MirrorFacts DEF LogInv
<1>2. WaitInv(S)'
  BY <1>1, WaitInvNext
<1>3. InAsked' /\ Unnumbered' /\ AckAuthor'
  BY <1>1, InAskedNext, UnnumberedNext, AckAuthorNext
<1>4. QED
  BY <1>2, <1>3 DEF LogInv

(* A finite group has a longest replay list.                               *)
LEMMA GreatestExists ==
  ASSUME NEW T, IsFiniteSet(T), T # {}, NEW L, \A t \in T : L[t] \in Nat
  PROVE  \E t \in T : \A u \in T : L[t] >= L[u]
<1> DEFINE Greatest(U) == \E t \in U : \A u \in U : L[t] >= L[u]
           Bad == {U \in SUBSET T : U # {} /\ ~Greatest(U)}
           D == {Cardinality(U) : U \in Bad}
<1> SUFFICES ASSUME ~Greatest(T)
             PROVE  FALSE
  OBVIOUS
<1>1. T \in Bad
  OBVIOUS
<1>2. \A U \in SUBSET T : IsFiniteSet(U) /\ Cardinality(U) \in Nat
  BY FS_Subset, FS_CardinalityType
<1>3. D \in SUBSET Nat /\ D # {}
  BY <1>1, <1>2
<1>4. PICK n \in D : \A k \in D : n <= k
  <2> HIDE DEF D
  <2>1. QED
    BY <1>3, LeastExists
<1>5. PICK U \in Bad : Cardinality(U) = n
  BY <1>4
<1>6. PICK x \in U : TRUE
  BY <1>5
<1> DEFINE V == U \ {x}
<1>7. U \in SUBSET T /\ IsFiniteSet(U) /\ V \in SUBSET T
  BY <1>2, <1>5
<1>8. Cardinality(V) = Cardinality(U) - 1 /\ Cardinality(U) \in Nat
  BY <1>2, <1>6, <1>7, FS_RemoveElement
<1>9. V \notin Bad
  <2>1. V \in Bad => Cardinality(V) \in D
    OBVIOUS
  <2>2. V \in Bad => Cardinality(U) <= Cardinality(V)
    BY <1>4, <1>5, <2>1
  <2>3. QED
    BY <1>8, <2>2
<1>10. CASE V = {}
  <2>1. \A u \in U : u = x
    BY <1>10
  <2>2. L[x] >= L[x]
    BY <1>6, <1>7
  <2>3. QED
    BY <1>5, <1>6, <2>1, <2>2
<1>11. CASE V # {}
  <2>1. PICK t \in V : \A u \in V : L[t] >= L[u]
    BY <1>7, <1>9, <1>11
  <2>2. L[t] \in Nat /\ L[x] \in Nat /\ \A u \in V : L[u] \in Nat
    BY <1>6, <1>7, <2>1
  <2>3. CASE L[t] >= L[x]
    <3>1. \A u \in U : L[t] >= L[u]
      BY <2>1, <2>3
    <3>2. QED
      BY <1>5, <2>1, <3>1
  <2>4. CASE ~(L[t] >= L[x])
    <3>1. \A u \in U : L[x] >= L[u]
      BY <2>1, <2>2, <2>4
    <3>2. QED
      BY <1>5, <1>6, <3>1
  <2>5. QED
    BY <2>3, <2>4
<1>12. QED
  BY <1>10, <1>11

-----------------------------------------------------------------------------
(* The log, read off any of the longest replay lists. *)

AskedCalls == UNION {{LogEntry(out[p][i]) : i \in DOMAIN out[p]} : p \in Proc}

TheLog == [i \in DOMAIN rl[Longest] |-> LogEntry(rl[Longest][i])]

Lengths == [p \in Peer |-> Len(rl[p])]

SettledTo == [p \in Peer |-> Len(rl[p]) - (IF cond[p] = 0 THEN 0 ELSE 1)]

AsLong(p) == \A q \in Peer : Len(rl[p]) >= Len(rl[q])

LogOf(p) == [i \in DOMAIN rl[p] |-> LogEntry(rl[p][i])]

LEMMA LongestFacts ==
  SafetyInv /\ IsFiniteSet(Peer) /\ Peer # {} => Longest \in Peer /\ AsLong(Longest)
<1> SUFFICES ASSUME SafetyInv, IsFiniteSet(Peer), Peer # {}
             PROVE  Longest \in Peer /\ AsLong(Longest)
  OBVIOUS
<1> DEFINE L == [p \in Peer |-> Len(rl[p])]
<1>1. \A p \in Peer : L[p] \in Nat
  BY IndexFacts DEF Proc
<1>2. \A p \in Peer : L[p] = Len(rl[p])
  OBVIOUS
<1> HIDE DEF L
<1>3. \E p \in Peer : \A q \in Peer : L[p] >= L[q]
  BY <1>1, GreatestExists
<1>4. \E p \in Peer : \A q \in Peer : Len(rl[p]) >= Len(rl[q])
  BY <1>2, <1>3
<1>5. QED
  BY <1>4 DEF Longest, AsLong

LEMMA LogOfLongest ==
  SafetyInv /\ ReplayListsAgree /\ IsFiniteSet(Peer) /\ Peer # {} =>
    \A p \in Peer : AsLong(p) => TheLog = LogOf(p)
<1> SUFFICES ASSUME SafetyInv, ReplayListsAgree, IsFiniteSet(Peer), Peer # {},
                    NEW p \in Peer, AsLong(p)
             PROVE  TheLog = LogOf(p)
  OBVIOUS
<1>1. Longest \in Peer /\ AsLong(Longest)
  BY LongestFacts
<1> DEFINE l == Longest
<1> HIDE DEF l
<1>2. l \in Peer /\ AsLong(l) /\ TheLog = [i \in DOMAIN rl[l] |-> LogEntry(rl[l][i])]
  BY <1>1 DEF l, TheLog
<1>3. /\ DOMAIN rl[p] = 1 .. Len(rl[p]) /\ Len(rl[p]) \in Nat
      /\ DOMAIN rl[l] = 1 .. Len(rl[l]) /\ Len(rl[l]) \in Nat
  BY <1>2, IndexFacts DEF Proc
<1>4. DOMAIN rl[p] = DOMAIN rl[l]
  BY <1>2, <1>3 DEF AsLong
<1>5. \A i \in DOMAIN rl[l] : LogEntry(rl[l][i]) = LogEntry(rl[p][i])
  <2>1. \A i \in DOMAIN rl[l] : SameCall(rl[l][i], rl[p][i])
                                 /\ rl[l][i].func = rl[p][i].func /\ rl[l][i].ret = rl[p][i].ret
    BY <1>2, <1>4 DEF ReplayListsAgree
  <2>2. QED
    BY <2>1 DEF LogEntry, RequestOf, SameCall
<1>6. QED
  BY <1>2, <1>4, <1>5 DEF LogOf

LEMMA LogOfLongestNext ==
  (SafetyInv /\ ReplayListsAgree /\ IsFiniteSet(Peer) /\ Peer # {})' =>
    (\A p \in Peer : AsLong(p) => TheLog = LogOf(p))'
BY LogOfLongest, PTL

LEMMA AskedTypeNext ==
  ASSUME TypeOK'
  PROVE  AskedCalls' \subseteq [from: Proc, req: Nat \X Func \X Int]
<1> SUFFICES ASSUME NEW p \in Proc, NEW i \in DOMAIN out'[p]
             PROVE  LogEntry(out'[p][i]) \in [from: Proc, req: Nat \X Func \X Int]
  BY DEF AskedCalls, LogEntry, RequestOf
<1>1. out'[p][i] \in Call
  BY DEF TypeOK
<1>2. QED
  BY <1>1 DEF Call, LogEntry, RequestOf, NoNb

LEMMA AskedGrows ==
  ASSUME Moves
  PROVE  AskedCalls \subseteq AskedCalls'
<1> SUFFICES ASSUME NEW p \in Proc, NEW i \in DOMAIN out[p]
             PROVE  LogEntry(out[p][i]) \in AskedCalls'
  BY DEF AskedCalls
<1>1. i \in DOMAIN out'[p] /\ SameRequest(out[p][i], out'[p][i])
  BY MovesOf DEF OutStepOf
<1>2. LogEntry(out[p][i]) = LogEntry(out'[p][i])
  BY <1>1 DEF SameRequest, SameCall, LogEntry, RequestOf
<1>3. LogEntry(out'[p][i]) \in {LogEntry(out'[p][j]) : j \in DOMAIN out'[p]}
  BY <1>1
<1>4. QED
  BY <1>2, <1>3 DEF AskedCalls, LogEntry, RequestOf

(* A replay list that is not appended to keeps its calls.                  *)
LEMMA LogOfKept ==
  ASSUME SafetyInv, SafetyInv', Moves, NEW p \in Proc, Len(rl'[p]) = Len(rl[p])
  PROVE  LogOf(p)' = LogOf(p)
<1>1. DOMAIN rl'[p] = DOMAIN rl[p]
  BY IndexFacts DEF SafetyInv, QueueInv, TypeOK
<1>2. \A i \in DOMAIN rl[p] : LogEntry(rl[p][i]) = LogEntry(rl'[p][i])
  <2>1. \A i \in DOMAIN rl[p] : SameEntry(rl[p][i], rl'[p][i])
    BY RlMoves
  <2>2. QED
    BY <2>1 DEF SameEntry, SameCall, LogEntry, RequestOf
<1>3. QED
  BY <1>1, <1>2 DEF LogOf, LogEntry, RequestOf

LEMMA PeerStep ==
  ASSUME SafetyInv, [Next]_vars
  PROVE  LogMoves
<1> SUFFICES ASSUME NEW p \in Peer, ~(Len(rl'[p]) = Len(rl[p]) /\ cond'[p] = cond[p])
             PROVE  LogsNext(p) \/ Resume(p)
  BY DEF LogMoves
<1>1. p \in Proc /\ TypeOK /\ QueueState
  BY DEF Proc, SafetyInv, QueueInv
<1>2. Execute(p) => Performs(p) /\ out' = out /\
        \A q \in Peer \ {p} : rl'[q] = rl[q] /\ cond'[q] = cond[q]
  BY <1>1, ExecutePerforms, ExecuteFacts DEF Execute, Consume, TypeOK, Proc
<1>3. Performs(p) /\ ~Logs(p) => rl'[p] = rl[p] /\ cond'[p] = cond[p]
  BY <1>1, PerformFacts DEF Performs
<1>4. ResumeError(p) => Len(rl'[p]) = Len(rl[p]) /\ cond'[p] = cond[p]
  <2> SUFFICES ASSUME ResumeError(p)
               PROVE  Len(rl'[p]) = Len(rl[p]) /\ cond'[p] = cond[p]
    OBVIOUS
  <2>1. rl' = [rl EXCEPT ![p] = [@ EXCEPT ![cond[p]] = Merged(p)]] /\ cond' = cond
    BY DEF ResumeError
  <2>2. QED
    BY <1>1, <2>1 DEF TypeOK
<1>5. QED
  BY <1>1, <1>2, <1>3, <1>4, OwnSteps DEF LogsNext

(* The call is the group's, its entry is the next of p, and p waits.       *)
LEMMA LoggedNext ==
  ASSUME NEW S, LogBase(S), FateInv(S)', NEW p \in Peer, LogsNext(p)
  PROVE  /\ cond[p] = 0 /\ cond'[p] # 0
         /\ rl'[p] = Append(rl[p], Entry(p)) /\ rl[p] \in Seq(Call)
         /\ Len(rl'[p]) = Len(rl[p]) + 1
         /\ \A q \in Peer \ {p} : rl'[q] = rl[q] /\ cond'[q] = cond[q]
         /\ out' = out
<1>1. SafetyInv /\ p \in Proc /\ Performs(p) /\ Logs(p)
  BY FateFacts DEF LogBase, Proc, LogsNext
<1>2. cond[p] = 0
  BY <1>1, PerformFacts
<1>3. rl[p] \in Seq(Call) /\ rl'[p] = Append(rl[p], Entry(p)) /\ Entry(p) \in Call
  BY <1>1, PerformFacts, IndexFacts
<1>4. /\ Len(rl'[p]) = Len(rl[p]) + 1 /\ Len(rl[p]) \in Nat
      /\ Len(rl[p]) + 1 \in DOMAIN rl'[p] /\ rl'[p][Len(rl[p]) + 1] = Entry(p)
  BY <1>3
<1>5. EntriesAgreed'
  BY DEF FateInv
<1>6. rl'[p][Len(rl[p]) + 1].to = Group
  BY <1>4, <1>5 DEF EntriesAgreed
<1>7. Current(p).to = Group
  BY <1>1, <1>4, <1>6, PerformFacts, NewEntryFacts DEF SameRequest
<1>8. Awaits(p)
  BY <1>1, <1>7, ProcAssumption DEF Awaits, Acks, Logs
<1>9. cond'[p] = Len(rl[p]) + 1
  BY <1>1, <1>8 DEF Performs
<1>10. cond'[p] # 0
  BY <1>4, <1>9
<1>11. QED
  BY <1>2, <1>3, <1>4, <1>10 DEF LogsNext

(* What the proofs of the three steps share. *)
LEMMA LogFacts ==
  ASSUME NEW S, LogBase(S), IsFiniteSet(Peer), Peer # {}
  PROVE  /\ SafetyInv /\ ReplayListsAgree /\ TypeOK
         /\ Longest \in Peer /\ AsLong(Longest)
         /\ \A p \in Peer : AsLong(p) => TheLog = LogOf(p)
         /\ \A p \in Peer : rl[p] \in Seq(Call) /\ Len(rl[p]) \in Nat
<1>1. SafetyInv /\ ReplayListsAgree /\ TypeOK
  BY FateFacts DEF LogBase, SafetyInv, QueueInv
<1>2. Longest \in Peer /\ AsLong(Longest)
  BY <1>1, LongestFacts
<1>3. \A p \in Peer : AsLong(p) => TheLog = LogOf(p)
  BY <1>1, LogOfLongest
<1>4. \A p \in Peer : rl[p] \in Seq(Call) /\ Len(rl[p]) \in Nat
  BY <1>1, IndexFacts DEF Proc
<1>5. QED
  BY <1>1, <1>2, <1>3, <1>4

(* The log is only changed by its own growth. *)
LEMMA TheLogKept ==
  ASSUME NEW S, LogBase(S), FateInv(S)', Moves, IsFiniteSet(Peer), Peer # {},
         NEW l \in Peer, AsLong(l), AsLong(l)', Len(rl'[l]) = Len(rl[l])
  PROVE  TheLog' = TheLog
<1>1. SafetyInv /\ SafetyInv' /\ ReplayListsAgree' /\ l \in Proc
  BY FateFacts DEF LogBase, FateInv, ReplayInv, Proc
<1>2. TheLog' = LogOf(l)'
  BY <1>1, LogOfLongestNext
<1>3. TheLog = LogOf(l)
  BY LogFacts
<1>4. QED
  BY <1>1, <1>2, <1>3, LogOfKept

(* Nothing but calls to come. *)
LEMMA AskStep ==
  ASSUME NEW S, LogBase(S), FateInv(S)', Moves, IsFiniteSet(Peer), Peer # {},
         \A p \in Peer : Len(rl'[p]) = Len(rl[p]) /\ cond'[p] = cond[p]
  PROVE  Log!Ask
<1>1. SafetyInv /\ TypeOK' /\ Longest \in Peer /\ AsLong(Longest)
  BY LogFacts DEF FateInv, ReplayInv, SafetyInv, QueueInv
<1>2. Lengths' = Lengths /\ SettledTo' = SettledTo
  BY DEF Lengths, SettledTo
<1>3. PICK l \in Peer : l = Longest
  BY <1>1
<1>4. AsLong(l) /\ AsLong(l)'
  BY <1>1, <1>3 DEF AsLong
<1>5. TheLog' = TheLog
  BY <1>4, TheLogKept
<1>6. AskedCalls' \in SUBSET [from: Proc, req: Nat \X Func \X Int] /\ AskedCalls \subseteq AskedCalls'
  BY <1>1, AskedTypeNext, AskedGrows
<1>7. QED
  BY <1>2, <1>5, <1>6 DEF Log!Ask, Log!Asked, AskedCalls, TheLog, Lengths, SettledTo

(* p executes a call: none else moves, and nothing is settled. *)
LEMMA ApplyStep ==
  ASSUME NEW S, LogBase(S), FateInv(S)', NEW p \in Peer, LogsNext(p)
  PROVE  /\ SettledTo[p] = Lengths[p] /\ SettledTo' = SettledTo
         /\ Lengths' = [Lengths EXCEPT ![p] = @ + 1]
         /\ AskedCalls' = AskedCalls
<1>1. /\ cond[p] = 0 /\ cond'[p] # 0 /\ Len(rl'[p]) = Len(rl[p]) + 1 /\ Len(rl[p]) \in Nat
      /\ \A q \in Peer \ {p} : rl'[q] = rl[q] /\ cond'[q] = cond[q]
      /\ out' = out
  <2>1. Len(rl[p]) \in Nat
    BY FateFacts, IndexFacts DEF LogBase, Proc
  <2>2. QED
    BY <2>1, LoggedNext
<1>2. SettledTo[p] = Lengths[p]
  <2>1. SettledTo[p] = Len(rl[p]) - 0 /\ Lengths[p] = Len(rl[p])
    BY <1>1 DEF SettledTo, Lengths
  <2>2. QED
    BY <1>1, <2>1
<1>3. ASSUME NEW q \in Peer
      PROVE  /\ SettledTo'[q] = SettledTo[q]
             /\ Lengths'[q] = IF q = p THEN Lengths[p] + 1 ELSE Lengths[q]
  <2>1. CASE q = p
    <3>1. SettledTo'[q] = Len(rl'[p]) - 1 /\ SettledTo[q] = Len(rl[p]) - 0
      BY <1>1, <2>1 DEF SettledTo
    <3>2. SettledTo'[q] = SettledTo[q]
      BY <1>1, <3>1
    <3>3. QED
      BY <1>1, <2>1, <3>2 DEF Lengths
  <2>2. CASE q # p
    BY <1>1, <2>2 DEF SettledTo, Lengths
  <2>3. QED
    BY <2>1, <2>2
<1>4. SettledTo' = SettledTo
  BY <1>3 DEF SettledTo
<1>5. Lengths' = [Lengths EXCEPT ![p] = @ + 1]
  BY <1>3 DEF Lengths
<1>6. AskedCalls' = AskedCalls
  BY <1>1 DEF AskedCalls, LogEntry, RequestOf
<1>7. QED
  BY <1>2, <1>4, <1>5, <1>6

LEMMA LeadStep ==
  ASSUME NEW S, LogBase(S), FateInv(S)', Moves, IsFiniteSet(Peer), Peer # {},
         NEW p \in Peer, LogsNext(p), AsLong(p)
  PROVE  Log!Lead(p)
<1>1. /\ rl'[p] = Append(rl[p], Entry(p)) /\ rl[p] \in Seq(Call)
      /\ \A q \in Peer \ {p} : rl'[q] = rl[q]
  BY LoggedNext
<1>2. /\ SafetyInv /\ SafetyInv' /\ ReplayListsAgree' /\ InAsked /\ p \in Proc
  BY FateFacts DEF LogBase, FateInv, ReplayInv, Proc
<1>3. \A q \in Peer : Len(rl[q]) \in Nat /\ Len(rl[p]) >= Len(rl[q])
  BY LogFacts DEF AsLong
<1>4. PICK n \in Nat : n = Len(rl[p])
  BY <1>3
<1>5. /\ DOMAIN rl[p] = 1 .. n /\ DOMAIN rl'[p] = 1 .. n + 1 /\ Len(rl'[p]) = n + 1
      /\ rl'[p][n + 1] = Entry(p) /\ \A i \in 1 .. n : rl'[p][i] = rl[p][i]
  BY <1>1, <1>4
<1>6. AsLong(p)'
  BY <1>1, <1>3, <1>4, <1>5 DEF AsLong
<1>7. TheLog = LogOf(p) /\ TheLog' = LogOf(p)'
  BY <1>2, <1>6, LogFacts, LogOfLongestNext
<1> DEFINE c == LogEntry(Entry(p))
<1>8. TheLog = [i \in 1 .. n |-> LogEntry(rl[p][i])]
  BY <1>5, <1>7 DEF LogOf
<1>9. TheLog' = [i \in 1 .. n + 1 |-> LogEntry(rl'[p][i])]
  BY <1>5, <1>7 DEF LogOf, LogEntry, RequestOf
<1>10. c \in AskedCalls
  <2>1. inptr[p] \in DOMAIN in[p] /\ ~Current(p).ack /\ SameRequest(Current(p), Entry(p))
        /\ Current(p).from \in Proc
    <3>1. Performs(p)
      BY DEF LogsNext
    <3>2. in[p] \in Seq(Call) /\ inptr[p] \in DOMAIN in[p] /\ ~InIdle(p)
      BY <1>2, <3>1, PerformFacts
    <3>3. Current(p) \in Call
      BY <3>2 DEF Current
    <3>4. QED
      BY <1>2, <3>1, <3>2, <3>3, NewEntryFacts DEF Performs, Call
  <2>2. PICK k \in DOMAIN out[Current(p).from] : SameRequest(out[Current(p).from][k], Current(p))
    BY <1>2, <2>1 DEF InAsked, AskedFor, Current
  <2>3. c = LogEntry(out[Current(p).from][k])
    BY <2>1, <2>2 DEF SameRequest, SameCall, LogEntry, RequestOf
  <2>4. QED
    BY <2>1, <2>3 DEF AskedCalls
<1>11. \A i \in DOMAIN TheLog : TheLog[i] # c
  <2> SUFFICES ASSUME NEW i \in 1 .. n, LogEntry(rl[p][i]) = c
               PROVE  FALSE
    BY <1>8
  <2>1. SameCall(rl'[p][i], rl'[p][n + 1])
    BY <1>5 DEF LogEntry, RequestOf, SameCall
  <2>2. i \in DOMAIN rl'[p] /\ n + 1 \in DOMAIN rl'[p] /\ i # n + 1
    BY <1>5
  <2>3. QED
    BY <1>2, <2>1, <2>2, LoggedOnceNext DEF OncePerCall
<1> HIDE DEF c
<1>12. TheLog' = Append(TheLog, c) /\ Len(TheLog) = n
  <2>1. LogEntry(rl'[p][n + 1]) = c /\ \A i \in 1 .. n : LogEntry(rl'[p][i]) = TheLog[i]
    BY <1>5, <1>8 DEF c
  <2> DEFINE g == TheLog
             h == [i \in 1 .. n + 1 |-> LogEntry(rl'[p][i])]
  <2>2. g = [i \in 1 .. n |-> g[i]] /\ h = [i \in 1 .. n + 1 |-> IF i = n + 1 THEN c ELSE g[i]]
    BY <1>8, <2>1
  <2>3. TheLog' = h
    BY <1>9
  <2> HIDE DEF g, h
  <2>4. Len(g) = n /\ h = Append(g, c)
    BY <2>2
  <2>5. QED
    BY <2>3, <2>4 DEF g
<1>13. Lengths[p] = Len(TheLog)
  BY <1>4, <1>12 DEF Lengths
<1>14. /\ SettledTo[p] = Lengths[p] /\ SettledTo' = SettledTo
       /\ Lengths' = [Lengths EXCEPT ![p] = @ + 1] /\ AskedCalls' = AskedCalls
  BY ApplyStep
<1>15. QED
  BY <1>10, <1>11, <1>12, <1>13, <1>14
  DEF Log!Lead, Log!Apply, AskedCalls, TheLog, Lengths, SettledTo

LEMMA FollowStep ==
  ASSUME NEW S, LogBase(S), FateInv(S)', Moves, IsFiniteSet(Peer), Peer # {},
         NEW p \in Peer, LogsNext(p), ~AsLong(p)
  PROVE  Log!Follow(p)
<1>1. /\ Len(rl'[p]) = Len(rl[p]) + 1
      /\ \A q \in Peer \ {p} : rl'[q] = rl[q]
  BY LoggedNext
<1>2. Longest \in Peer /\ AsLong(Longest) /\ \A q \in Peer : Len(rl[q]) \in Nat
  BY LogFacts
<1>3. PICK l \in Peer : l = Longest
  BY <1>2
<1>4. AsLong(l) /\ Len(rl[p]) < Len(rl[l]) /\ l # p
  BY <1>2, <1>3 DEF AsLong
<1>5. Len(rl'[l]) = Len(rl[l]) /\ AsLong(l)'
  BY <1>1, <1>2, <1>4 DEF AsLong
<1>6. TheLog' = TheLog
  BY <1>4, <1>5, TheLogKept
<1>7. Len(TheLog) = Len(rl[l]) /\ Lengths[p] < Len(TheLog)
  <2>1. TheLog = [i \in DOMAIN rl[l] |-> LogEntry(rl[l][i])]
    BY <1>4, LogFacts DEF LogOf
  <2>2. DOMAIN rl[l] = 1 .. Len(rl[l]) /\ Len(rl[l]) \in Nat
    BY LogFacts
  <2>3. Len(TheLog) = Len(rl[l])
    BY <2>1, <2>2
  <2>4. QED
    BY <1>4, <2>3 DEF Lengths
<1>8. /\ SettledTo[p] = Lengths[p] /\ SettledTo' = SettledTo
      /\ Lengths' = [Lengths EXCEPT ![p] = @ + 1] /\ AskedCalls' = AskedCalls
  BY ApplyStep
<1>9. QED
  BY <1>6, <1>7, <1>8
  DEF Log!Follow, Log!Apply, AskedCalls, TheLog, Lengths, SettledTo

(* Whose acks p has waited for: all who must have executed the call. *)
LEMMA AwaitedApplied ==
  ASSUME NEW S, LogBase(S), IsFiniteSet(Peer), Peer # {},
         NEW p \in Peer, Resume(p), NEW n \in Nat, n = Len(rl[p]),
         NEW q \in Log!Awaited(p, n)
  PROVE  q \in Peer /\ Len(rl[q]) >= n
<1>1. /\ SafetyInv /\ TypeOK /\ QueueState /\ ReplayListsAgree /\ AckAuthor /\ AcksTrue
      /\ p \in Proc
  BY LogFacts DEF LogBase, SafetyInv, QueueInv, Proc
<1>2. cond[p] = n /\ n \in DOMAIN rl[p] /\ AllAcks(p) /\ rl[p][n].innb = n - 1
  <2>1. cond[p] # 0 /\ cond[p] \in DOMAIN rl[p] /\ AllAcks(p)
    BY <1>1, ResumeFacts DEF Resume
  <2>2. cond[p] = n
    BY <1>1, <2>1 DEF QueueState
  <2>3. rl[p][cond[p]].innb = cond[p] - 1
    BY <1>1, <2>1 DEF SafetyInv, RlNumbered
  <2>4. QED
    BY <2>1, <2>2, <2>3
<1> DEFINE e == rl[p][n]
<1>3. TheLog[n].from = e.from
  <2>1. Longest \in Peer /\ AsLong(Longest)
    BY LogFacts
  <2>2. PICK l \in Peer : l = Longest
    BY <2>1
  <2>3. n \in DOMAIN rl[l] /\ AsLong(l)
    BY <1>2, <2>1, <2>2, LogFacts DEF AsLong
  <2>4. TheLog = [i \in DOMAIN rl[l] |-> LogEntry(rl[l][i])]
    BY <2>3, LogFacts DEF LogOf
  <2>5. SameCall(e, rl[l][n])
    BY <1>1, <1>2, <2>3 DEF ReplayListsAgree
  <2>6. QED
    BY <2>3, <2>4, <2>5 DEF LogEntry, SameCall
<1>4. q \in Peer \ {p} /\ (q = e.from => Peer \ {p} = {q})
  <2>1. q \in (IF Peer \ {p, e.from} = {} THEN Peer \ {p} ELSE Peer \ {p, e.from})
    BY <1>3 DEF Log!Awaited, TheLog
  <2>2. QED
    BY <2>1
<1>5. PICK a \in DOMAIN in[p] : /\ in[p][a].ack /\ in[p][a].innb = n - 1
                                /\ SameCall(in[p][a], e) /\ q \in in[p][a].sign
  BY <1>1, <1>2, <1>4, FirstAckFacts
<1>6. ASSUME LoggedAt(q, in[p][a])
      PROVE  Len(rl[q]) >= n
  <2>1. n - 1 + 1 \in DOMAIN rl[q]
    BY <1>5, <1>6 DEF LoggedAt
  <2>2. QED
    BY <1>1, <1>4, <2>1, IndexFacts DEF Proc
<1>7. CASE q # e.from
  BY <1>1, <1>4, <1>5, <1>6, <1>7 DEF AcksTrue, SameCall
<1>8. CASE q = e.from
  <2>1. in[p][a].innb # NoNb
    BY <1>1, <1>2, <1>5, IndexFacts DEF NoNb
  <2>2. PICK r \in Peer \ {p} : LoggedAt(r, in[p][a])
    BY <1>1, <1>5, <2>1 DEF AckAuthor, Authored
  <2>3. QED
    BY <1>4, <1>6, <1>8, <2>2
<1>9. QED
  BY <1>4, <1>6, <1>7, <1>8

LEMMA SettleStep ==
  ASSUME NEW S, LogBase(S), FateInv(S)', Moves, IsFiniteSet(Peer), Peer # {},
         NEW p \in Peer, Resume(p)
  PROVE  Log!Settle(p)
<1>1. SafetyInv /\ TypeOK /\ QueueState /\ p \in Proc
  BY LogFacts DEF SafetyInv, QueueInv, Proc
<1>2. PICK n \in Nat : n = Len(rl[p])
  BY LogFacts
<1>3. /\ cond[p] # 0 /\ cond' = [cond EXCEPT ![p] = 0]
      /\ \A q \in Peer : Len(rl'[q]) = Len(rl[q])
      /\ out' = out
  BY <1>1, ResumeFacts DEF Resume, Proc
<1>4. cond'[p] = 0 /\ \A q \in Peer \ {p} : cond'[q] = cond[q]
  BY <1>1, <1>3 DEF TypeOK, Proc
<1>5. Lengths' = Lengths /\ Lengths[p] = n
  BY <1>2, <1>3 DEF Lengths
<1>6. SettledTo[p] = n - 1 /\ SettledTo'[p] = n - 0 /\ \A q \in Peer \ {p} : SettledTo'[q] = SettledTo[q]
  BY <1>2, <1>3, <1>4 DEF SettledTo
<1>7. SettledTo' = [SettledTo EXCEPT ![p] = n] /\ SettledTo[p] + 1 = n
  <2>1. \A q \in Peer : SettledTo'[q] = IF q = p THEN n ELSE SettledTo[q]
    BY <1>6
  <2>2. QED
    <3>1. SettledTo' = [q \in Peer |-> SettledTo'[q]] /\ SettledTo = [q \in Peer |-> SettledTo[q]]
      BY DEF SettledTo
    <3> DEFINE f == SettledTo
               g == SettledTo'
    <3>2. f = [q \in Peer |-> f[q]] /\ g = [q \in Peer |-> IF q = p THEN n ELSE f[q]]
      BY <2>1, <3>1
    <3>3. f[p] = n - 1
      BY <1>6
    <3> HIDE DEF f, g
    <3>4. g = [f EXCEPT ![p] = n] /\ f[p] + 1 = n
      BY <3>2, <3>3
    <3>5. QED
      BY <3>4 DEF f, g
<1>8. TheLog' = TheLog
  <2>1. PICK l \in Peer : l = Longest
    BY LogFacts
  <2>2. AsLong(l) /\ AsLong(l)'
    BY <1>3, <2>1, LogFacts DEF AsLong
  <2>3. QED
    BY <1>3, <2>2, TheLogKept
<1>9. \A q \in Log!Awaited(p, n) : Lengths[q] >= n
  BY <1>2, AwaitedApplied DEF Lengths
<1>10. AskedCalls' = AskedCalls
  BY <1>3 DEF AskedCalls, LogEntry, RequestOf
<1>11. QED
  BY <1>5, <1>7, <1>8, <1>9, <1>10 DEF Log!Settle, AskedCalls, TheLog, Lengths, SettledTo

LEMMA LogInitHolds ==
  ASSUME Init, IsFiniteSet(Peer), Peer # {}
  PROVE  Log!LogInit
<1>1. SafetyInv /\ \A p \in Proc : rl[p] = <<>> /\ out[p] = <<>> /\ cond[p] = 0
  BY SafetyInvInit DEF Init
<1>2. Longest \in Peer
  BY <1>1, LongestFacts
<1>3. TheLog = <<>>
  BY <1>1, <1>2 DEF TheLog, Proc
<1>4. AskedCalls = {}
  BY <1>1 DEF AskedCalls
<1>5. Lengths = [p \in Peer |-> 0] /\ SettledTo = [p \in Peer |-> 0]
  BY <1>1 DEF Lengths, SettledTo, Proc
<1>6. QED
  BY <1>3, <1>4, <1>5 DEF Log!LogInit, AskedCalls, TheLog, Lengths, SettledTo

LEMMA LogStepHolds ==
  ASSUME NEW S, LogBase(S), FateInv(S)', Moves, LogMoves, IsFiniteSet(Peer), Peer # {}
  PROVE  Log!LogNext
<1>1. CASE \A p \in Peer : Len(rl'[p]) = Len(rl[p]) /\ cond'[p] = cond[p]
  BY <1>1, AskStep DEF Log!LogNext
<1>2. ASSUME NEW p \in Peer, LogsNext(p)
      PROVE  Log!LogNext
  BY <1>2, LeadStep, FollowStep DEF Log!LogNext
<1>3. ASSUME NEW p \in Peer, Resume(p)
      PROVE  Log!LogNext
  BY <1>3, SettleStep DEF Log!LogNext
<1>4. QED
  BY <1>1, <1>2, <1>3 DEF LogMoves

(***************************************************************************)
(* The protocol implements CallLog: the group has one log of calls, each   *)
(* peer executes a prefix of it, and goes on only when all the peers but   *)
(* the sender have executed the call it waits for.                         *)
(***************************************************************************)
THEOREM OneLog ==
  ASSUME NEW S, Servlets(S), Mirrored, IsFiniteSet(Peer), Peer # {}
  PROVE  Spec => ImplementsCallLog
<1>1. Init => LogInv(S) /\ Log!LogInit
  BY LogInvInit, LogInitHolds
<1>2. LogInv(S) /\ [Next]_vars => LogInv(S)'
  BY LogInvNext
<1>3. LogInv(S) /\ LogInv(S)' /\ [Next]_vars => Log!LogNext
  <2> SUFFICES ASSUME LogInv(S), LogInv(S)', [Next]_vars
               PROVE  Log!LogNext
    OBVIOUS
  <2>1. SafetyInv /\ LogBase(S) /\ FateInv(S)'
    BY WaitFacts DEF LogInv, LogBase, WaitInv, MirrorInv
  <2>2. QED
    BY <2>1, NextMoves, PeerStep, LogStepHolds
<1>4. QED
  BY <1>1, <1>2, <1>3, PTL DEF Spec, ImplementsCallLog, Log!LogSpec

-----------------------------------------------------------------------------
(***************************************************************************)
(* The payment channel meets what is asked of the servlet: its peers run   *)
(* micropay, and its master cmicropay.                                     *)
(***************************************************************************)
MP == INSTANCE Micropay WITH User <- Peer

MicropaySelf == [type: {"micropay"}, account: [Peer -> Int], withdraw: [Peer -> Int],
                 state: {"Init", "Started"}]

CMicropaySelf == [type: {"cmicropay"}, account: [Peer -> Int]]

MicropayCall(f) ==
  f.func \in {"transfer", "deposit", "withdraw", "start", "lst"} /\ f.amount \in Int

RunsMicropay ==
  /\ \A s, u, f : Exec(s, u, f) = MP!ServletExec(s, u, f)
  /\ \A s, u, f : Accepts(s, u, f) = MP!ServletAccepts(s, u, f)
  /\ \A s, u, c, f : Return(s, u, c, f) = MP!MicropayReturn(s, u, c, f)
  /\ \A f \in Func : MicropayCall(f)
  /\ \A f \in Volatile : f.func = "lst"
  /\ \A f \in Committed : f.func = "withdraw"
  /\ \A m \in Master : \A f \in Method[m] : f.func \in {"deposit", "withdraw"}
  /\ \A p \in Peer : Self0[p] \in MicropaySelf
  /\ \A m \in Master : Self0[m] \in CMicropaySelf

LEMMA CreditType ==
  ASSUME NEW u, NEW n \in Int
  PROVE  /\ \A s \in MicropaySelf : MP!Credit(s, u, n) \in MicropaySelf
         /\ \A s \in CMicropaySelf : MP!Credit(s, u, n) \in CMicropaySelf
BY DEF MP!Credit, MicropaySelf, CMicropaySelf

LEMMA MicropayExecType ==
  ASSUME NEW s \in MicropaySelf, NEW u, NEW f, MicropayCall(f)
  PROVE  /\ MP!ServletExec(s, u, f) \in MicropaySelf
         /\ f.func = "lst" \/ ~MP!ServletAccepts(s, u, f) => MP!ServletExec(s, u, f) = s
<1>1. MP!ServletExec(s, u, f) = MP!MicropayExec(s, u, f) /\ f.amount \in Int /\ -f.amount \in Int
  BY DEF MP!ServletExec, MicropaySelf, MicropayCall
<1>2. CASE f.func = "transfer"
  BY <1>1, <1>2, CreditType DEF MP!MicropayExec, MP!ServletAccepts
<1>3. CASE f.func = "deposit"
  BY <1>1, <1>3, CreditType DEF MP!MicropayExec, MP!ServletAccepts
<1>4. CASE f.func = "withdraw"
  <2> DEFINE t == MP!Credit(s, u, -f.amount)
  <2>1. t \in MicropaySelf
    BY <1>1, CreditType
  <2>2. MP!MicropayExec(s, u, f) = [t EXCEPT !.withdraw[u] = @ + f.amount]
    BY <1>4 DEF MP!MicropayExec
  <2> HIDE DEF t
  <2>3. [t EXCEPT !.withdraw[u] = @ + f.amount] \in MicropaySelf
    BY <1>1, <2>1 DEF MicropaySelf
  <2>4. QED
    BY <1>1, <1>4, <2>2, <2>3 DEF MP!ServletAccepts
<1>5. CASE f.func = "start"
  <2>1. [s EXCEPT !.state = "Started"] \in MicropaySelf
    BY DEF MicropaySelf
  <2>2. QED
    BY <1>1, <1>5, <2>1 DEF MP!MicropayExec, MP!ServletAccepts
<1>6. CASE f.func = "lst"
  BY <1>1, <1>6 DEF MP!MicropayExec
<1>7. QED
  BY <1>2, <1>3, <1>4, <1>5, <1>6 DEF MicropayCall

LEMMA MicropayServlets ==
  ASSUME RunsMicropay
  PROVE  \E S : Servlets(S)
<1> DEFINE S == [p \in Proc |-> IF p \in Peer THEN MicropaySelf
                                ELSE IF p \in Master THEN CMicropaySelf ELSE {Self0[p]}]
<1>1. \A p \in Proc : S[p] = IF p \in Peer THEN MicropaySelf
                             ELSE IF p \in Master THEN CMicropaySelf ELSE {Self0[p]}
  OBVIOUS
<1> HIDE DEF S
<1>2. \A p \in Proc : Self0[p] \in S[p]
  BY <1>1 DEF RunsMicropay
<1>3. ASSUME NEW p \in Proc
      PROVE  \A f \in Handles(p) : /\ MicropayCall(f)
                                   /\ p \notin Peer => f.func \in {"deposit", "withdraw"}
  BY ProcAssumption DEF Handles, RunsMicropay
<1>4. ASSUME NEW p \in Proc, NEW s \in S[p], NEW u \in Proc, NEW f \in Handles(p)
      PROVE  /\ Exec(s, u, f) \in S[p]
             /\ f \in Volatile \/ ~Accepts(s, u, f) => Exec(s, u, f) = s
  <2>1. MicropayCall(f) /\ (p \notin Peer => f.func \in {"deposit", "withdraw"})
    BY <1>3
  <2>2. Exec(s, u, f) = MP!ServletExec(s, u, f) /\ Accepts(s, u, f) = MP!ServletAccepts(s, u, f)
        /\ (f \in Volatile => f.func = "lst")
    BY DEF RunsMicropay
  <2>3. CASE p \in Peer
    <3>1. S[p] = MicropaySelf /\ s \in MicropaySelf
      BY <1>1, <2>3
    <3>2. /\ MP!ServletExec(s, u, f) \in MicropaySelf
          /\ f.func = "lst" \/ ~MP!ServletAccepts(s, u, f) => MP!ServletExec(s, u, f) = s
      BY <2>1, <3>1, MicropayExecType
    <3>3. QED
      BY <2>2, <3>1, <3>2
  <2>4. CASE p \notin Peer
    <3>1. p \in Master
      BY <2>4 DEF Handles
    <3>2. S[p] = CMicropaySelf /\ s \in CMicropaySelf /\ f.amount \in Int /\ -f.amount \in Int
      <4>1. S[p] = CMicropaySelf
        BY <1>1, <2>4, <3>1
      <4>2. QED
        BY <2>1, <4>1 DEF MicropayCall
    <3>3. MP!ServletExec(s, u, f) = IF f.func = "deposit" THEN MP!Credit(s, u, f.amount)
                                    ELSE MP!Credit(s, u, -f.amount)
      BY <2>1, <2>4, <3>2 DEF MP!ServletExec, MP!CMicropayExec, CMicropaySelf
    <3>4. MP!ServletAccepts(s, u, f) /\ f \notin Volatile
      BY <2>1, <2>2, <2>4 DEF MP!ServletAccepts
    <3>5. QED
      <4>1. MP!ServletExec(s, u, f) \in CMicropaySelf
        BY <3>2, <3>3, CreditType
      <4>2. QED
        BY <2>2, <3>2, <3>4, <4>1
  <2>5. QED
    BY <2>3, <2>4
<1>5. ASSUME NEW p \in Peer, NEW m \in Master, NEW s \in S[p], NEW u \in Proc, NEW c \in Proc,
             NEW f \in Handles(m)
      PROVE  Return(s, u, c, f) \in S[p]
  <2>1. MicropayCall(f) /\ f.func \in {"deposit", "withdraw"} /\ S[p] = MicropaySelf
    BY <1>1, <1>3, ProcAssumption DEF Proc
  <2>2. Return(s, u, c, f) = IF f.func = "deposit" THEN MP!Credit(s, c, f.amount)
                             ELSE [s EXCEPT !.withdraw[u] = @ - f.amount]
    BY <2>1 DEF RunsMicropay, MP!MicropayReturn
  <2>3. MP!Credit(s, c, f.amount) \in MicropaySelf
    BY <2>1, CreditType DEF MicropayCall
  <2>4. [s EXCEPT !.withdraw[u] = @ - f.amount] \in MicropaySelf
    BY <2>1 DEF MicropaySelf, MicropayCall
  <2>5. QED
    BY <2>1, <2>2, <2>3, <2>4
<1>6. Servlets(S)
  BY <1>2, <1>4, <1>5 DEF Servlets
<1>7. QED
  BY <1>6

(* The processes of a payment channel of two users or more mirror one      *)
(* another: all of the above holds of it, whatever their number.           *)
THEOREM PaymentChannel ==
  ASSUME RunsMicropay, Mirrored, IsFiniteSet(Peer), Peer # {}, \A p \in Peer : Peer # {p}
  PROVE  Spec => /\ []SelfIsReplay /\ []ReplayListsAgree
                 /\ []NoDeadlock /\ []CommittedInOrder
                 /\ ImplementsCallLog
<1>1. PICK S : Servlets(S)
  BY MicropayServlets
<1>2. Spec => []SelfIsReplay
  BY <1>1, SelfReplays
<1>3. Spec => []ReplayListsAgree
  BY <1>1, MirrorsAgree
<1>4. Spec => []NoDeadlock
  BY <1>1, NobodyWaitsForEver
<1>5. Spec => []CommittedInOrder
  BY <1>1, MasterInOrder
<1>6. Spec => ImplementsCallLog
  BY <1>1, OneLog
<1>7. QED
  BY <1>2, <1>3, <1>4, <1>5, <1>6

-----------------------------------------------------------------------------
(***************************************************************************)
(* Over the network, every host steps its own process, and what it sends   *)
(* to the others is on its way for a while.  First, for any hosts, any     *)
(* group without a master, and whatever is lost: SafetyInv is kept, and    *)
(* every ack on its way bears true marks.                                  *)
(***************************************************************************)

(* The other processes of a list are some of the list. *)
LEMMA OthersType ==
  ASSUME NEW T, NEW list \in Seq(T), NEW p
  PROVE  Others(list, p) \in Seq(T)
BY DEF Others, Without

LEMMA PacketsType ==
  ASSUME NEW T \in SUBSET Proc, NEW targets \in Seq(T), NEW m \in Call
  PROVE  /\ Packets(targets, m) \in Seq(Packet)
         /\ DOMAIN Packets(targets, m) = DOMAIN targets
         /\ \A i \in DOMAIN targets :
              Packets(targets, m)[i].to \in T /\ Packets(targets, m)[i].msg = m
<1>1. \A i \in DOMAIN targets : targets[i] \in T /\ targets[i] \in Proc
  OBVIOUS
<1>2. DOMAIN Packets(targets, m) = DOMAIN targets
  BY DEF Packets
<1>3. \A i \in DOMAIN targets : Packets(targets, m)[i] = [to |-> targets[i], msg |-> m]
  BY DEF Packets
<1>4. \A i \in DOMAIN targets : Packets(targets, m)[i] \in Packet
  <2>1. \A t \in Proc : [to |-> t, msg |-> m] \in Packet
    BY DEF Packet
  <2>2. QED
    BY <1>1, <1>3, <2>1
<1>5. Packets(targets, m) \in Seq(Packet)
  <2>1. DOMAIN targets = 1 .. Len(targets) /\ Len(targets) \in Nat
    OBVIOUS
  <2>2. Packets(targets, m) \in [1 .. Len(targets) -> Packet]
    BY <1>4, <2>1 DEF Packets
  <2>3. QED
    BY <2>1, <2>2
<1>6. QED
  BY <1>1, <1>2, <1>3, <1>5

LEMMA RemoteType ==
  ASSUME NEW p \in Proc, NEW to \in Proc \cup {Group}
  PROVE  Remote(p, to) \in Seq(Proc)
<1>1. PeerList \in Seq(Proc)
  BY NetAssumption DEF Proc
<1>2. (IF to = Group THEN PeerList ELSE <<to>>) \in Seq(Proc)
  BY <1>1
<1>3. QED
  BY <1>2, OthersType DEF Remote

LEMMA AckedPeersType ==
  ASSUME NEW p \in Proc
  PROVE  AckedPeers(p) \in Seq(Peer)
BY OthersType, NetAssumption DEF AckedPeers

(* A true packet stays one. *)
LEMMA TruePacketKept ==
  ASSUME SafetyInv, Moved, NEW w, TruePacket(w)
  PROVE  TruePacket(w)'
<1>1. ASSUME NEW q \in Peer, LoggedAt(q, w.msg)
      PROVE  LoggedAt(q, w.msg)'
  <2> DEFINE k == w.msg.innb + 1
  <2>1. k \in DOMAIN rl[q] /\ SameCall(w.msg, rl[q][k])
    BY <1>1 DEF LoggedAt
  <2>2. k \in DOMAIN rl'[q] /\ SameEntry(rl[q][k], rl'[q][k])
    BY <2>1, EntryKept DEF Proc
  <2>3. SameCall(w.msg, rl'[q][k])
    BY <2>1, <2>2 DEF SameEntry, SameCall
  <2>4. QED
    BY <2>2, <2>3 DEF LoggedAt, SameCall
<1>2. QED
  BY <1>1 DEF TruePacket

(* A host transmits the next message of OUT: its own process may receive   *)
(* it, and it is on its way to the others.                                 *)
LEMMA NetOutStepFacts ==
  ASSUME SafetyInv, NEW p \in Proc, NetOutStep(p), NEW m, m = Transmitted(p)
  PROVE  /\ outptr[p] \in DOMAIN out[p] /\ SameRequest(out[p][outptr[p]], m)
         /\ m \in Call /\ m.from = p /\ ~m.ack /\ ~m.ackall /\ m.sign \subseteq {p}
         /\ out' = [out EXCEPT ![p][outptr[p]] = m]
         /\ out' \in [Proc -> Seq(Call)] /\ \A q \in Proc : Len(out'[q]) = Len(out[q])
         /\ in' \in [Proc -> Seq(Call)] /\ \A q \in Proc : q # p => in'[q] = in[q]
         /\ in'[p] = IF p \in Dest(m.to) THEN Posted(in[p], m) ELSE in[p]
         /\ Len(in[p]) <= Len(in'[p])
         /\ outbox' = [outbox EXCEPT ![p] = Packets(Remote(p, m.to), m)]
<1>1. TypeOK
  BY DEF SafetyInv, QueueInv
<1>2. outptr[p] \in DOMAIN out[p] /\ out[p] \in Seq(Call)
  BY <1>1 DEF NetOutStep, OutIdle, TypeOK
<1> DEFINE c == out[p][outptr[p]]
<1>3. c \in Call /\ c.from = p /\ ~c.ack /\ ~c.ackall /\ c.sign \subseteq {p}
  BY <1>2 DEF SafetyInv, OutFresh
<1>4. m = [c EXCEPT !.sign = @ \cup {p}]
  BY DEF Transmitted, Marks
<1> HIDE DEF c
<1>5. /\ m \in Call /\ m.from = p /\ ~m.ack /\ ~m.ackall /\ m.sign \subseteq {p}
      /\ SameRequest(c, m)
  BY <1>3, <1>4 DEF Call, SameRequest, SameCall
<1>6. /\ out' = [out EXCEPT ![p][outptr[p]] = m]
      /\ in' = [in EXCEPT ![p] = IF p \in Dest(m.to) THEN Posted(@, m) ELSE @]
      /\ outbox' = [outbox EXCEPT ![p] = Packets(Remote(p, m.to), m)]
  BY DEF NetOutStep
<1>7. /\ out' \in [Proc -> Seq(Call)]
      /\ \A q \in Proc : Len(out'[q]) = Len(out[q])
  BY <1>1, <1>2, <1>5, <1>6 DEF TypeOK
<1>8. in[p] \in Seq(Call) /\ Posted(in[p], m) \in Seq(Call) /\ Len(in[p]) <= Len(Posted(in[p], m))
  BY <1>1, <1>5, PostedType DEF TypeOK
<1>9. /\ in' \in [Proc -> Seq(Call)] /\ \A q \in Proc : q # p => in'[q] = in[q]
      /\ in'[p] = IF p \in Dest(m.to) THEN Posted(in[p], m) ELSE in[p]
  BY <1>1, <1>6, <1>8 DEF TypeOK
<1>10. Len(in[p]) <= Len(in'[p])
  BY <1>8, <1>9
<1>11. QED
  BY <1>2, <1>5, <1>6, <1>7, <1>9, <1>10 DEF c

LEMMA NetOutStepQueues ==
  ASSUME SafetyInv, NEW p \in Proc, NetOutStep(p)
  PROVE  QueueInv'
<1>1. TypeOK /\ QueueState
  BY DEF SafetyInv, QueueInv
<1> DEFINE m == Transmitted(p)
           idle == inptr[p] > Len(in'[p]) /\ outptr'[p] > Len(out[p])
<1>2. /\ outptr[p] \in DOMAIN out[p]
      /\ out' \in [Proc -> Seq(Call)] /\ \A q \in Proc : Len(out'[q]) = Len(out[q])
      /\ in' \in [Proc -> Seq(Call)] /\ \A q \in Proc : q # p => in'[q] = in[q]
      /\ Len(in[p]) <= Len(in'[p])
      /\ out' = [out EXCEPT ![p][outptr[p]] = m]
  BY NetOutStepFacts
<1>3. /\ outptr' = [outptr EXCEPT ![p] = @ + 1]
      /\ state' = [state EXCEPT ![p] = Updated(@, idle)]
      /\ UNCHANGED <<self, inptr, rl, cond>>
  BY DEF NetOutStep
<1> HIDE DEF m
<1>4. outptr' \in [Proc -> Nat \ {0}] /\ \A q \in Proc : outptr'[q] <= Len(out'[q]) + 1
  BY <1>1, <1>2, <1>3 DEF TypeOK
<1>5. state' \in [Proc -> {"Idle", "Active", "Waiting"}]
  BY <1>1, <1>3, UpdatedType DEF TypeOK
<1>6. ASSUME NEW q \in Proc
      PROVE  inptr'[q] <= Len(in'[q]) + 1
  <2>1. inptr[q] \in Nat /\ inptr[q] <= Len(in[q]) + 1 /\ inptr'[q] = inptr[q]
    BY <1>1, <1>3 DEF TypeOK
  <2>2. Len(in[q]) \in Nat /\ Len(in'[q]) \in Nat
    BY <1>1, <1>2, SMTT(30) DEF TypeOK
  <2>3. Len(in[q]) <= Len(in'[q])
    BY <1>2, <2>2
  <2>4. QED
    BY <2>1, <2>2, <2>3
<1>7. TypeOK'
  BY <1>1, <1>2, <1>3, <1>4, <1>5, <1>6 DEF TypeOK
<1>8. ASSUME NEW q \in Proc
      PROVE  QueueStateOf(q)'
  <2>1. CASE q = p
    <3>1. idle <=> (InIdle(p)' /\ OutIdle(p)')
      BY <1>2, <1>3 DEF InIdle, OutIdle
    <3>2. idle \in BOOLEAN
      OBVIOUS
    <3>3. state'[p] = Updated(state[p], idle) /\ cond'[p] = cond[p] /\ rl' = rl
      BY <1>1, <1>3 DEF TypeOK
    <3> HIDE DEF idle
    <3>4. QED
      BY <1>1, <2>1, <3>1, <3>2, <3>3, QueueStateUpdated
  <2>2. CASE q # p
    <3>1. /\ in'[q] = in[q] /\ outptr'[q] = outptr[q] /\ state'[q] = state[q]
          /\ inptr' = inptr /\ rl' = rl /\ cond' = cond /\ Len(out'[q]) = Len(out[q])
      BY <1>1, <1>2, <1>3, <2>2 DEF TypeOK
    <3>2. QED
      BY <1>1, <3>1, QueueStateStable DEF InIdle, OutIdle
  <2>3. QED
    BY <2>1, <2>2
<1>9. QED
  BY <1>7, <1>8 DEF QueueInv, QueueState, QueueStateOf

LEMMA NetOutStepMoves ==
  ASSUME SafetyInv, NEW p \in Proc, NetOutStep(p)
  PROVE  Moved /\ OutFresh'
<1> DEFINE m == Transmitted(p)
<1>1. /\ TypeOK /\ OutFresh /\ inptr' = inptr /\ rl' = rl
  BY DEF SafetyInv, QueueInv, NetOutStep
<1>2. /\ outptr[p] \in DOMAIN out[p]
      /\ m \in Call /\ m.from = p /\ ~m.ack /\ ~m.ackall /\ m.sign \subseteq {p}
      /\ out' = [out EXCEPT ![p][outptr[p]] = m]
      /\ \A q \in Proc : q # p => in'[q] = in[q]
      /\ in'[p] = IF p \in Dest(m.to) THEN Posted(in[p], m) ELSE in[p]
  BY NetOutStepFacts
<1> HIDE DEF m
<1>3. ASSUME NEW q \in Proc
      PROVE  InStepOf(q)
  <2>1. CASE in'[q] = in[q]
    BY <1>1, <2>1, InUnchanged
  <2>2. CASE q = p /\ in'[q] = Posted(in[q], m)
    BY <1>1, <1>2, <2>2, PostedFresh
  <2>3. QED
    BY <1>2, <2>1, <2>2
<1>4. ASSUME NEW q \in Proc
      PROVE  RlGrowsOf(q)
  BY <1>1 DEF RlGrowsOf
<1>5. \A q \in Proc : \A i \in DOMAIN out'[q] :
        i \in DOMAIN out[q] /\ (out'[q][i] = out[q][i] \/ (q = p /\ out'[q][i] = m))
  BY <1>1, <1>2 DEF TypeOK
<1>6. OutFresh'
  BY <1>1, <1>2, <1>5 DEF OutFresh
<1>7. QED
  BY <1>3, <1>4, <1>6 DEF Moved

(* A host performs a call: only its own process changes, and the acks for  *)
(* the others leave their host later.                                      *)
LEMMA NetExecuteFacts ==
  ASSUME SafetyInv, NEW p \in Proc, NetExecute(p)
  PROVE  /\ ~InIdle(p) /\ OutIdle(p) /\ state[p] = "Active" /\ cond[p] = 0
         /\ ~Current(p).ack /\ Current(p) \in Call /\ inptr[p] \in DOMAIN in[p]
         /\ Entry(p) \in Call /\ Done(p) \in Call /\ Ack(p) \in Call
         /\ SameMessage(Current(p), Done(p))
         /\ Awaits(p) => Logs(p) /\ p \notin Master
         /\ rl' \in [Proc -> Seq(Call)]
         /\ \A q \in Proc : q # p => rl'[q] = rl[q]
         /\ rl'[p] = IF Logs(p) THEN Append(rl[p], Entry(p)) ELSE rl[p]
         /\ in' \in [Proc -> Seq(Call)]
         /\ \A q \in Proc : q # p => in'[q] = in[q]
         /\ in'[p] = [in[p] EXCEPT ![inptr[p]] = Done(p)]
         /\ \A q \in Proc : Len(in'[q]) = Len(in[q])
         /\ \A q \in Proc : inptr'[q] = IF q = p THEN inptr[p] + 1 ELSE inptr[q]
         /\ \A q \in Proc : cond'[q] = IF q = p /\ Awaits(p) THEN Len(rl[p]) + 1 ELSE cond[q]
         /\ out' = out /\ outptr' = outptr
<1>1. TypeOK /\ QueueState
  BY DEF SafetyInv, QueueInv
<1>2. ~InIdle(p) /\ OutIdle(p) /\ state[p] = "Active" /\ ~Current(p).ack
  BY DEF NetExecute, Ready
<1>3. Current(p) \in Call /\ inptr[p] \in DOMAIN in[p]
  BY <1>1, <1>2, CurrentType
<1>4. Entry(p) \in Call /\ Done(p) \in Call /\ Ack(p) \in Call
  BY <1>1, <1>2, ExecuteCalls
<1>5. SameMessage(Current(p), Done(p))
  BY <1>3 DEF Done, Ran, SameMessage, Call
<1>6. Awaits(p) => Logs(p) /\ p \notin Master
  BY DEF Awaits, Acks, Logs
<1>7. /\ rl' = [rl EXCEPT ![p] = IF Logs(p) THEN Append(@, Entry(p)) ELSE @]
      /\ in' = [in EXCEPT ![p] = [@ EXCEPT ![inptr[p]] = Done(p)]]
      /\ inptr' = [inptr EXCEPT ![p] = @ + 1]
      /\ cond' = [cond EXCEPT ![p] = IF Awaits(p) THEN Len(rl[p]) + 1 ELSE @]
      /\ out' = out /\ outptr' = outptr
  BY DEF NetExecute, Consume
<1>8. rl \in [Proc -> Seq(Call)] /\ in \in [Proc -> Seq(Call)]
      /\ inptr \in [Proc -> Nat \ {0}] /\ cond \in [Proc -> Nat]
  BY <1>1 DEF TypeOK
<1>9. /\ rl' \in [Proc -> Seq(Call)]
      /\ \A q \in Proc : q # p => rl'[q] = rl[q]
      /\ rl'[p] = IF Logs(p) THEN Append(rl[p], Entry(p)) ELSE rl[p]
  BY <1>4, <1>7, <1>8
<1>10. /\ in' \in [Proc -> Seq(Call)]
       /\ \A q \in Proc : q # p => in'[q] = in[q]
       /\ in'[p] = [in[p] EXCEPT ![inptr[p]] = Done(p)]
       /\ \A q \in Proc : Len(in'[q]) = Len(in[q])
  BY <1>3, <1>4, <1>7, <1>8
<1>11. cond[p] = 0
  BY <1>1, <1>2 DEF QueueState
<1>12. \A q \in Proc : inptr'[q] = IF q = p THEN inptr[p] + 1 ELSE inptr[q]
  BY <1>7, <1>8
<1>13. \A q \in Proc : cond'[q] = IF q = p /\ Awaits(p) THEN Len(rl[p]) + 1 ELSE cond[q]
  BY <1>7, <1>8
<1>14. QED
  BY <1>2, <1>3, <1>4, <1>5, <1>6, <1>7, <1>9, <1>10, <1>11, <1>12, <1>13

LEMMA NetExecuteQueues ==
  ASSUME SafetyInv, NEW p \in Proc, NetExecute(p)
  PROVE  QueueInv'
<1>1. TypeOK /\ QueueState
  BY DEF SafetyInv, QueueInv
<1>2. /\ self' = [self EXCEPT ![p] = Run(p, Current(p))]
      /\ Consume(p)
      /\ state' = [state EXCEPT ![p] = IF Awaits(p) THEN "Waiting" ELSE Updated(@, Idle(p))]
      /\ cond' = [cond EXCEPT ![p] = IF Awaits(p) THEN Len(rl[p]) + 1 ELSE @]
  BY DEF NetExecute
<1>3. /\ ~InIdle(p) /\ OutIdle(p) /\ cond[p] = 0
      /\ rl' \in [Proc -> Seq(Call)] /\ in' \in [Proc -> Seq(Call)]
      /\ \A q \in Proc : Len(in'[q]) = Len(in[q])
      /\ \A q \in Proc : q # p => rl'[q] = rl[q]
      /\ rl'[p] = IF Logs(p) THEN Append(rl[p], Entry(p)) ELSE rl[p]
      /\ \A q \in Proc : inptr'[q] = IF q = p THEN inptr[p] + 1 ELSE inptr[q]
      /\ \A q \in Proc : cond'[q] = IF q = p /\ Awaits(p) THEN Len(rl[p]) + 1 ELSE cond[q]
      /\ out' = out /\ outptr' = outptr
      /\ Awaits(p) => Logs(p) /\ p \notin Master
  BY NetExecuteFacts
<1>4. rl[p] \in Seq(Call) /\ Len(rl[p]) \in Nat /\ (Logs(p) => Len(rl'[p]) = Len(rl[p]) + 1)
  <2>1. rl[p] \in Seq(Call) /\ Entry(p) \in Call
    BY <1>1, NetExecuteFacts DEF TypeOK
  <2>2. QED
    BY <1>3, <2>1
<1>5. state' \in [Proc -> {"Idle", "Active", "Waiting"}]
  <2>1. state \in [Proc -> {"Idle", "Active", "Waiting"}] /\ Idle(p) \in BOOLEAN
    BY <1>1 DEF TypeOK, Idle
  <2>2. Updated(state[p], Idle(p)) \in {"Idle", "Active", "Waiting"}
    BY <2>1, UpdatedType
  <2>3. QED
    BY <1>2, <2>1, <2>2
<1>6. inptr' \in [Proc -> Nat \ {0}] /\ \A q \in Proc : inptr'[q] <= Len(in'[q]) + 1
  BY <1>1, <1>2, <1>3, ConsumeType
<1>7. cond' \in [Proc -> Nat] /\ \A q \in Proc : cond'[q] <= Len(rl'[q])
  <2>1. cond \in [Proc -> Nat] /\ \A q \in Proc : cond[q] <= Len(rl[q])
    BY <1>1 DEF TypeOK
  <2>2. cond' \in [Proc -> Nat]
    BY <1>2, <1>4, <2>1
  <2>3. ASSUME NEW q \in Proc
        PROVE  cond'[q] <= Len(rl'[q])
    <3>1. CASE q = p
      BY <1>3, <1>4, <2>1, <3>1
    <3>2. CASE q # p
      BY <1>3, <2>1, <3>2
    <3>3. QED
      BY <3>1, <3>2
  <2>4. QED
    BY <2>2, <2>3
<1>8. TypeOK'
  BY <1>1, <1>2, <1>3, <1>5, <1>6, <1>7 DEF TypeOK
<1>9. ASSUME NEW q \in Proc
      PROVE  QueueStateOf(q)'
  <2>1. CASE q = p /\ Awaits(p)
    <3>1. state'[p] = "Waiting" /\ cond'[p] = Len(rl'[p]) /\ cond'[p] # 0 /\ p \notin Master
      BY <1>1, <1>2, <1>3, <1>4, <2>1 DEF TypeOK
    <3>2. QED
      BY <2>1, <3>1 DEF QueueStateOf
  <2>2. CASE q = p /\ ~Awaits(p)
    <3>1. Idle(p) <=> (InIdle(p)' /\ OutIdle(p)')
      BY <1>3 DEF Idle, InIdle, OutIdle
    <3>2. Idle(p) \in BOOLEAN
      BY DEF Idle
    <3>3. state'[p] = Updated(state[p], Idle(p)) /\ cond'[p] = cond[p]
      BY <1>1, <1>2, <1>3, <2>2 DEF TypeOK
    <3>4. QED
      BY <1>1, <1>3, <2>2, <3>1, <3>2, <3>3, QueueStateUpdated
  <2>3. CASE q # p
    <3>1. /\ rl'[q] = rl[q] /\ cond'[q] = cond[q] /\ inptr'[q] = inptr[q]
          /\ Len(in'[q]) = Len(in[q]) /\ state'[q] = state[q]
      BY <1>1, <1>2, <1>3, <2>3 DEF TypeOK
    <3>2. QED
      BY <1>1, <1>3, <3>1, QueueStateStable DEF InIdle, OutIdle
  <2>4. QED
    BY <2>1, <2>2, <2>3
<1>10. QED
  BY <1>8, <1>9 DEF QueueInv, QueueState, QueueStateOf

LEMMA NetExecuteMoves ==
  ASSUME SafetyInv, NEW p \in Proc, NetExecute(p)
  PROVE  Moved /\ OutFresh' /\ Performs(p)
<1>1. TypeOK /\ OutFresh
  BY DEF SafetyInv, QueueInv
<1>2. Performs(p)
  <2>1. /\ self'[p] = Run(p, Current(p)) /\ inptr' = [inptr EXCEPT ![p] = @ + 1]
        /\ Ready(p, "Active") /\ ~Current(p).ack /\ ~FailAcked(p)
    BY <1>1 DEF NetExecute, Consume, TypeOK
  <2>2. QED
    BY <2>1, NetExecuteFacts DEF Performs
<1>3. ASSUME NEW q \in Proc
      PROVE  InStepOf(q)
  <2>1. CASE q = p
    <3>1. Done(p) \in Call /\ SameMessage(Current(p), Done(p))
      BY NetExecuteFacts
    <3>2. /\ ~InIdle(p) /\ ~Current(p).ack /\ inptr'[p] = inptr[p] + 1
          /\ in'[p] = [in[p] EXCEPT ![inptr[p]] = Done(p)]
      BY NetExecuteFacts
    <3>3. QED
      BY <1>1, <2>1, <3>1, <3>2, CallConsumed
  <2>2. CASE q # p
    <3>1. in'[q] = in[q] /\ inptr'[q] = inptr[q]
      BY <2>2, NetExecuteFacts
    <3>2. QED
      BY <1>1, <3>1, InUnchanged
  <2>3. QED
    BY <2>1, <2>2
<1>4. ASSUME NEW q \in Proc
      PROVE  RlGrowsOf(q)
  <2>1. CASE rl'[q] = rl[q]
    BY <2>1 DEF RlGrowsOf
  <2>2. CASE q = p /\ Logs(p)
    <3>1. rl'[p] = Append(rl[p], Entry(p)) /\ rl[p] \in Seq(Call) /\ Entry(p) \in Call
      BY <1>1, <2>2, NetExecuteFacts DEF TypeOK
    <3>2. \A k \in DOMAIN rl[p] : k \in DOMAIN rl'[p] /\ rl'[p][k] = rl[p][k]
      BY <3>1
    <3>3. \A k \in DOMAIN rl'[p] : k \in DOMAIN rl[p] \/
            (k = Len(rl[p]) + 1 /\ rl'[p][k] = Entry(p))
      BY <3>1
    <3>4. QED
      BY <1>2, <2>2, <3>2, <3>3 DEF RlGrowsOf
  <2>3. QED
    BY <2>1, <2>2, NetExecuteFacts
<1>5. OutFresh'
  <2>1. out' = out
    BY NetExecuteFacts
  <2>2. QED
    BY <1>1, <2>1 DEF OutFresh
<1>6. QED
  BY <1>2, <1>3, <1>4, <1>5 DEF Moved

(* What is left of a sequence whose first element is taken.                *)
LEMMA WithoutFirst ==
  ASSUME NEW T, NEW s \in Seq(T), s # <<>>
  PROVE  /\ Without(s, 1) \in Seq(T) /\ Len(Without(s, 1)) = Len(s) - 1
         /\ \A i \in DOMAIN Without(s, 1) :
              i \in Nat \ {0} /\ i + 1 \in DOMAIN s /\ Without(s, 1)[i] = s[i + 1]
         /\ 1 \in DOMAIN s /\ s[1] \in T
         /\ \A i \in DOMAIN s :
              i = 1 \/ (i - 1 \in DOMAIN Without(s, 1) /\ Without(s, 1)[i - 1] = s[i])
<1> DEFINE n == Len(s)
           t == SubSeq(s, 2, n)
<1>1. n \in Nat \ {0} /\ DOMAIN s = 1 .. n /\ \A i \in 1 .. n : s[i] \in T
  OBVIOUS
<1>2. /\ t \in Seq(T) /\ Len(t) = n - 1 /\ DOMAIN t = 1 .. n - 1
      /\ \A i \in 1 .. n - 1 : t[i] = s[i + 1]
  BY <1>1
<1>3. SubSeq(s, 1, 0) = <<>>
  OBVIOUS
<1> HIDE DEF t
<1>4. Without(s, 1) = t
  <2>1. <<>> \o t = t
    BY <1>2
  <2>2. Without(s, 1) = SubSeq(s, 1, 0) \o t
    BY DEF Without, t
  <2>3. QED
    BY <1>3, <2>1, <2>2
<1>5. /\ \A i \in DOMAIN t : i \in Nat \ {0} /\ i + 1 \in DOMAIN s /\ t[i] = s[i + 1]
      /\ \A i \in DOMAIN s : i = 1 \/ (i - 1 \in DOMAIN t /\ t[i - 1] = s[i])
  <2>1. \A i \in DOMAIN t : i \in Nat \ {0} /\ i + 1 \in 1 .. n /\ t[i] = s[i + 1]
    BY <1>1, <1>2
  <2>2. \A i \in 1 .. n : i = 1 \/ (i - 1 \in 1 .. n - 1 /\ t[i - 1] = s[i - 1 + 1])
    BY <1>1, <1>2
  <2>3. QED
    BY <1>1, <1>2, <2>1, <2>2
<1>6. 1 \in DOMAIN s /\ s[1] \in T
  BY <1>1
<1>7. QED
  BY <1>2, <1>4, <1>5, <1>6

(* A host accepts the oldest of the messages sent to it.                   *)
LEMMA ReceiveFacts ==
  ASSUME NetSafetyInv, NEW h \in Host, Receive(h), NEW w, w = net[h][1]
  PROVE  /\ w \in Packet /\ w.to \in Proc /\ w.msg \in Call /\ TruePacket(w)
         /\ net[h] # <<>> /\ net[h] \in Seq(Packet) /\ outbox[h] = <<>>
         /\ net' = [net EXCEPT ![h] = Without(@, 1)]
         /\ \/ /\ w.to = h
               /\ in' = [in EXCEPT ![h] = Posted(@, w.msg)]
               /\ state' = [state EXCEPT ![h] =
                    Updated(@, inptr[h] > Len(in'[h]) /\ OutIdle(h))]
               /\ outbox' = outbox
            \/ w.to # h /\ outbox' = [outbox EXCEPT ![h] = <<w>>] /\ in' = in /\ state' = state
         /\ fresh' = [fresh EXCEPT ![h] = TRUE] /\ lost' = lost
         /\ UNCHANGED <<self, inptr, rl, out, outptr, cond>>
<1>1. net[h] \in Seq(Packet) /\ net[h] # <<>>
  BY DEF NetSafetyInv, NetTypeOK, Receive
<1>2. 1 \in DOMAIN net[h] /\ w \in Packet
  BY <1>1, WithoutFirst
<1>3. w.to \in Proc /\ w.msg \in Call /\ TruePacket(w)
  BY <1>2 DEF Packet, NetSafetyInv, PacketsTrue
<1>4. QED
  BY <1>1, <1>2, <1>3 DEF Receive, Oldest, Free

LEMMA ReceiveQueues ==
  ASSUME NetSafetyInv, NEW h \in Host, Receive(h)
  PROVE  QueueInv' /\ Moved /\ OutFresh'
<1>1. SafetyInv /\ TypeOK /\ QueueState /\ OutFresh
  BY DEF NetSafetyInv, SafetyInv, QueueInv
<1> DEFINE w == net[h][1]
           m == w.msg
<1>2. /\ w.to \in Proc /\ m \in Call /\ TruePacket(w)
      /\ \/ /\ w.to = h
            /\ in' = [in EXCEPT ![h] = Posted(@, m)]
            /\ state' = [state EXCEPT ![h] =
                    Updated(@, inptr[h] > Len(in'[h]) /\ OutIdle(h))]
         \/ in' = in /\ state' = state
      /\ UNCHANGED <<self, inptr, rl, out, outptr, cond>>
  BY ReceiveFacts
<1> DEFINE idle == inptr[h] > Len(in'[h]) /\ OutIdle(h)
<1>3. TruePacket(w) <=> /\ ~m.ackall
                        /\ ~m.ack => m.sign \subseteq {m.from}
                        /\ m.ack => w.to \in Peer /\ \A q \in (m.sign \cap Peer) \ {m.from} : LoggedAt(q, m)
  BY DEF TruePacket
<1> HIDE DEF m
<1>4. CASE in' = in /\ state' = state
  <2>1. QueueInv'
    BY <1>1, <1>2, <1>4 DEF TypeOK, QueueState, QueueInv, InIdle, OutIdle
  <2>2. Moved
    BY <1>1, <1>2, <1>4, InUnchanged DEF Moved, RlGrowsOf
  <2>3. QED
    BY <1>1, <1>2, <2>1, <2>2 DEF OutFresh
<1>5. CASE /\ h \in Proc /\ w.to = h
           /\ in' = [in EXCEPT ![h] = Posted(@, m)]
           /\ state' = [state EXCEPT ![h] = Updated(@, idle)]
  <2>1. /\ in[h] \in Seq(Call) /\ Posted(in[h], m) \in Seq(Call)
        /\ Len(in[h]) <= Len(Posted(in[h], m))
    BY <1>1, <1>2, <1>5, PostedType DEF TypeOK
  <2>2. /\ in' \in [Proc -> Seq(Call)] /\ in'[h] = Posted(in[h], m)
        /\ \A q \in Proc : q # h => in'[q] = in[q]
    BY <1>1, <1>5, <2>1 DEF TypeOK
  <2>3. state' \in [Proc -> {"Idle", "Active", "Waiting"}]
    BY <1>1, <1>5, UpdatedType DEF TypeOK
  <2>4. ASSUME NEW q \in Proc
        PROVE  inptr'[q] <= Len(in'[q]) + 1
    <3>1. inptr[q] \in Nat /\ inptr[q] <= Len(in[q]) + 1 /\ inptr'[q] = inptr[q]
      BY <1>1, <1>2 DEF TypeOK
    <3>2. Len(in[q]) \in Nat /\ Len(in'[q]) \in Nat
      BY <1>1, <2>2, SMTT(30) DEF TypeOK
    <3>3. Len(in[q]) <= Len(in'[q])
      BY <2>1, <2>2, <3>2
    <3>4. QED
      BY <3>1, <3>2, <3>3
  <2>5. TypeOK'
    BY <1>1, <1>2, <2>2, <2>3, <2>4 DEF TypeOK
  <2>6. ASSUME NEW q \in Proc
        PROVE  QueueStateOf(q)'
    <3>1. CASE q = h
      <4>1. idle <=> (InIdle(h)' /\ OutIdle(h)')
        BY <1>2 DEF InIdle, OutIdle
      <4>2. idle \in BOOLEAN
        OBVIOUS
      <4>3. state'[h] = Updated(state[h], idle) /\ cond'[h] = cond[h] /\ rl' = rl
        BY <1>1, <1>2, <1>5 DEF TypeOK
      <4> HIDE DEF idle
      <4>4. QED
        BY <1>1, <3>1, <4>1, <4>2, <4>3, QueueStateUpdated
    <3>2. CASE q # h
      <4>1. /\ in'[q] = in[q] /\ state'[q] = state[q]
            /\ inptr' = inptr /\ rl' = rl /\ cond' = cond /\ out' = out /\ outptr' = outptr
        BY <1>1, <1>2, <1>5, <2>2, <3>2 DEF TypeOK
      <4>2. QED
        BY <1>1, <4>1, QueueStateStable DEF InIdle, OutIdle
    <3>3. QED
      BY <3>1, <3>2
  <2>7. QueueInv'
    BY <2>5, <2>6 DEF QueueInv, QueueState, QueueStateOf
  <2>8. ASSUME NEW q \in Proc
        PROVE  InStepOf(q)
    <3>1. inptr'[q] = inptr[q]
      BY <1>2
    <3>2. CASE q # h
      BY <1>1, <2>2, <3>1, <3>2, InUnchanged
    <3>3. CASE q = h /\ ~m.ack
      BY <1>1, <1>2, <1>3, <2>2, <3>1, <3>3, PostedFresh
    <3>4. CASE q = h /\ m.ack
      <4>1. in'[q] = Append(in[q], m)
        BY <2>2, <3>4 DEF Posted
      <4>2. FreshAck(q, m)
        BY <1>2, <1>3, <1>5, <3>4 DEF FreshAck, LoggedAt
      <4>3. QED
        BY <1>1, <1>2, <3>1, <4>1, <4>2, InAppended
    <3>5. QED
      BY <3>2, <3>3, <3>4
  <2>9. Moved
    BY <1>2, <2>8 DEF Moved, RlGrowsOf
  <2>10. QED
    BY <1>1, <1>2, <2>7, <2>9 DEF OutFresh
<1>6. QED
  BY <1>2, <1>4, <1>5

(* The steps that are those of a single host. *)
LEMMA QuietNext ==
  ASSUME NEW p \in Proc, NetSend(p) \/ QuietStep(p)
  PROVE  Next
<1>1. NetSend(p) => UserCommand(p)
  BY DEF NetSend, UserCommand
<1>2. QuietStep(p) => Step(p)
  BY DEF QuietStep, Step
<1>3. QED
  BY <1>1, <1>2 DEF Next

(* What may happen, and the steps that only concern messages.              *)
LEMMA NetCases ==
  ASSUME [NetNext]_allvars
  PROVE  \/ UNCHANGED allvars
         \/ \E p \in Proc : NetSend(p)
         \/ \E p \in Proc : Free(p) /\ NetOutStep(p) /\ net' = net /\ lost' = lost
                            /\ fresh' = [fresh EXCEPT ![p] = FALSE]
         \/ \E p \in Proc : Free(p) /\ NetExecute(p) /\ net' = net /\ lost' = lost
                            /\ fresh' = [fresh EXCEPT ![p] = FALSE]
         \/ \E p \in Proc : QuietStep(p) /\ net' = net /\ lost' = lost
                            /\ fresh' = [fresh EXCEPT ![p] = FALSE]
         \/ \E h \in Host : Transmit(h)
         \/ \E h \in Host : Lose(h)
         \/ \E h \in Host : Receive(h)
BY DEF NetNext, NetStep

LEMMA NetMoves ==
  ASSUME NetSafetyInv, [NetNext]_allvars
  PROVE  QueueInv' /\ Moved /\ OutFresh'
<1>1. SafetyInv /\ QueueInv
  BY DEF NetSafetyInv, SafetyInv
<1>2. CASE [Next]_vars
  BY <1>1, <1>2, QueueInvNext, OutFreshNext, StepMoves
<1>3. CASE UNCHANGED allvars
  BY <1>2, <1>3 DEF allvars
<1>4. ASSUME NEW p \in Proc, NetSend(p) \/ QuietStep(p)
      PROVE  [Next]_vars
  BY <1>4, QuietNext
<1>5. ASSUME NEW p \in Proc, NetOutStep(p)
      PROVE  QueueInv' /\ Moved /\ OutFresh'
  BY <1>1, <1>5, NetOutStepQueues, NetOutStepMoves
<1>6. ASSUME NEW p \in Proc, NetExecute(p)
      PROVE  QueueInv' /\ Moved /\ OutFresh'
  BY <1>1, <1>6, NetExecuteQueues, NetExecuteMoves
<1>7. ASSUME NEW h \in Host, Transmit(h) \/ Lose(h)
      PROVE  [Next]_vars
  BY <1>7 DEF Transmit, Lose
<1>8. ASSUME NEW h \in Host, Receive(h)
      PROVE  QueueInv' /\ Moved /\ OutFresh'
  BY <1>8, ReceiveQueues
<1>9. QED
  BY <1>2, <1>3, <1>4, <1>5, <1>6, <1>7, <1>8, NetCases

LEMMA NetSafetyStep ==
  ASSUME NetSafetyInv, [NetNext]_allvars
  PROVE  SafetyInv'
BY NetMoves, MovedSafetyInv DEF NetSafetyInv

(* The packets of the next state are those of this one, but for those that *)
(* a host has just made.                                                   *)
LEMMA PacketsKept ==
  ASSUME NetSafetyInv, Moved,
         \A h \in Host : \A w : (\E i \in DOMAIN outbox'[h] : w = outbox'[h][i]) =>
           \/ TruePacket(w)'
           \/ \E j \in DOMAIN outbox[h] : w = outbox[h][j]
           \/ \E j \in DOMAIN net[h] : w = net[h][j],
         \A h \in Host : \A w : (\E i \in DOMAIN net'[h] : w = net'[h][i]) =>
           \/ \E j \in DOMAIN net[h] : w = net[h][j]
           \/ \E g \in Host : \E j \in DOMAIN outbox[g] : w = outbox[g][j]
  PROVE  PacketsTrue'
<1>1. SafetyInv /\ PacketsTrue
  BY DEF NetSafetyInv
<1>2. ASSUME NEW w, TruePacket(w)
      PROVE  TruePacket(w)'
  BY <1>1, <1>2, TruePacketKept
<1>3. \A h \in Host : \A w : (\E i \in DOMAIN outbox'[h] : w = outbox'[h][i]) => TruePacket(w)'
  BY <1>1, <1>2 DEF PacketsTrue
<1>4. \A h \in Host : \A w : (\E i \in DOMAIN net'[h] : w = net'[h][i]) => TruePacket(w)'
  BY <1>1, <1>2 DEF PacketsTrue
<1>5. QED
  BY <1>3, <1>4 DEF PacketsTrue, TruePacket, LoggedAt, SameCall

(* Both parts of what the network must keep, for a step of a host that     *)
(* makes the packets of `made'.                                            *)
LEMMA HostSends ==
  ASSUME NetSafetyInv, Moved, NEW p \in Proc, NEW made \in Seq(Packet),
         outbox' = [outbox EXCEPT ![p] = made],
         net' = net, lost' = lost, fresh' = [fresh EXCEPT ![p] = FALSE],
         \A w : (\E i \in DOMAIN made : w = made[i]) => TruePacket(w)'
  PROVE  NetTypeOK' /\ PacketsTrue'
<1>1. NetTypeOK /\ p \in Host
  BY DEF NetSafetyInv, Host
<1>2. NetTypeOK'
  BY <1>1 DEF NetTypeOK
<1>3. \A h \in Host : outbox'[h] = IF h = p THEN made ELSE outbox[h]
  BY <1>1 DEF NetTypeOK
<1>4. PacketsTrue'
  BY <1>3, PacketsKept
<1>5. QED
  BY <1>2, <1>4

LEMMA NetOutStepPackets ==
  ASSUME NetSafetyInv, NEW p \in Proc, NetOutStep(p), net' = net, lost' = lost,
         fresh' = [fresh EXCEPT ![p] = FALSE]
  PROVE  NetTypeOK' /\ PacketsTrue'
<1> DEFINE m == Transmitted(p)
           made == Packets(Remote(p, m.to), m)
<1>1. SafetyInv /\ Moved
  BY NetOutStepMoves DEF NetSafetyInv
<1>2. /\ m \in Call /\ m.from = p /\ ~m.ack /\ ~m.ackall /\ m.sign \subseteq {p}
      /\ outbox' = [outbox EXCEPT ![p] = made]
  BY <1>1, NetOutStepFacts
<1> HIDE DEF m
<1>3. m.to \in Proc \cup {Group}
  BY <1>2 DEF Call
<1>4. Remote(p, m.to) \in Seq(Proc)
  BY <1>3, RemoteType
<1>5. made \in Seq(Packet) /\ \A i \in DOMAIN made : made[i].msg = m
  BY <1>2, <1>4, PacketsType
<1> HIDE DEF made
<1>6. ASSUME NEW w, w.msg = m
      PROVE  TruePacket(w)'
  BY <1>2, <1>6 DEF TruePacket
<1>7. QED
  BY <1>1, <1>2, <1>5, <1>6, HostSends

(* A peer's ack bears the sender's mark and its own, which is true.        *)
LEMMA AckMarks ==
  ASSUME SafetyInv, NEW p \in Proc, NetExecute(p), Acks(p), NEW m, m = Ack(p)
  PROVE  /\ m.ack /\ ~m.ackall /\ m.to = Group /\ SameCall(Current(p), m)
         /\ \A r \in (m.sign \cap Peer) \ {m.from} : LoggedAt(r, m)'
<1>1. TypeOK /\ p \in Proc \ Master
  BY DEF SafetyInv, QueueInv, Acks
<1>2. ~Current(p).ack /\ Current(p) \in Call /\ inptr[p] \in DOMAIN in[p]
  BY NetExecuteFacts
<1>3. ~Current(p).ackall /\ Current(p).sign \subseteq {Current(p).from}
  BY <1>1, <1>2 DEF SafetyInv, InFresh, Current
<1>4. Len(rl[p]) \in Nat /\ rl[p] \in Seq(Call)
  BY <1>1 DEF TypeOK
<1>5. /\ m.ack /\ ~m.ackall /\ m.to = Current(p).to
      /\ m.from = Current(p).from /\ m.outnb = Current(p).outnb
      /\ Logs(p) => m.innb = Len(rl[p]) /\ m.sign = Current(p).sign \cup {p}
      /\ ~Logs(p) => m.sign = Current(p).sign
  BY <1>2, <1>3 DEF Ack, Entry, Ran, Call
<1>6. Current(p).to = Group
  BY DEF Acks
<1>7. ASSUME NEW r \in (m.sign \cap Peer) \ {m.from}
      PROVE  LoggedAt(r, m)'
  <2>1. Logs(p) /\ r = p
    BY <1>3, <1>5, <1>7
  <2>2. rl'[p] = Append(rl[p], Entry(p)) /\ Entry(p) \in Call
    BY <2>1, NetExecuteFacts
  <2>3. Len(rl[p]) + 1 \in DOMAIN rl'[p] /\ rl'[p][Len(rl[p]) + 1] = Entry(p)
    BY <1>4, <2>2
  <2>4. Entry(p).from = Current(p).from /\ Entry(p).outnb = Current(p).outnb
    BY <1>2 DEF Entry, Ran, Call
  <2>5. QED
    BY <1>5, <2>1, <2>3, <2>4 DEF LoggedAt, SameCall
<1>8. QED
  BY <1>5, <1>6, <1>7 DEF SameCall

LEMMA NetExecutePackets ==
  ASSUME NetSafetyInv, NEW p \in Proc, NetExecute(p), net' = net, lost' = lost,
         fresh' = [fresh EXCEPT ![p] = FALSE]
  PROVE  NetTypeOK' /\ PacketsTrue'
<1> DEFINE m == Ack(p)
           made == IF Acks(p) THEN Packets(AckedPeers(p), m) ELSE <<>>
<1>1. SafetyInv /\ Moved
  BY NetExecuteMoves DEF NetSafetyInv
<1>2. m \in Call /\ outbox' = [outbox EXCEPT ![p] = made]
  BY <1>1, NetExecuteFacts DEF NetExecute
<1>3. Acks(p) => /\ m.ack /\ ~m.ackall
                 /\ \A x : x = m => \A r \in (x.sign \cap Peer) \ {x.from} : LoggedAt(r, x)'
  BY <1>1, AckMarks
<1> HIDE DEF m
<1>4. AckedPeers(p) \in Seq(Peer) /\ Peer \in SUBSET Proc
  BY AckedPeersType DEF Proc
<1>5. /\ made \in Seq(Packet)
      /\ \A i \in DOMAIN made : Acks(p) /\ made[i].to \in Peer /\ made[i].msg = m
  <2>1. CASE Acks(p)
    BY <1>2, <1>4, <2>1, PacketsType
  <2>2. CASE ~Acks(p)
    BY <2>2
  <2>3. QED
    BY <2>1, <2>2
<1> HIDE DEF made
<1>6. ASSUME NEW w, Acks(p), w.to \in Peer, w.msg = m
      PROVE  TruePacket(w)'
  BY <1>3, <1>6 DEF TruePacket
<1>7. QED
  BY <1>1, <1>2, <1>5, <1>6, HostSends

(* The host that a packet leaves for is one. *)
LEMMA NextHopType ==
  ASSUME NEW h \in Host, NEW w \in Packet
  PROVE  NextHop(h, w.to) \in Host
BY DEF NextHop, Packet, Host

(* A packet that leaves its host, or is lost on the way: the host has one  *)
(* packet less to send.                                                    *)
LEMMA LeavingFacts ==
  ASSUME NetTypeOK, NEW h \in Host, Transmit(h) \/ Lose(h), NEW w, w = Head(outbox[h])
  PROVE  /\ w \in Packet /\ 1 \in DOMAIN outbox[h] /\ w = outbox[h][1]
         /\ outbox' \in [Host -> Seq(Packet)]
         /\ \A g \in Host : g # h => outbox'[g] = outbox[g]
         /\ \A i \in DOMAIN outbox'[h] :
              i + 1 \in DOMAIN outbox[h] /\ outbox'[h][i] = outbox[h][i + 1]
         /\ vars' = vars
<1>1. outbox[h] \in Seq(Packet) /\ outbox[h] # <<>> /\ outbox \in [Host -> Seq(Packet)]
  BY DEF NetTypeOK, Transmit, Lose
<1>2. outbox' = [outbox EXCEPT ![h] = Tail(@)] /\ vars' = vars
  BY DEF Transmit, Lose
<1> DEFINE s == outbox[h]
<1>3. \A T : \A q \in Seq(T) : q # <<>> =>
        /\ Head(q) \in T /\ 1 \in DOMAIN q /\ Head(q) = q[1]
        /\ Tail(q) \in Seq(T)
        /\ \A i \in DOMAIN Tail(q) : i + 1 \in DOMAIN q /\ Tail(q)[i] = q[i + 1]
  OBVIOUS
<1>4. /\ Head(s) \in Packet /\ 1 \in DOMAIN s /\ Head(s) = s[1]
      /\ Tail(s) \in Seq(Packet)
      /\ \A i \in DOMAIN Tail(s) : i + 1 \in DOMAIN s /\ Tail(s)[i] = s[i + 1]
  BY <1>1, <1>3
<1>5. outbox'[h] = Tail(s) /\ \A g \in Host : g # h => outbox'[g] = outbox[g]
  BY <1>1, <1>2
<1>6. outbox' \in [Host -> Seq(Packet)]
  BY <1>1, <1>2, <1>4
<1>7. QED
  BY <1>2, <1>4, <1>5, <1>6

LEMMA TransmitPackets ==
  ASSUME NetSafetyInv, Moved, NEW h \in Host, Transmit(h)
  PROVE  NetTypeOK' /\ PacketsTrue'
<1> DEFINE w == Head(outbox[h])
           to == NextHop(h, w.to)
<1>1. NetTypeOK
  BY DEF NetSafetyInv
<1>2. /\ w \in Packet /\ 1 \in DOMAIN outbox[h] /\ w = outbox[h][1]
      /\ outbox' \in [Host -> Seq(Packet)]
      /\ \A g \in Host : g # h => outbox'[g] = outbox[g]
      /\ \A i \in DOMAIN outbox'[h] :
              i + 1 \in DOMAIN outbox[h] /\ outbox'[h][i] = outbox[h][i + 1]
  BY <1>1, LeavingFacts
<1>3. net' = [net EXCEPT ![to] = Append(@, w)] /\ fresh' = fresh /\ lost' = lost
  BY DEF Transmit
<1> HIDE DEF w
<1>4. to \in Host
  BY <1>2, NextHopType
<1> HIDE DEF to
<1>5. net[to] \in Seq(Packet) /\ net \in [Host -> Seq(Packet)]
  BY <1>1, <1>4 DEF NetTypeOK
<1>6. /\ Append(net[to], w) \in Seq(Packet)
      /\ \A i \in DOMAIN Append(net[to], w) :
           Append(net[to], w)[i] = w \/ (i \in DOMAIN net[to] /\ Append(net[to], w)[i] = net[to][i])
  BY <1>2, <1>5
<1>7. \A g \in Host : net'[g] = IF g = to THEN Append(net[to], w) ELSE net[g]
  BY <1>3, <1>5
<1>8. NetTypeOK'
  BY <1>1, <1>2, <1>3, <1>5, <1>6 DEF NetTypeOK
<1>9. ASSUME NEW g \in Host, NEW x, NEW i \in DOMAIN outbox'[g], x = outbox'[g][i]
      PROVE  \E j \in DOMAIN outbox[g] : x = outbox[g][j]
  BY <1>2, <1>9
<1>10. ASSUME NEW g \in Host, NEW x, NEW i \in DOMAIN net'[g], x = net'[g][i]
       PROVE  \/ \E j \in DOMAIN net[g] : x = net[g][j]
              \/ \E f \in Host : \E j \in DOMAIN outbox[f] : x = outbox[f][j]
  <2>1. CASE x = w
    BY <1>2, <2>1
  <2>2. CASE i \in DOMAIN net[g] /\ x = net[g][i]
    BY <2>2
  <2>3. QED
    BY <1>6, <1>7, <1>10, <2>1, <2>2
<1>11. PacketsTrue'
  BY <1>9, <1>10, PacketsKept
<1>12. QED
  BY <1>8, <1>11

LEMMA LosePackets ==
  ASSUME NetSafetyInv, Moved, NEW h \in Host, Lose(h)
  PROVE  NetTypeOK' /\ PacketsTrue'
<1>1. NetTypeOK
  BY DEF NetSafetyInv
<1>2. /\ outbox' \in [Host -> Seq(Packet)]
      /\ \A g \in Host : g # h => outbox'[g] = outbox[g]
      /\ \A i \in DOMAIN outbox'[h] :
              i + 1 \in DOMAIN outbox[h] /\ outbox'[h][i] = outbox[h][i + 1]
  BY <1>1, LeavingFacts
<1>3. net' = net /\ fresh' = fresh /\ lost' = lost + 1
  BY DEF Lose
<1>4. NetTypeOK'
  BY <1>1, <1>2, <1>3 DEF NetTypeOK
<1>5. ASSUME NEW g \in Host, NEW x, NEW i \in DOMAIN outbox'[g], x = outbox'[g][i]
      PROVE  \E j \in DOMAIN outbox[g] : x = outbox[g][j]
  BY <1>2, <1>5
<1>6. PacketsTrue'
  BY <1>3, <1>5, PacketsKept
<1>7. QED
  BY <1>4, <1>6

(* A packet that is accepted is posted, or goes on its way. *)
LEMMA ReceivePackets ==
  ASSUME NetSafetyInv, Moved, NEW h \in Host, Receive(h)
  PROVE  NetTypeOK' /\ PacketsTrue'
<1> DEFINE w == net[h][1]
<1>1. NetTypeOK
  BY DEF NetSafetyInv
<1>2. /\ w \in Packet /\ net[h] # <<>> /\ net[h] \in Seq(Packet)
      /\ net' = [net EXCEPT ![h] = Without(@, 1)]
      /\ outbox' = outbox \/ outbox' = [outbox EXCEPT ![h] = <<w>>]
      /\ fresh' = [fresh EXCEPT ![h] = TRUE] /\ lost' = lost
  BY ReceiveFacts
<1>3. /\ Without(net[h], 1) \in Seq(Packet) /\ 1 \in DOMAIN net[h]
      /\ \A i \in DOMAIN Without(net[h], 1) :
           i + 1 \in DOMAIN net[h] /\ Without(net[h], 1)[i] = net[h][i + 1]
  BY <1>2, WithoutFirst, ZenonT(40)
<1>4. <<w>> \in Seq(Packet) /\ \A i \in DOMAIN <<w>> : <<w>>[i] = w
  BY <1>2
<1>5. NetTypeOK'
  BY <1>1, <1>2, <1>3, <1>4 DEF NetTypeOK
<1>6. \A g \in Host : net'[g] = IF g = h THEN Without(net[h], 1) ELSE net[g]
  BY <1>1, <1>2 DEF NetTypeOK
<1>7. \A g \in Host : outbox'[g] = outbox[g] \/ (g = h /\ outbox'[g] = <<w>>)
  BY <1>1, <1>2 DEF NetTypeOK
<1>8. ASSUME NEW g \in Host, NEW x, NEW i \in DOMAIN outbox'[g], x = outbox'[g][i]
      PROVE  \/ \E j \in DOMAIN outbox[g] : x = outbox[g][j]
             \/ \E j \in DOMAIN net[g] : x = net[g][j]
  BY <1>3, <1>4, <1>7, <1>8
<1>9. ASSUME NEW g \in Host, NEW x, NEW i \in DOMAIN net'[g], x = net'[g][i]
      PROVE  \E j \in DOMAIN net[g] : x = net[g][j]
  BY <1>3, <1>6, <1>9
<1>10. PacketsTrue'
  BY <1>8, <1>9, PacketsKept
<1>11. QED
  BY <1>5, <1>10

LEMMA NetSafetyInvInit ==
  ASSUME NetInit
  PROVE  NetSafetyInv
<1>1. SafetyInv
  BY SafetyInvInit DEF NetInit
<1>2. NetTypeOK /\ \A h \in Host : DOMAIN outbox[h] = {} /\ DOMAIN net[h] = {}
  BY DEF NetInit, NetTypeOK
<1>3. PacketsTrue
  BY <1>2 DEF PacketsTrue
<1>4. QED
  BY <1>1, <1>2, <1>3 DEF NetSafetyInv

LEMMA NetSafetyInvNext ==
  ASSUME NetSafetyInv, [NetNext]_allvars
  PROVE  NetSafetyInv'
<1>1. SafetyInv' /\ Moved
  BY NetSafetyStep, NetMoves
<1> SUFFICES NetTypeOK' /\ PacketsTrue'
  BY <1>1 DEF NetSafetyInv
<1>2. NetTypeOK
  BY DEF NetSafetyInv
<1>3. CASE outbox' = outbox /\ net' = net /\ lost' = lost /\ fresh' \in [Host -> BOOLEAN]
  <2>1. PacketsTrue'
    BY <1>1, <1>3, PacketsKept
  <2>2. QED
    BY <1>2, <1>3, <2>1 DEF NetTypeOK
<1>4. CASE UNCHANGED allvars \/ \E p \in Proc : NetSend(p)
  BY <1>2, <1>3, <1>4 DEF allvars, netvars, NetSend, NetTypeOK
<1>5. CASE \E p \in Proc : QuietStep(p) /\ net' = net /\ lost' = lost
                            /\ fresh' = [fresh EXCEPT ![p] = FALSE]
  BY <1>2, <1>3, <1>5 DEF QuietStep, NetTypeOK
<1>6. CASE \E p \in Proc : Free(p) /\ NetOutStep(p) /\ net' = net /\ lost' = lost
                            /\ fresh' = [fresh EXCEPT ![p] = FALSE]
  BY <1>6, NetOutStepPackets
<1>7. CASE \E p \in Proc : Free(p) /\ NetExecute(p) /\ net' = net /\ lost' = lost
                            /\ fresh' = [fresh EXCEPT ![p] = FALSE]
  BY <1>7, NetExecutePackets
<1>8. CASE \E h \in Host : Transmit(h)
  BY <1>1, <1>8, TransmitPackets
<1>9. CASE \E h \in Host : Lose(h)
  BY <1>1, <1>9, LosePackets
<1>10. CASE \E h \in Host : Receive(h)
  BY <1>1, <1>10, ReceivePackets
<1>11. QED
  BY <1>4, <1>5, <1>6, <1>7, <1>8, <1>9, <1>10, NetCases

(* Over the network too, however many hosts, whichever of them send, and   *)
(* whatever is lost, a mark on a logged call is true, and a process        *)
(* executes a call once.                                                   *)
THEOREM MarksTrueOverNet ==
  NetSpec => []SignedMeansLogged /\ []OncePerCall /\ []QueueState
<1>1. NetInit => NetSafetyInv
  BY NetSafetyInvInit
<1>2. NetSafetyInv /\ [NetNext]_allvars => NetSafetyInv'
  BY NetSafetyInvNext
<1>3. NetSafetyInv => SignedMeansLogged /\ OncePerCall /\ QueueState
  BY LoggedOnce DEF NetSafetyInv, SafetyInv, QueueInv
<1>4. QED
  BY <1>1, <1>2, <1>3, PTL DEF NetSpec

-----------------------------------------------------------------------------
(***************************************************************************)
(* Over two hosts, while nothing is lost.  What a host sends to the other  *)
(* is one stream, in the order it was sent: what the other has still to    *)
(* accept, then what this one has still to transmit.                       *)
(***************************************************************************)

(* What a concatenation is. *)
LEMMA Concatenated ==
  ASSUME NEW T, NEW s \in Seq(T), NEW t \in Seq(T)
  PROVE  /\ s \o t \in Seq(T) /\ Len(s \o t) = Len(s) + Len(t)
         /\ DOMAIN (s \o t) = 1 .. Len(s) + Len(t)
         /\ \A i \in 1 .. Len(s) + Len(t) :
              (s \o t)[i] = IF i <= Len(s) THEN s[i] ELSE t[i - Len(s)]
         /\ Len(s) \in Nat /\ Len(t) \in Nat /\ DOMAIN s = 1 .. Len(s) /\ DOMAIN t = 1 .. Len(t)
OBVIOUS

LEMMA SameSequence ==
  ASSUME NEW T, NEW s \in Seq(T), NEW t \in Seq(T), Len(s) = Len(t),
         \A i \in 1 .. Len(s) : s[i] = t[i]
  PROVE  s = t
OBVIOUS

(* The others of a list without repetition: all of them, and only them. *)
LEMMA OthersFacts ==
  ASSUME NEW T, NEW list \in Seq(T), NEW p,
         \A i, j \in DOMAIN list : list[i] = list[j] => i = j
  PROVE  /\ \A i \in DOMAIN Others(list, p) : Others(list, p)[i] # p
         /\ \A i \in DOMAIN list : list[i] # p =>
              \E j \in DOMAIN Others(list, p) : Others(list, p)[j] = list[i]
<1>1. CASE ~ \E i \in DOMAIN list : list[i] = p
  BY <1>1 DEF Others
<1>2. CASE \E i \in DOMAIN list : list[i] = p
  <2> DEFINE k == CHOOSE i \in DOMAIN list : list[i] = p
             n == Len(list)
  <2>1. k \in DOMAIN list /\ list[k] = p
    BY <1>2
  <2>2. Others(list, p) = SubSeq(list, 1, k - 1) \o SubSeq(list, k + 1, n)
    BY <1>2 DEF Others, Without
  <2> HIDE DEF k
  <2>3. n \in Nat /\ DOMAIN list = 1 .. n /\ k \in 1 .. n
    BY <2>1
  <2> DEFINE s == SubSeq(list, 1, k - 1)
             t == SubSeq(list, k + 1, n)
  <2>4. /\ s \in Seq(T) /\ Len(s) = k - 1 /\ DOMAIN s = 1 .. k - 1
        /\ \A i \in 1 .. k - 1 : s[i] = list[i]
    BY <2>3
  <2>5. /\ t \in Seq(T) /\ Len(t) = n - k /\ DOMAIN t = 1 .. n - k
        /\ \A i \in 1 .. n - k : t[i] = list[k + i]
    <3>1. /\ t \in Seq(T) /\ Len(t) = n - k
          /\ \A i \in 1 .. n - k : t[i] = list[k + i]
      <4>1. \A i \in k + 1 .. n : list[i] \in T
        BY <2>3
      <4>2. QED
        BY <2>3, <4>1
    <3>2. QED
      BY <3>1
  <2> HIDE DEF s, t
  <2>6. /\ DOMAIN (s \o t) = 1 .. n - 1
        /\ \A i \in 1 .. n - 1 : i < k => (s \o t)[i] = list[i]
        /\ \A i \in 1 .. n - 1 : i >= k => (s \o t)[i] = list[i + 1]
    <3>1. Len(s) + Len(t) = n - 1
      BY <2>3, <2>4, <2>5
    <3>2. /\ DOMAIN (s \o t) = 1 .. n - 1
          /\ \A i \in 1 .. n - 1 : (s \o t)[i] = IF i <= k - 1 THEN s[i] ELSE t[i - (k - 1)]
      BY <2>4, <2>5, <3>1, Concatenated
    <3>3. ASSUME NEW i \in 1 .. n - 1, i < k
          PROVE  (s \o t)[i] = list[i]
      <4>1. i \in 1 .. k - 1 /\ i <= k - 1
        BY <2>3, <3>3
      <4>2. s[i] = list[i]
        BY <2>4, <4>1
      <4>3. QED
        BY <3>2, <4>1, <4>2
    <3>4. ASSUME NEW i \in 1 .. n - 1, i >= k
          PROVE  (s \o t)[i] = list[i + 1]
      <4>1. i - (k - 1) \in 1 .. n - k /\ k + (i - (k - 1)) = i + 1
        BY <2>3, <3>4
      <4>2. t[i - (k - 1)] = list[i + 1]
        BY <2>5, <4>1
      <4>3. ~(i <= k - 1)
        BY <2>3, <3>4
      <4>4. QED
        BY <3>2, <4>2, <4>3
    <3>5. QED
      BY <3>2, <3>3, <3>4
  <2>7. Others(list, p) = s \o t
    BY <2>2 DEF s, t
  <2>8. ASSUME NEW i \in 1 .. n - 1
        PROVE  (s \o t)[i] # p
    <3>1. i \in 1 .. n /\ i + 1 \in 1 .. n
      BY <2>3, <2>8
    <3>2. list[i] = p => i = k
      BY <2>1, <2>3, <3>1
    <3>3. list[i + 1] = p => i + 1 = k
      BY <2>1, <2>3, <3>1
    <3>4. (i < k \/ i >= k) /\ (i < k => i # k) /\ (i >= k => i + 1 # k)
      BY <2>3, <2>8
    <3>5. QED
      BY <2>6, <2>8, <3>2, <3>3, <3>4
  <2>9. ASSUME NEW i \in 1 .. n, list[i] # p
        PROVE  \E j \in 1 .. n - 1 : (s \o t)[j] = list[i]
    <3>1. CASE i < k
      <4>1. i \in 1 .. n - 1
        BY <2>3, <3>1
      <4>2. QED
        BY <2>6, <3>1, <4>1
    <3>2. CASE i > k
      <4>1. i - 1 \in 1 .. n - 1 /\ i - 1 >= k /\ i - 1 + 1 = i
        BY <2>3, <3>2
      <4>2. (s \o t)[i - 1] = list[i]
        BY <2>6, <4>1
      <4>3. QED
        BY <4>1, <4>2
    <3>3. i < k \/ i > k
      <4>1. i # k
        BY <2>1, <2>9
      <4>2. QED
        BY <2>3, <4>1
    <3>4. QED
      BY <3>1, <3>2, <3>3
  <2>10. QED
    BY <2>3, <2>6, <2>7, <2>8, <2>9, Zenon
<1>3. QED
  BY <1>1, <1>2

(* What p sends goes to the others, and, to the group, to each other peer. *)
LEMMA RemoteFacts ==
  ASSUME NEW p \in Proc, NEW to \in Proc \cup {Group}
  PROVE  /\ \A i \in DOMAIN Remote(p, to) : Remote(p, to)[i] # p
         /\ to = Group => \A q \in Peer \ {p} :
              \E i \in DOMAIN Remote(p, to) : Remote(p, to)[i] = q
<1> DEFINE list == IF to = Group THEN PeerList ELSE <<to>>
<1>1. list \in Seq(Proc)
  <2>1. PeerList \in Seq(Proc)
    BY NetAssumption DEF Proc
  <2>2. QED
    BY <2>1
<1>2. \A i, j \in DOMAIN list : list[i] = list[j] => i = j
  BY NetAssumption
<1>3. to = Group => \A q \in Peer : \E i \in DOMAIN list : list[i] = q
  BY NetAssumption
<1>4. Remote(p, to) = Others(list, p)
  BY DEF Remote
<1> HIDE DEF list
<1>5. QED
  BY <1>1, <1>2, <1>3, <1>4, OthersFacts

LEMMA AckedPeersFacts ==
  ASSUME NEW p
  PROVE  /\ \A i \in DOMAIN AckedPeers(p) : AckedPeers(p)[i] # p
         /\ \A q \in Peer \ {p} : \E i \in DOMAIN AckedPeers(p) : AckedPeers(p)[i] = q
BY NetAssumption, OthersFacts DEF AckedPeers

(* Streams of packets. *)
LEMMA MovedAlong ==
  ASSUME NEW T, NEW s \in Seq(T), NEW t \in Seq(T), t # <<>>
  PROVE  Append(s, Head(t)) \o Tail(t) = s \o t
<1> DEFINE a == Append(s, Head(t))
           u == Tail(t)
<1>1. /\ Len(t) \in Nat \ {0} /\ Len(s) \in Nat
      /\ Head(t) = t[1] /\ Head(t) \in T
  OBVIOUS
<1>2. /\ a \in Seq(T) /\ Len(a) = Len(s) + 1
      /\ \A i \in 1 .. Len(s) + 1 : a[i] = IF i <= Len(s) THEN s[i] ELSE t[1]
  BY <1>1
<1>3. u \in Seq(T) /\ Len(u) = Len(t) - 1 /\ \A i \in 1 .. Len(t) - 1 : u[i] = t[i + 1]
  BY <1>1
<1> HIDE DEF a, u
<1> DEFINE au == a \o u
           st == s \o t
           n == Len(s) + Len(t)
<1>4. /\ au \in Seq(T) /\ Len(au) = n
      /\ \A i \in 1 .. n : au[i] = IF i <= Len(s) + 1 THEN a[i] ELSE u[i - (Len(s) + 1)]
  <2>1. Len(a) + Len(u) = n
    BY <1>1, <1>2, <1>3
  <2>2. QED
    <3>1. /\ a \o u \in Seq(T) /\ Len(a \o u) = Len(a) + Len(u)
          /\ \A i \in 1 .. Len(a) + Len(u) :
               (a \o u)[i] = IF i <= Len(a) THEN a[i] ELSE u[i - Len(a)]
      BY <1>2, <1>3, Concatenated
    <3>2. QED
      BY <1>2, <2>1, <3>1
<1>5. /\ st \in Seq(T) /\ Len(st) = n
      /\ \A i \in 1 .. n : st[i] = IF i <= Len(s) THEN s[i] ELSE t[i - Len(s)]
  BY Concatenated
<1> HIDE DEF au, st
<1>6. ASSUME NEW i \in 1 .. n
      PROVE  au[i] = st[i]
  <2>1. CASE i <= Len(s) + 1
    <3>1. a[i] = IF i <= Len(s) THEN s[i] ELSE t[1]
      BY <1>1, <1>2, <2>1
    <3>2. i > Len(s) => i - Len(s) = 1
      BY <1>1, <2>1
    <3>3. QED
      BY <1>1, <1>4, <1>5, <2>1, <3>1, <3>2
  <2>2. CASE i > Len(s) + 1
    <3>1. i - (Len(s) + 1) \in 1 .. Len(t) - 1 /\ i - (Len(s) + 1) + 1 = i - Len(s)
      BY <1>1, <2>2
    <3>2. u[i - (Len(s) + 1)] = t[i - Len(s)]
      BY <1>3, <3>1
    <3>3. QED
      BY <1>1, <1>4, <1>5, <2>2, <3>2
  <2>3. QED
    BY <1>1, <2>1, <2>2
<1> HIDE DEF n
<1>8. au = st
  BY <1>4, <1>5, <1>6, SameSequence
<1>9. QED
  BY <1>8 DEF a, u, au, st

LEMMA FirstTaken ==
  ASSUME NEW T, NEW s \in Seq(T), s # <<>>
  PROVE  /\ Without(s, 1) \in Seq(T) /\ Len(Without(s, 1)) = Len(s) - 1
         /\ \A i \in 1 .. Len(s) - 1 : Without(s, 1)[i] = s[i + 1]
         /\ Len(s) \in Nat \ {0}
<1>1. /\ Without(s, 1) \in Seq(T) /\ Len(Without(s, 1)) = Len(s) - 1
      /\ \A i \in DOMAIN Without(s, 1) : Without(s, 1)[i] = s[i + 1]
  BY WithoutFirst
<1>2. QED
  BY <1>1

LEMMA TakenFromFirst ==
  ASSUME NEW T, NEW s \in Seq(T), NEW t \in Seq(T), s # <<>>
  PROVE  /\ s \o t \in Seq(T) /\ s \o t # <<>> /\ (s \o t)[1] = s[1]
         /\ Without(s, 1) \o t = Without(s \o t, 1)
<1> DEFINE r == Without(s, 1)
           st == s \o t
<1>1. /\ r \in Seq(T) /\ Len(r) = Len(s) - 1 /\ Len(s) \in Nat \ {0} /\ Len(t) \in Nat
      /\ \A i \in 1 .. Len(s) - 1 : r[i] = s[i + 1]
  BY FirstTaken
<1>2. /\ st \in Seq(T) /\ Len(st) = Len(s) + Len(t) /\ st # <<>> /\ st[1] = s[1]
      /\ \A i \in 1 .. Len(st) : st[i] = IF i <= Len(s) THEN s[i] ELSE t[i - Len(s)]
  BY <1>1
<1> HIDE DEF r, st
<1>3. /\ Without(st, 1) \in Seq(T) /\ Len(Without(st, 1)) = Len(st) - 1
      /\ \A i \in 1 .. Len(st) - 1 : Without(st, 1)[i] = st[i + 1]
  BY <1>2, FirstTaken
<1> DEFINE rt == r \o t
           n == Len(st) - 1
<1>4. /\ rt \in Seq(T) /\ Len(rt) = n
      /\ \A i \in 1 .. n : rt[i] = IF i <= Len(r) THEN r[i] ELSE t[i - Len(r)]
  <2>1. Len(r) + Len(t) = n
    BY <1>1, <1>2
  <2>2. QED
    <3>1. /\ r \o t \in Seq(T) /\ Len(r \o t) = Len(r) + Len(t)
          /\ \A i \in 1 .. Len(r) + Len(t) :
               (r \o t)[i] = IF i <= Len(r) THEN r[i] ELSE t[i - Len(r)]
      BY <1>1, Concatenated, ZenonT(40)
    <3>2. QED
      BY <2>1, <3>1
<1> HIDE DEF rt
<1>5. ASSUME NEW i \in 1 .. n
      PROVE  rt[i] = Without(st, 1)[i]
  <2>1. i + 1 \in 1 .. Len(st) /\ i + 1 - Len(s) = i - Len(r)
    BY <1>1, <1>2
  <2>2. Without(st, 1)[i] = IF i + 1 <= Len(s) THEN s[i + 1] ELSE t[i - Len(r)]
    BY <1>2, <1>3, <2>1
  <2>3. i <= Len(r) => r[i] = s[i + 1]
    BY <1>1
  <2>4. i <= Len(r) <=> i + 1 <= Len(s)
    BY <1>1
  <2>5. QED
    BY <1>4, <2>2, <2>3, <2>4
<1> HIDE DEF n
<1>6. rt = Without(st, 1)
  <2>1. Len(Without(st, 1)) = n
    BY <1>3 DEF n
  <2>2. QED
    BY <1>3, <1>4, <1>5, <2>1, SameSequence
<1>7. QED
  BY <1>2, <1>6 DEF r, st, rt

LEMMA PathType ==
  ASSUME NetTypeOK, NEW g \in Host, NEW q \in Host
  PROVE  Path(g, q) \in Seq(Packet)
BY Concatenated DEF NetTypeOK, Path

(***************************************************************************)
(* What a step does to the streams.                                        *)
(***************************************************************************)
(* The oldest packet of the stream reaches q. *)
Arrives(g, q) ==
  /\ q \in Proc /\ Path(g, q) # <<>>
  /\ Path(g, q)' = Without(Path(g, q), 1)
  /\ in'[q] = Posted(in[q], Path(g, q)[1].msg)

(* What g may send: an ack of a call to the group that it has received, or *)
(* the next call of its OUT, that it has received too when it is one of    *)
(* those it is for.                                                        *)
MaySend(g, m) ==
  /\ m.ack => \E i \in DOMAIN in[g] : /\ SameCall(in[g][i], m)
                                      /\ ~in[g][i].ack /\ in[g][i].to = Group
  /\ ~m.ack => NetOutStep(g) /\ m = Transmitted(g)
  /\ ~m.ack /\ m.to = Group /\ g \in Peer => InCall(g, m)'

Extends(g, q) ==
  \E new \in Seq(Packet) :
    /\ Path(g, q)' = Path(g, q) \o new
    /\ \A i \in DOMAIN new : g \in Proc /\ MaySend(g, new[i].msg)

(* What q receives from no other host is its own call, which leaves for    *)
(* the other peers it is for.                                              *)
Own(q) ==
  \A i \in DOMAIN in'[q] : i \in DOMAIN in[q] \/
    /\ ~in'[q][i].ack /\ NetOutStep(q) /\ in'[q][i] = Transmitted(q)
    /\ in'[q][i].to = Group =>
         \A r \in Peer \ {q} : Brings(Path(q, r)', in'[q][i])

StreamStep ==
  /\ \A q \in Host : \A g \in Host \ {q} : Arrives(g, q) \/ Extends(g, q)
  /\ \A q \in Proc : Own(q) \/ \E g \in Host \ {q} : Arrives(g, q)

LEMMA PathsKept ==
  ASSUME NetTypeOK, \A q \in Host : \A g \in Host \ {q} : Path(g, q)' = Path(g, q),
         \A q \in Proc : DOMAIN in'[q] = DOMAIN in[q]
  PROVE  StreamStep
<1>1. <<>> \in Seq(Packet) /\ \A i \in DOMAIN <<>> : FALSE
  OBVIOUS
<1>2. ASSUME NEW q \in Host, NEW g \in Host \ {q}
      PROVE  Extends(g, q)
  <2>1. Path(g, q)' = Path(g, q) \o <<>>
    <3>1. Path(g, q) \in Seq(Packet)
      BY PathType
    <3>2. \A s \in Seq(Packet) : s \o <<>> = s
      OBVIOUS
    <3>3. QED
      BY <3>1, <3>2
  <2>2. QED
    BY <1>1, <2>1 DEF Extends
<1>3. \A q \in Proc : Own(q)
  BY DEF Own
<1>4. QED
  BY <1>2, <1>3 DEF StreamStep

(* Host p, which has nothing left to send, makes packets. *)
LEMMA MadeOnPath ==
  ASSUME NetTypeOK, NEW p \in Host, outbox[p] = <<>>, NEW made \in Seq(Packet),
         outbox' = [outbox EXCEPT ![p] = made], net' = net,
         NEW q \in Host, NEW g \in Host \ {q}
  PROVE  /\ Path(g, q) \in Seq(Packet)
         /\ g = p => Path(g, q)' = Path(g, q) \o made
         /\ g # p => Path(g, q)' = Path(g, q)
<1>1. Path(g, q) \in Seq(Packet)
  BY PathType
<1>2. CASE g = p
  <2>1. Path(g, q) = net[q] \o <<>> /\ Path(g, q)' = net[q] \o made
    BY <1>2 DEF Path, NetTypeOK
  <2>2. net[q] \in Seq(Packet)
    BY DEF NetTypeOK
  <2>3. \A s \in Seq(Packet) : s \o <<>> = s
    OBVIOUS
  <2>4. QED
    BY <1>1, <1>2, <2>1, <2>2, <2>3
<1>3. CASE g # p
  BY <1>1, <1>3 DEF Path, NetTypeOK
<1>4. QED
  BY <1>2, <1>3

(* A call posted to q is in its IN, dropped as a duplicate or not.         *)
LEMMA PostedCall ==
  ASSUME TypeOK, NEW q \in Proc, AckFollows(q), NEW m \in Call, ~m.ack,
         in'[q] = Posted(in[q], m)
  PROVE  InCall(q, m)'
<1> SUFFICES \E j \in DOMAIN in'[q] : SameCall(in'[q][j], m) /\ ~in'[q][j].ack
  BY DEF InCall, SameCall
<1>1. in[q] \in Seq(Call)
  BY DEF TypeOK
<1>2. CASE Known(in[q], m)
  <2>1. PICK i \in DOMAIN in[q] : SameCall(in[q][i], m)
    BY <1>2 DEF Known
  <2>2. in'[q] = in[q]
    BY <1>2 DEF Posted
  <2>3. \E j \in DOMAIN in[q] : SameCall(in[q][j], m) /\ ~in[q][j].ack
    <3>1. CASE ~in[q][i].ack
      BY <2>1, <3>1
    <3>2. CASE in[q][i].ack
      <4>1. PICK j \in 1 .. i - 1 : SameCall(in[q][i], in[q][j]) /\ ~in[q][j].ack
        BY <3>2 DEF AckFollows
      <4>2. j \in DOMAIN in[q]
        BY <1>1
      <4>3. QED
        BY <2>1, <4>1, <4>2 DEF SameCall
    <3>3. QED
      BY <3>1, <3>2
  <2>4. QED
    BY <2>2, <2>3
<1>3. CASE ~Known(in[q], m)
  <2>1. in'[q] = Append(in[q], m)
    BY <1>3 DEF Posted
  <2>2. Len(in[q]) + 1 \in DOMAIN Append(in[q], m) /\ Append(in[q], m)[Len(in[q]) + 1] = m
    BY <1>1
  <2>3. QED
    BY <2>1, <2>2 DEF SameCall
<1>4. QED
  BY <1>2, <1>3

LEMMA OutStepStreams ==
  ASSUME NetSafetyInv, TwoHosts, Streams, NEW p \in Proc, Free(p), NetOutStep(p), net' = net,
         NEW m, m = Transmitted(p)
  PROVE  /\ StreamStep /\ Addressed'
         /\ m.to = Group => \A q \in Peer : Aboard(q, m)'
<1> DEFINE remote == Remote(p, m.to)
           made == Packets(remote, m)
<1>1. SafetyInv /\ NetTypeOK /\ p \in Host
  BY DEF NetSafetyInv, Host
<1>2. /\ m \in Call /\ ~m.ack
      /\ \A q \in Proc : q # p => in'[q] = in[q]
      /\ in'[p] = IF p \in Dest(m.to) THEN Posted(in[p], m) ELSE in[p]
      /\ outbox' = [outbox EXCEPT ![p] = made]
  BY <1>1, NetOutStepFacts
<1>3. m.to \in Proc \cup {Group}
  BY <1>2 DEF Call
<1>4. remote \in Seq(Proc) /\ \A i \in DOMAIN remote : remote[i] # p
  BY <1>3, RemoteType, RemoteFacts
<1>5. m.to = Group => \A q \in Peer \ {p} : \E i \in DOMAIN remote : remote[i] = q
  BY <1>3, RemoteFacts
<1> HIDE DEF remote
<1>6. /\ made \in Seq(Packet) /\ DOMAIN made = DOMAIN remote
      /\ \A i \in DOMAIN made : made[i].msg = m
  BY <1>2, <1>4, PacketsType
<1>7. \A i \in DOMAIN made : made[i].to = remote[i]
  BY DEF Packets
<1> HIDE DEF made
<1>8. in[p] \in Seq(Call) /\ Posted(in[p], m) \in Seq(Call)
  BY <1>1, <1>2, PostedType DEF SafetyInv, QueueInv, TypeOK
<1>9. /\ \A i \in DOMAIN Posted(in[p], m) : i \in DOMAIN in[p] \/ Posted(in[p], m)[i] = m
      /\ \E i \in DOMAIN Posted(in[p], m) : SameCall(Posted(in[p], m)[i], m)
  <2>1. CASE Known(in[p], m)
    BY <1>2, <2>1 DEF Posted, Known
  <2>2. CASE ~Known(in[p], m)
    <3>1. Posted(in[p], m) = Append(in[p], m)
      BY <2>2 DEF Posted
    <3>2. /\ Len(in[p]) + 1 \in DOMAIN Append(in[p], m)
          /\ Append(in[p], m)[Len(in[p]) + 1] = m
          /\ \A i \in DOMAIN Append(in[p], m) : i \in DOMAIN in[p] \/ Append(in[p], m)[i] = m
      BY <1>2, <1>8
    <3>3. QED
      BY <3>1, <3>2 DEF SameCall
  <2>3. QED
    BY <2>1, <2>2
<1>10. \A q \in Host : \A g \in Host \ {q} :
         /\ Path(g, q) \in Seq(Packet)
         /\ g = p => Path(g, q)' = Path(g, q) \o made
         /\ g # p => Path(g, q)' = Path(g, q)
  BY <1>1, <1>2, <1>6, MadeOnPath DEF Free
<1>11. p \in Peer /\ m.to = Group => InCall(p, m)'
  BY <1>1, <1>2, PostedCall DEF Dest, Streams, SafetyInv, QueueInv
<1>12. ASSUME NEW x, x = m
       PROVE  MaySend(p, x)
  BY <1>2, <1>11, <1>12 DEF MaySend
<1>13. ASSUME NEW q \in Host, NEW g \in Host \ {q}
       PROVE  Extends(g, q)
  <2>1. CASE g = p
    BY <1>6, <1>10, <1>12, <2>1 DEF Extends
  <2>2. CASE g # p
    <3>1. Path(g, q)' = Path(g, q) \o <<>>
      <4>1. \A s \in Seq(Packet) : s \o <<>> = s
        OBVIOUS
      <4>2. QED
        BY <1>10, <2>2, <4>1
    <3>2. <<>> \in Seq(Packet) /\ \A i \in DOMAIN <<>> : FALSE
      OBVIOUS
    <3>3. QED
      BY <3>1, <3>2 DEF Extends
  <2>3. QED
    BY <2>1, <2>2
<1>14. ASSUME NEW r \in Peer \ {p}, m.to = Group
       PROVE  Brings(Path(p, r)', m)
  <2>1. PICK i \in DOMAIN made : made[i].to = r /\ made[i].msg = m
    BY <1>5, <1>6, <1>7, <1>14
  <2>2. r \in Host /\ p \in Host \ {r}
    BY <1>1 DEF Host, Proc
  <2>3. Path(p, r) \in Seq(Packet) /\ Path(p, r)' = Path(p, r) \o made
    BY <1>10, <2>2
  <2>4. /\ Len(Path(p, r)) + i \in DOMAIN (Path(p, r) \o made)
        /\ (Path(p, r) \o made)[Len(Path(p, r)) + i] = made[i]
    <3>1. \A s \in Seq(Packet) : \A u \in Seq(Packet) : \A j \in DOMAIN u :
            Len(s) + j \in DOMAIN (s \o u) /\ (s \o u)[Len(s) + j] = u[j]
      OBVIOUS
    <3>2. QED
      BY <1>6, <2>3, <3>1
  <2>5. QED
    BY <1>2, <2>1, <2>3, <2>4 DEF Brings, SameCall
<1>15. ASSUME NEW q \in Proc
       PROVE  Own(q)
  <2>1. CASE in'[q] = in[q]
    BY <2>1 DEF Own
  <2>2. CASE q = p /\ in'[q] = Posted(in[p], m)
    BY <1>2, <1>9, <1>14, <2>2 DEF Own
  <2>3. QED
    BY <1>2, <2>1, <2>2
<1>16. Addressed'
  <2>1. \A g \in Host : outbox'[g] = IF g = p THEN made ELSE outbox[g]
    BY <1>1, <1>2 DEF NetTypeOK
  <2>2. \A i \in DOMAIN made : made[i].to # p
    BY <1>4, <1>6, <1>7
  <2>3. QED
    BY <2>1, <2>2 DEF Streams, Addressed
<1>17. ASSUME m.to = Group, NEW q \in Peer
       PROVE  Aboard(q, m)'
  <2>1. CASE q = p
    BY <1>11, <1>17, <2>1 DEF Aboard
  <2>2. CASE q # p
    <3>1. Brings(Path(p, q)', m) /\ p \in Host \ {q}
      BY <1>1, <1>14, <1>17, <2>2
    <3>2. QED
      BY <3>1 DEF Aboard, Brings, SameCall
  <2>3. QED
    BY <2>1, <2>2
<1>18. QED
  BY <1>13, <1>15, <1>16, <1>17 DEF StreamStep

LEMMA ExecuteStreams ==
  ASSUME NetSafetyInv, TwoHosts, Streams, NEW p \in Proc, Free(p), NetExecute(p), net' = net,
         NEW m, m = Ack(p)
  PROVE  StreamStep /\ Addressed'
<1> DEFINE made == IF Acks(p) THEN Packets(AckedPeers(p), m) ELSE <<>>
<1>1. SafetyInv /\ NetTypeOK /\ p \in Host
  BY DEF NetSafetyInv, Host
<1>2. /\ m \in Call /\ ~Current(p).ack /\ inptr[p] \in DOMAIN in[p]
      /\ \A q \in Proc : DOMAIN in'[q] = DOMAIN in[q]
      /\ outbox' = [outbox EXCEPT ![p] = made]
  <2>1. /\ m \in Call /\ ~Current(p).ack /\ inptr[p] \in DOMAIN in[p]
        /\ in' \in [Proc -> Seq(Call)] /\ \A q \in Proc : Len(in'[q]) = Len(in[q])
    BY <1>1, NetExecuteFacts
  <2>2. \A q \in Proc : DOMAIN in'[q] = DOMAIN in[q]
    BY <1>1, <2>1 DEF SafetyInv, QueueInv, TypeOK
  <2>3. QED
    BY <2>1, <2>2 DEF NetExecute
<1>3. Acks(p) => m.ack /\ SameCall(Current(p), m) /\ Current(p).to = Group
  BY <1>1, AckMarks DEF Acks
<1>4. AckedPeers(p) \in Seq(Peer) /\ Peer \in SUBSET Proc /\ \A i \in DOMAIN AckedPeers(p) : AckedPeers(p)[i] # p
  BY AckedPeersType, AckedPeersFacts DEF Proc
<1>5. /\ made \in Seq(Packet)
      /\ \A i \in DOMAIN made : Acks(p) /\ made[i].to # p /\ made[i].msg = m
  <2>1. CASE Acks(p)
    <3>1. /\ made \in Seq(Packet) /\ DOMAIN made = DOMAIN AckedPeers(p)
          /\ \A i \in DOMAIN made : made[i].msg = m
      BY <1>2, <1>4, <2>1, PacketsType
    <3>2. \A i \in DOMAIN made : made[i].to = AckedPeers(p)[i]
      BY <2>1, <3>1 DEF Packets
    <3>3. QED
      BY <1>4, <2>1, <3>1, <3>2
  <2>2. CASE ~Acks(p)
    BY <2>2
  <2>3. QED
    BY <2>1, <2>2
<1> HIDE DEF made
<1>6. \A q \in Host : \A g \in Host \ {q} :
         /\ Path(g, q) \in Seq(Packet)
         /\ g = p => Path(g, q)' = Path(g, q) \o made
         /\ g # p => Path(g, q)' = Path(g, q)
  BY <1>1, <1>2, <1>5, MadeOnPath DEF Free
<1>7. ASSUME NEW x, x = m, Acks(p)
      PROVE  MaySend(p, x)
  BY <1>2, <1>3, <1>7 DEF MaySend, Current
<1>8. ASSUME NEW q \in Host, NEW g \in Host \ {q}
      PROVE  Extends(g, q)
  <2>1. CASE g = p
    BY <1>5, <1>6, <1>7, <2>1 DEF Extends
  <2>2. CASE g # p
    <3>1. Path(g, q)' = Path(g, q) \o <<>>
      <4>1. \A s \in Seq(Packet) : s \o <<>> = s
        OBVIOUS
      <4>2. QED
        BY <1>6, <2>2, <4>1
    <3>2. <<>> \in Seq(Packet) /\ \A i \in DOMAIN <<>> : FALSE
      OBVIOUS
    <3>3. QED
      BY <3>1, <3>2 DEF Extends
  <2>3. QED
    BY <2>1, <2>2
<1>9. \A q \in Proc : Own(q)
  BY <1>2 DEF Own
<1>10. Addressed'
  <2>1. \A g \in Host : outbox'[g] = IF g = p THEN made ELSE outbox[g]
    BY <1>1, <1>2 DEF NetTypeOK
  <2>2. QED
    BY <1>5, <2>1 DEF Streams, Addressed
<1>11. QED
  BY <1>8, <1>9, <1>10 DEF StreamStep

(* A host's packets leave for the only other host.                         *)
LEMMA TransmitStreams ==
  ASSUME NetSafetyInv, TwoHosts, Streams, NEW h \in Host, Transmit(h)
  PROVE  StreamStep /\ Addressed'
<1> DEFINE w == Head(outbox[h])
           to == NextHop(h, w.to)
<1>1. NetTypeOK
  BY DEF NetSafetyInv
<1>2. /\ w \in Packet /\ 1 \in DOMAIN outbox[h] /\ w = outbox[h][1]
      /\ outbox' \in [Host -> Seq(Packet)]
      /\ \A g \in Host : g # h => outbox'[g] = outbox[g]
      /\ \A i \in DOMAIN outbox'[h] :
              i + 1 \in DOMAIN outbox[h] /\ outbox'[h][i] = outbox[h][i + 1]
      /\ vars' = vars
  BY <1>1, LeavingFacts
<1>3. net' = [net EXCEPT ![to] = Append(@, w)] /\ outbox[h] # <<>>
      /\ outbox' = [outbox EXCEPT ![h] = Tail(@)]
  BY DEF Transmit
<1>4. w.to \in Host /\ w.to # h
  BY <1>2 DEF Streams, Addressed, Packet, Host
<1>5. to = w.to /\ to \in Host /\ to # h
  BY <1>4 DEF NextHop, TwoHosts, Host
<1>6. \A g \in Host : net'[g] = IF g = to THEN Append(net[g], w) ELSE net[g]
  BY <1>1, <1>3, <1>5 DEF NetTypeOK
<1>7. outbox'[h] = Tail(outbox[h])
  BY <1>1, <1>3 DEF NetTypeOK
<1>8. ASSUME NEW q \in Host, NEW g \in Host \ {q}
      PROVE  Path(g, q)' = Path(g, q)
  <2>1. CASE g = h
    <3>1. q = to
      BY <1>5, <2>1 DEF TwoHosts
    <3>2. Path(g, q)' = Append(net[q], w) \o Tail(outbox[h])
      BY <1>6, <1>7, <2>1, <3>1 DEF Path
    <3>3. net[q] \in Seq(Packet) /\ outbox[h] \in Seq(Packet)
      BY <1>1 DEF NetTypeOK
    <3>4. Append(net[q], w) \o Tail(outbox[h]) = net[q] \o outbox[h]
      BY <1>3, <3>3, MovedAlong
    <3>5. QED
      BY <2>1, <3>2, <3>4 DEF Path
  <2>2. CASE g # h
    <3>1. q # to
      BY <1>5, <2>2 DEF TwoHosts
    <3>2. QED
      BY <1>2, <1>6, <2>2, <3>1 DEF Path
  <2>3. QED
    BY <2>1, <2>2
<1>9. StreamStep
  BY <1>1, <1>2, <1>8, PathsKept DEF vars
<1> HIDE DEF w, to
<1>10. Addressed'
  <2>1. ASSUME NEW g \in Host, NEW i \in DOMAIN net'[g]
        PROVE  net'[g][i].to = g
    <3>1. net[g] \in Seq(Packet)
      BY <1>1 DEF NetTypeOK
    <3>2. \A j \in DOMAIN Append(net[g], w) : Append(net[g], w)[j] = w \/
            (j \in DOMAIN net[g] /\ Append(net[g], w)[j] = net[g][j])
      BY <1>2, <3>1
    <3>3. QED
      <4>1. CASE g = to
        <5>1. i \in DOMAIN Append(net[g], w) /\ net'[g][i] = Append(net[g], w)[i]
          BY <1>6, <2>1, <4>1
        <5>2. \A j \in DOMAIN net[g] : net[g][j].to = g
          BY DEF Streams, Addressed
        <5>3. QED
          BY <1>5, <3>2, <4>1, <5>1, <5>2
      <4>2. CASE g # to
        BY <1>6, <2>1, <4>2 DEF Streams, Addressed
      <4>3. QED
        BY <4>1, <4>2
  <2>2. ASSUME NEW g \in Host, NEW i \in DOMAIN outbox'[g]
        PROVE  outbox'[g][i].to # g
    BY <1>2, <2>2 DEF Streams, Addressed
  <2>3. QED
    BY <2>1, <2>2 DEF Addressed
<1>11. QED
  BY <1>9, <1>10

LEMMA ReceiveStreams ==
  ASSUME NetSafetyInv, TwoHosts, Streams, NEW h \in Host, Receive(h)
  PROVE  StreamStep /\ Addressed'
<1> DEFINE w == net[h][1]
<1>1. NetTypeOK /\ TypeOK
  BY DEF NetSafetyInv, SafetyInv, QueueInv
<1>2. /\ w.to \in Proc /\ net[h] # <<>> /\ net[h] \in Seq(Packet)
      /\ net' = [net EXCEPT ![h] = Without(@, 1)]
      /\ w.to = h => in' = [in EXCEPT ![h] = Posted(@, w.msg)] /\ outbox' = outbox
  BY ReceiveFacts
<1>3. /\ 1 \in DOMAIN net[h]
      /\ \A i \in DOMAIN Without(net[h], 1) :
              i + 1 \in DOMAIN net[h] /\ Without(net[h], 1)[i] = net[h][i + 1]
  BY <1>2, WithoutFirst, ZenonT(40)
<1>4. w.to = h /\ h \in Proc
  BY <1>2, <1>3 DEF Streams, Addressed
<1>5. /\ outbox' = outbox
      /\ \A g \in Host : net'[g] = IF g = h THEN Without(net[h], 1) ELSE net[g]
      /\ in'[h] = Posted(in[h], w.msg) /\ \A q \in Proc : q # h => in'[q] = in[q]
  BY <1>1, <1>2, <1>4 DEF NetTypeOK, TypeOK
<1>6. ASSUME NEW g \in Host \ {h}
      PROVE  Arrives(g, h)
  <2>1. outbox[g] \in Seq(Packet)
    BY <1>1 DEF NetTypeOK
  <2>2. /\ Path(g, h) # <<>> /\ Path(g, h)[1] = w
        /\ Without(net[h], 1) \o outbox[g] = Without(Path(g, h), 1)
    <3>1. /\ net[h] \o outbox[g] # <<>> /\ (net[h] \o outbox[g])[1] = net[h][1]
          /\ Without(net[h], 1) \o outbox[g] = Without(net[h] \o outbox[g], 1)
      <4>1. \A s, t \in Seq(Packet) : s # <<>> =>
              /\ s \o t # <<>> /\ (s \o t)[1] = s[1]
              /\ Without(s, 1) \o t = Without(s \o t, 1)
        BY TakenFromFirst
      <4>2. QED
        BY <1>2, <2>1, <4>1
    <3>2. QED
      BY <3>1 DEF Path
  <2>3. Path(g, h)' = Without(net[h], 1) \o outbox[g]
    BY <1>5 DEF Path
  <2>4. QED
    BY <1>4, <1>5, <2>2, <2>3 DEF Arrives
<1>7. ASSUME NEW q \in Host \ {h}, NEW g \in Host \ {q}
      PROVE  Extends(g, q)
  <2>1. Path(g, q)' = Path(g, q)
    BY <1>5, <1>7 DEF Path
  <2>2. Path(g, q)' = Path(g, q) \o <<>>
    <3>1. Path(g, q) \in Seq(Packet)
      BY <1>1, PathType
    <3>2. \A s \in Seq(Packet) : s \o <<>> = s
      OBVIOUS
    <3>3. QED
      BY <2>1, <3>1, <3>2
  <2>3. <<>> \in Seq(Packet) /\ \A i \in DOMAIN <<>> : FALSE
    OBVIOUS
  <2>4. QED
    BY <2>2, <2>3 DEF Extends
<1>8. \A q \in Proc \ {h} : Own(q)
  BY <1>5 DEF Own
<1>9. \E g \in Host : g # h
  BY DEF TwoHosts
<1>10. Addressed'
  <2>1. \A g \in Host : \A i \in DOMAIN net'[g] : net'[g][i].to = g
    BY <1>3, <1>5 DEF Streams, Addressed
  <2>2. QED
    BY <1>5, <2>1 DEF Streams, Addressed
<1>11. QED
  BY <1>6, <1>7, <1>8, <1>9, <1>10 DEF StreamStep

LEMMA FirstPacket ==
  ASSUME NEW s \in Seq(Packet), s # <<>>
  PROVE  1 \in DOMAIN s /\ s[1] \in Packet /\ s[1].msg \in Call /\ s[1].to \in Proc
<1>1. 1 \in DOMAIN s /\ s[1] \in Packet
  OBVIOUS
<1>2. QED
  BY <1>1 DEF Packet

(* No step takes a call away from a process, nor from the streams to it.   *)
LEMMA InCallKept ==
  ASSUME Moved, NEW q \in Proc, NEW m, InCall(q, m)
  PROVE  InCall(q, m)'
<1>1. PICK j \in DOMAIN in[q] : SameCall(in[q][j], m) /\ ~in[q][j].ack
  BY DEF InCall
<1>2. j \in DOMAIN in'[q] /\ InKept(q, j)
  BY DEF Moved, InStepOf
<1>3. SameCall(in'[q][j], m) /\ ~in'[q][j].ack
  BY <1>1, <1>2 DEF InKept, SameMessage, SameCall
<1>4. QED
  BY <1>2, <1>3 DEF InCall, SameCall

LEMMA AboardKept ==
  ASSUME NetSafetyInv, Moved, TwoHosts, Streams, StreamStep,
         NEW q \in Peer, NEW m, Aboard(q, m)
  PROVE  Aboard(q, m)'
<1>1. q \in Proc /\ q \in Host /\ TypeOK /\ NetTypeOK
  BY DEF Proc, Host, NetSafetyInv, SafetyInv, QueueInv
<1>2. CASE InCall(q, m)
  BY <1>1, <1>2, InCallKept DEF Aboard
<1>3. ASSUME NEW g \in Host \ {q}, Brings(Path(g, q), m)
      PROVE  Aboard(q, m)'
  <2> DEFINE s == Path(g, q)
  <2>1. PICK j \in DOMAIN s : SameCall(s[j].msg, m) /\ ~s[j].msg.ack
    BY <1>3 DEF Brings
  <2>2. s \in Seq(Packet)
    BY <1>1, PathType
  <2>3. CASE Arrives(g, q)
    <3>1. s # <<>> /\ Path(g, q)' = Without(s, 1) /\ in'[q] = Posted(in[q], s[1].msg)
      BY <2>3 DEF Arrives
    <3> HIDE DEF s
    <3>2. CASE j = 1
      <4>1. s[1].msg \in Call
        BY <2>2, <3>1, FirstPacket
      <4>2. \A x : x = s[1].msg => InCall(q, x)'
        BY <1>1, <2>1, <3>1, <3>2, <4>1, PostedCall DEF Streams
      <4>3. QED
        BY <2>1, <3>2, <4>2 DEF Aboard, InCall, SameCall
    <3>3. CASE j # 1
      <4>1. j - 1 \in DOMAIN Without(s, 1) /\ Without(s, 1)[j - 1] = s[j]
        BY <2>1, <2>2, <3>1, <3>3, WithoutFirst
      <4>2. Brings(Path(g, q)', m)
        BY <2>1, <3>1, <4>1 DEF Brings
      <4>3. QED
        BY <4>2 DEF Aboard, Brings, SameCall
    <3>4. QED
      BY <3>2, <3>3
  <2>4. CASE Extends(g, q)
    <3>1. PICK new \in Seq(Packet) : Path(g, q)' = s \o new
      BY <2>4 DEF Extends
    <3> HIDE DEF s
    <3>2. j \in DOMAIN (s \o new) /\ (s \o new)[j] = s[j]
      BY <2>1, <2>2
    <3>3. Brings(Path(g, q)', m)
      BY <2>1, <3>1, <3>2 DEF Brings
    <3>4. QED
      BY <3>3 DEF Aboard, Brings, SameCall
  <2>5. QED
    BY <1>1, <2>3, <2>4 DEF StreamStep
<1>4. QED
  BY <1>2, <1>3 DEF Aboard

LEMMA ForAllKept ==
  ASSUME NetSafetyInv, Moved, TwoHosts, Streams, StreamStep,
         NEW m, NEW n, ForAll(m), SameCall(m, n), n.ack = m.ack, n.to = m.to
  PROVE  ForAll(n)'
<1> SUFFICES ASSUME ~n.ack, n.to = Group, NEW q \in Peer
             PROVE  Aboard(q, n)'
  BY DEF ForAll
<1>1. Aboard(q, m)
  BY DEF ForAll
<1>2. Aboard(q, m)'
  BY <1>1, AboardKept
<1>3. QED
  BY <1>2 DEF Aboard, InCall, Brings, SameCall

LEMMA AckFollowsNext ==
  ASSUME NetSafetyInv, Moved, TwoHosts, Streams, StreamStep, NEW q \in Peer
  PROVE  AckFollows(q)'
<1>1. /\ q \in Proc /\ q \in Host /\ TypeOK /\ NetTypeOK
      /\ in[q] \in Seq(Call) /\ Len(in[q]) \in Nat /\ DOMAIN in[q] = 1 .. Len(in[q])
  BY DEF Proc, Host, NetSafetyInv, SafetyInv, QueueInv, TypeOK
<1>2. \A i \in DOMAIN in[q] : i \in DOMAIN in'[q] /\ InKept(q, i)
  BY <1>1 DEF Moved, InStepOf
<1> SUFFICES ASSUME NEW i \in DOMAIN in'[q], in'[q][i].ack
             PROVE  \E j \in 1 .. i - 1 : SameCall(in'[q][i], in'[q][j]) /\ ~in'[q][j].ack
  BY DEF AckFollows, SameCall
<1>3. CASE i \in DOMAIN in[q]
  <2>1. in'[q][i] = in[q][i]
    BY <1>2, <1>3 DEF InKept, SameMessage
  <2>2. PICK j \in 1 .. i - 1 : SameCall(in[q][i], in[q][j]) /\ ~in[q][j].ack
    BY <1>3, <2>1 DEF Streams, AckFollows
  <2>3. j \in DOMAIN in[q]
    BY <1>1, <1>3
  <2>4. SameCall(in[q][i], in'[q][j]) /\ ~in'[q][j].ack
    BY <1>2, <2>2, <2>3 DEF InKept, SameMessage, SameCall
  <2>5. QED
    BY <2>1, <2>2, <2>4
<1>4. CASE i \notin DOMAIN in[q]
  <2>1. PICK g \in Host \ {q} : Arrives(g, q)
    BY <1>1, <1>4 DEF StreamStep, Own
  <2> DEFINE s == Path(g, q)
             m == s[1].msg
  <2>2. s # <<>> /\ in'[q] = Posted(in[q], m)
    BY <2>1 DEF Arrives
  <2>3. s \in Seq(Packet) /\ 1 \in DOMAIN s /\ m \in Call
    <3>1. s \in Seq(Packet)
      BY <1>1, PathType
    <3>2. QED
      BY <2>2, <3>1, FirstPacket
  <2>4. in'[q] = Append(in[q], m)
    BY <1>4, <2>2 DEF Posted
  <2>5. i = Len(in[q]) + 1 /\ in'[q][i] = m
    <3> HIDE DEF m
    <3>1. QED
      BY <1>1, <1>4, <2>3, <2>4
  <2>6. InCall(q, m)
    <3>1. m.ack
      BY <2>5
    <3>2. InCall(q, m) \/ \E j \in 1 .. 1 - 1 : SameCall(s[j].msg, m) /\ ~s[j].msg.ack
      BY <2>3, <3>1 DEF Streams, AckFollowsOn
    <3>3. QED
      BY <3>2
  <2> HIDE DEF m
  <2>7. PICK j \in DOMAIN in[q] : SameCall(in[q][j], m) /\ ~in[q][j].ack
    BY <2>6 DEF InCall
  <2>8. j \in 1 .. i - 1
    BY <1>1, <2>5
  <2>9. SameCall(m, in'[q][j]) /\ ~in'[q][j].ack
    BY <1>2, <2>7 DEF InKept, SameMessage, SameCall
  <2>10. QED
    BY <2>5, <2>8, <2>9
<1>5. QED
  BY <1>3, <1>4

LEMMA AckFollowsOnNext ==
  ASSUME NetSafetyInv, Moved, TwoHosts, Streams, StreamStep, NEW q \in Peer, NEW g \in Host \ {q}
  PROVE  AckFollowsOn(g, q)'
<1> DEFINE s == Path(g, q)
<1>1. q \in Proc /\ q \in Host /\ TypeOK /\ NetTypeOK
  BY DEF Proc, Host, NetSafetyInv, SafetyInv, QueueInv
<1>2. s \in Seq(Packet)
  BY <1>1, PathType
<1>3. \A i \in DOMAIN s : s[i].msg.ack =>
        \/ InCall(q, s[i].msg)
        \/ \E j \in 1 .. i - 1 : SameCall(s[j].msg, s[i].msg) /\ ~s[j].msg.ack
  BY DEF Streams, AckFollowsOn
<1>4. \A m : InCall(q, m) => InCall(q, m)'
  BY <1>1, InCallKept
<1> SUFFICES ASSUME NEW i \in DOMAIN Path(g, q)', Path(g, q)'[i].msg.ack,
                    NEW m, m = Path(g, q)'[i].msg
             PROVE  \/ InCall(q, m)'
                    \/ \E j \in 1 .. i - 1 : SameCall(Path(g, q)'[j].msg, m) /\ ~Path(g, q)'[j].msg.ack
  BY DEF AckFollowsOn, InCall, SameCall
<1>5. CASE Arrives(g, q)
  <2>1. s # <<>> /\ Path(g, q)' = Without(s, 1) /\ in'[q] = Posted(in[q], s[1].msg)
    BY <1>5 DEF Arrives
  <2> HIDE DEF s
  <2>2. /\ i \in Nat \ {0} /\ i + 1 \in DOMAIN s /\ Path(g, q)'[i] = s[i + 1]
        /\ \A j \in DOMAIN s : j = 1 \/ (j - 1 \in DOMAIN Path(g, q)' /\ Path(g, q)'[j - 1] = s[j])
    BY <1>2, <2>1, WithoutFirst
  <2>3. CASE InCall(q, m)
    BY <1>4, <2>3
  <2>4. CASE ~InCall(q, m)
    <3>1. PICK j \in 1 .. i + 1 - 1 : SameCall(s[j].msg, m) /\ ~s[j].msg.ack
      BY <1>3, <2>2, <2>4
    <3>2. j \in DOMAIN s
      BY <1>2, <2>2
    <3>3. CASE j = 1
      <4>1. s[1].msg \in Call
        BY <1>2, <2>1, FirstPacket
      <4>2. \A x : x = s[1].msg => InCall(q, x)'
        BY <1>1, <2>1, <3>1, <3>3, <4>1, PostedCall DEF Streams
      <4>3. QED
        BY <3>1, <3>3, <4>2 DEF InCall, SameCall
    <3>4. CASE j # 1
      <4>1. j - 1 \in 1 .. i - 1
        BY <2>2, <3>4
      <4>2. Path(g, q)'[j - 1] = s[j]
        BY <2>2, <3>2, <3>4
      <4>3. QED
        BY <3>1, <4>1, <4>2
    <3>5. QED
      BY <3>3, <3>4
  <2>5. QED
    BY <2>3, <2>4
<1>6. CASE Extends(g, q)
  <2>1. PICK new \in Seq(Packet) :
          /\ Path(g, q)' = s \o new
          /\ \A k \in DOMAIN new : g \in Proc /\ MaySend(g, new[k].msg)
    BY <1>6 DEF Extends
  <2> HIDE DEF s
  <2>2. /\ \A j \in DOMAIN s : j \in DOMAIN Path(g, q)' /\ Path(g, q)'[j] = s[j]
        /\ i \in DOMAIN s \/ \E k \in DOMAIN new : i = Len(s) + k /\ Path(g, q)'[i] = new[k]
        /\ Len(s) \in Nat /\ DOMAIN s = 1 .. Len(s) /\ i \in Nat /\ DOMAIN new \subseteq Nat \ {0}
    <3>1. \A u \in Seq(Packet) : \A v \in Seq(Packet) :
            /\ \A j \in DOMAIN u : j \in DOMAIN (u \o v) /\ (u \o v)[j] = u[j]
            /\ \A j \in DOMAIN (u \o v) : j \in DOMAIN u \/
                 (j - Len(u) \in DOMAIN v /\ j = Len(u) + (j - Len(u)) /\ (u \o v)[j] = v[j - Len(u)])
            /\ Len(u) \in Nat /\ DOMAIN u = 1 .. Len(u) /\ DOMAIN (u \o v) \subseteq Nat
            /\ DOMAIN v \subseteq Nat \ {0}
      OBVIOUS
    <3>2. QED
      BY <1>2, <2>1, <3>1
  <2>3. CASE i \in DOMAIN s
    <3>1. m = s[i].msg
      BY <2>2, <2>3
    <3>2. CASE InCall(q, m)
      BY <1>4, <3>2
    <3>3. CASE ~InCall(q, m)
      <4>1. PICK j \in 1 .. i - 1 : SameCall(s[j].msg, m) /\ ~s[j].msg.ack
        BY <1>3, <2>3, <3>1, <3>3
      <4>2. j \in DOMAIN s
        BY <2>2, <2>3
      <4>3. QED
        BY <2>2, <4>1, <4>2
    <3>4. QED
      BY <3>2, <3>3
  <2>4. CASE i \notin DOMAIN s
    <3>1. PICK k \in DOMAIN new : i = Len(s) + k /\ m = new[k].msg
      BY <2>2, <2>4
    <3>2. g \in Proc /\ MaySend(g, m)
      BY <2>1, <3>1
    <3>3. PICK n \in DOMAIN in[g] : SameCall(in[g][n], m) /\ ~in[g][n].ack /\ in[g][n].to = Group
      BY <3>2 DEF MaySend
    <3>4. Aboard(q, in[g][n])
      BY <3>2, <3>3 DEF Streams, ForAll
    <3>5. CASE InCall(q, in[g][n])
      <4>1. InCall(q, m)
        BY <3>3, <3>5 DEF InCall, SameCall
      <4>2. QED
        BY <1>4, <4>1
    <3>6. CASE ~InCall(q, in[g][n])
      <4>1. PICK f \in Host \ {q} : Brings(Path(f, q), in[g][n])
        BY <3>4, <3>6 DEF Aboard
      <4>2. f = g
        BY <1>1 DEF TwoHosts
      <4>3. PICK j \in DOMAIN s : SameCall(s[j].msg, in[g][n]) /\ ~s[j].msg.ack
        BY <4>1, <4>2 DEF Brings, s
      <4>4. j \in 1 .. i - 1
        BY <2>2, <3>1
      <4>5. SameCall(s[j].msg, m)
        BY <3>3, <4>3 DEF SameCall
      <4>6. QED
        BY <2>2, <4>3, <4>4, <4>5
    <3>7. QED
      BY <3>5, <3>6
  <2>5. QED
    BY <2>3, <2>4
<1>7. QED
  BY <1>1, <1>5, <1>6 DEF StreamStep

LEMMA ForAllNext ==
  ASSUME NetSafetyInv, Moved, TwoHosts, Streams, StreamStep
  PROVE  /\ \A p \in Proc : \A i \in DOMAIN in'[p] : \A m : m = in'[p][i] => ForAll(m)'
         /\ \A p \in Proc : \A g \in Host \ {p} : \A i \in DOMAIN Path(g, p)' :
              \A m : m = Path(g, p)'[i].msg => ForAll(m)'
<1>1. TypeOK /\ NetTypeOK /\ Proc \subseteq Host /\ Peer \subseteq Proc
  BY DEF Proc, Host, NetSafetyInv, SafetyInv, QueueInv
<1>2. ASSUME NEW p \in Proc, NEW i \in DOMAIN in'[p], NEW m, m = in'[p][i]
      PROVE  ForAll(m)'
  <2>1. CASE i \in DOMAIN in[p]
    <3>1. SameCall(in[p][i], m) /\ m.ack = in[p][i].ack /\ m.to = in[p][i].to
      BY <1>2, <2>1 DEF Moved, InStepOf, InKept, SameMessage, SameCall
    <3>2. ForAll(in[p][i])
      BY <2>1 DEF Streams
    <3>3. \A c : c = in[p][i] => ForAll(m)'
      BY <3>1, <3>2, ForAllKept
    <3>4. QED
      BY <3>3
  <2>2. CASE i \notin DOMAIN in[p] /\ Own(p)
    <3> SUFFICES ASSUME ~m.ack, m.to = Group, NEW q \in Peer
                 PROVE  Aboard(q, m)'
      BY DEF ForAll
    <3>1. CASE q = p
      BY <1>2, <3>1 DEF Aboard, InCall, SameCall
    <3>2. CASE q # p
      <4>1. Brings(Path(p, q)', m)
        BY <1>2, <2>2, <3>2 DEF Own
      <4>2. p \in Host \ {q}
        BY <1>1, <3>2
      <4>3. QED
        BY <4>1, <4>2 DEF Aboard, Brings, SameCall
    <3>3. QED
      BY <3>1, <3>2
  <2>3. ASSUME i \notin DOMAIN in[p], NEW g \in Host \ {p}, Arrives(g, p)
        PROVE  ForAll(m)'
    <3> DEFINE s == Path(g, p)
    <3>1. s # <<>> /\ in'[p] = Posted(in[p], s[1].msg)
      BY <2>3 DEF Arrives
    <3>2. s \in Seq(Packet)
      BY <1>1, PathType
    <3>3. 1 \in DOMAIN s /\ s[1].msg \in Call
      BY <3>1, <3>2, FirstPacket
    <3>4. in'[p] = Append(in[p], s[1].msg)
      BY <2>3, <3>1 DEF Posted
    <3>5. m = s[1].msg
      <4>1. in[p] \in Seq(Call)
        BY <1>1 DEF TypeOK
      <4> HIDE DEF s
      <4>2. QED
        BY <1>2, <2>3, <3>3, <3>4, <4>1
    <3>6. ForAll(m)
      BY <3>3, <3>5 DEF Streams
    <3>7. QED
      BY <3>6, ForAllKept DEF SameCall
  <2>4. QED
    BY <2>1, <2>2, <2>3 DEF StreamStep
<1>3. ASSUME NEW p \in Proc, NEW g \in Host \ {p}, NEW i \in DOMAIN Path(g, p)',
             NEW m, m = Path(g, p)'[i].msg
      PROVE  ForAll(m)'
  <2> DEFINE s == Path(g, p)
  <2>1. s \in Seq(Packet)
    BY <1>1, PathType
  <2>2. \A j \in DOMAIN s : \A x : x = s[j].msg => ForAll(x)'
    <3>1. \A j \in DOMAIN s : ForAll(s[j].msg)
      BY DEF Streams
    <3>2. \A x : ForAll(x) => ForAll(x)'
      BY ForAllKept DEF SameCall
    <3>3. QED
      BY <3>1, <3>2
  <2>3. CASE Arrives(g, p)
    <3>1. s # <<>> /\ Path(g, p)' = Without(s, 1)
      BY <2>3 DEF Arrives
    <3> HIDE DEF s
    <3>2. i + 1 \in DOMAIN s /\ Path(g, p)'[i] = s[i + 1]
      BY <2>1, <3>1, <1>3, WithoutFirst
    <3>3. QED
      BY <1>3, <2>2, <3>2
  <2>4. CASE Extends(g, p)
    <3>1. PICK new \in Seq(Packet) :
            /\ Path(g, p)' = s \o new
            /\ \A k \in DOMAIN new : g \in Proc /\ MaySend(g, new[k].msg)
      BY <2>4 DEF Extends
    <3>2. \/ i \in DOMAIN s /\ Path(g, p)'[i] = s[i]
          \/ \E k \in DOMAIN new : Path(g, p)'[i] = new[k]
      <4> HIDE DEF s
      <4>1. \A u \in Seq(Packet) : \A v \in Seq(Packet) : \A j \in DOMAIN (u \o v) :
              (j \in DOMAIN u /\ (u \o v)[j] = u[j]) \/
              (j - Len(u) \in DOMAIN v /\ (u \o v)[j] = v[j - Len(u)])
        OBVIOUS
      <4>2. QED
        BY <1>3, <2>1, <3>1, <4>1
    <3>3. CASE i \in DOMAIN s /\ Path(g, p)'[i] = s[i]
      BY <1>3, <2>2, <3>3
    <3>4. ASSUME NEW k \in DOMAIN new, Path(g, p)'[i] = new[k]
          PROVE  ForAll(m)'
      <4> SUFFICES ASSUME ~m.ack, m.to = Group, NEW q \in Peer
                   PROVE  Aboard(q, m)'
        BY DEF ForAll
      <4>1. g \in Proc /\ MaySend(g, m)
        BY <1>3, <3>1, <3>4
      <4>2. CASE q = g
        BY <4>1, <4>2 DEF MaySend, Aboard
      <4>3. CASE q # g
        <5>1. q = p
          BY <1>1, <1>3, <4>3 DEF TwoHosts
        <5>2. Brings(Path(g, p)', m)
          BY <1>3 DEF Brings, SameCall
        <5>3. QED
          BY <1>3, <5>1, <5>2 DEF Aboard, Brings, SameCall
      <4>4. QED
        BY <4>2, <4>3
    <3>5. QED
      BY <3>2, <3>3, <3>4
  <2>5. QED
    BY <1>1, <2>3, <2>4 DEF StreamStep
<1>4. QED
  BY <1>2, <1>3

LEMMA StreamStepHolds ==
  ASSUME NoMaster, TwoHosts, NetSafetyInv, Streams, [NetNext]_allvars, lost' = 0
  PROVE  StreamStep /\ Addressed'
<1>1. NetTypeOK /\ SafetyInv /\ TypeOK
  BY DEF NetSafetyInv, SafetyInv, QueueInv
<1>2. CASE net' = net /\ outbox' = outbox /\ \A q \in Proc : DOMAIN in'[q] = DOMAIN in[q]
  <2>1. \A q \in Host : \A g \in Host \ {q} : Path(g, q)' = Path(g, q)
    BY <1>2 DEF Path
  <2>2. Addressed'
    BY <1>2 DEF Streams, Addressed
  <2>3. QED
    BY <1>1, <1>2, <2>1, <2>2, PathsKept
<1>3. CASE UNCHANGED allvars \/ \E p \in Proc : NetSend(p)
  BY <1>2, <1>3 DEF allvars, vars, netvars, NetSend, Send, Push
<1>4. ASSUME NEW p \in Proc, QuietStep(p), net' = net
      PROVE  StreamStep /\ Addressed'
  <2>1. CASE ReadAck(p)
    BY <1>2, <1>4, <2>1 DEF QuietStep, ReadAck
  <2>2. CASE SkipFailed(p)
    <3>1. in' = [in EXCEPT ![p] = [@ EXCEPT ![inptr[p]].result = "fail"]]
      BY <2>2 DEF SkipFailed
    <3>2. \A q \in Proc : DOMAIN in'[q] = DOMAIN in[q]
      BY <1>1, <3>1 DEF TypeOK
    <3>3. QED
      BY <1>2, <1>4, <3>2 DEF QuietStep
  <2>3. CASE Resume(p)
    <3>1. \A q \in Proc : in'[q] = in[q]
      BY <2>3 DEF Resume, CommitsTo, NoMaster
    <3>2. QED
      BY <1>2, <1>4, <3>1 DEF QuietStep
  <2>4. QED
    BY <1>4, <2>1, <2>2, <2>3 DEF QuietStep
<1>5. ASSUME NEW p \in Proc, Free(p), NetOutStep(p), net' = net
      PROVE  StreamStep /\ Addressed'
  BY <1>5, OutStepStreams
<1>6. ASSUME NEW p \in Proc, Free(p), NetExecute(p), net' = net
      PROVE  StreamStep /\ Addressed'
  BY <1>6, ExecuteStreams
<1>7. ASSUME NEW h \in Host, Lose(h)
      PROVE  FALSE
  BY <1>1, <1>7 DEF Lose, NetTypeOK
<1>8. ASSUME NEW h \in Host, Transmit(h) \/ Receive(h)
      PROVE  StreamStep /\ Addressed'
  BY <1>8, TransmitStreams, ReceiveStreams
<1>9. QED
  BY <1>3, <1>4, <1>5, <1>6, <1>7, <1>8, NetCases

LEMMA LostGrows ==
  ASSUME NetSafetyInv, [NetNext]_allvars, lost' = 0
  PROVE  lost = 0
<1>1. lost \in Nat /\ (lost' = lost \/ lost' = lost + 1)
  BY DEF NetSafetyInv, NetTypeOK, NetNext, allvars, netvars, NetSend, NetStep, Transmit, Lose, Receive
<1>2. QED
  BY <1>1

LEMMA StreamsInit ==
  ASSUME NetInit
  PROVE  Streams
<1>1. /\ \A p \in Proc : DOMAIN in[p] = {}
      /\ \A h \in Host : net[h] = <<>> /\ outbox[h] = <<>>
  BY DEF NetInit, Init
<1>2. \A p \in Host : \A q \in Host : DOMAIN Path(q, p) = {}
  <2>1. DOMAIN (<<>> \o <<>>) = {}
    OBVIOUS
  <2>2. QED
    BY <1>1, <2>1 DEF Path
<1>3. Proc \subseteq Host /\ Peer \subseteq Proc
  BY DEF Host, Proc
<1>4. Addressed
  BY <1>1 DEF Addressed
<1>5. QED
  BY <1>1, <1>2, <1>3, <1>4 DEF Streams, AckFollows, AckFollowsOn

LEMMA StreamsNext ==
  ASSUME NoMaster, TwoHosts, NetSafetyInv, lost = 0 => Streams, [NetNext]_allvars
  PROVE  lost' = 0 => Streams'
<1> SUFFICES ASSUME lost' = 0
             PROVE  Streams'
  OBVIOUS
<1>1. Streams
  BY LostGrows
<1>2. Moved /\ StreamStep /\ Addressed'
  BY <1>1, NetMoves, StreamStepHolds
<1>3. \A q \in Peer : AckFollows(q)' /\ \A g \in Host \ {q} : AckFollowsOn(g, q)'
  BY <1>1, <1>2, AckFollowsNext, AckFollowsOnNext
<1>4. /\ \A p \in Proc : \A i \in DOMAIN in'[p] : \A m : m = in'[p][i] => ForAll(m)'
      /\ \A p \in Proc : \A g \in Host \ {p} : \A i \in DOMAIN Path(g, p)' :
           \A m : m = Path(g, p)'[i].msg => ForAll(m)'
  BY <1>1, <1>2, ForAllNext
<1>5. /\ \A p \in Proc : \A i \in DOMAIN in'[p] : ForAll(in[p][i])'
      /\ \A p \in Proc : \A g \in Host \ {p} : \A i \in DOMAIN Path(g, p)' : ForAll(Path(g, p)[i].msg)'
  BY <1>4 DEF ForAll, Aboard, InCall, Brings, SameCall
<1>6. QED
  BY <1>2, <1>3, <1>5 DEF Streams

(* Between two hosts, whatever both of them send at the same time, an ack  *)
(* never overtakes its call, unless a message is lost.                     *)
THEOREM AcksFollowCalls ==
  ASSUME NoMaster, TwoHosts
  PROVE  NetSpec => []CallBeforeAck
<1> DEFINE I == NetSafetyInv /\ (lost = 0 => Streams)
<1>1. NetInit => I
  BY NetSafetyInvInit, StreamsInit
<1>2. I /\ [NetNext]_allvars => I'
  BY NetSafetyInvNext, StreamsNext
<1>3. I => CallBeforeAck
  BY DEF Streams, AckFollows, CallBeforeAck
<1> HIDE DEF I
<1>4. QED
  BY <1>1, <1>2, <1>3, PTL DEF NetSpec

-----------------------------------------------------------------------------
(***************************************************************************)
(* Every step over the network is one of Moves, so that what is known of   *)
(* mirrors that move so holds here too, once a call on its way is shown to *)
(* be one of its sender's.                                                 *)
(***************************************************************************)

LEMMA QuietOwnStep ==
  ASSUME NEW q \in Proc, in'[q] = in[q], inptr'[q] = inptr[q], self'[q] = self[q]
  PROVE  OwnStepOf(q)
BY DEF OwnStepOf

(* What is sent, or marked in OUT, over the network. *)
LEMMA NetOutStepOut ==
  ASSUME SafetyInv, NEW p \in Proc, NetOutStep(p), NEW q \in Proc
  PROVE  OutStepOf(q) /\ outptr[q] <= outptr'[q]
<1> DEFINE m == Transmitted(p)
<1>1. TypeOK
  BY DEF SafetyInv, QueueInv
<1>2. /\ outptr[p] \in DOMAIN out[p] /\ SameRequest(out[p][outptr[p]], m)
      /\ out' = [out EXCEPT ![p] = [@ EXCEPT ![outptr[p]] = m]]
  BY NetOutStepFacts
<1>3. m.innb = out[p][outptr[p]].innb /\ m.result = out[p][outptr[p]].result
  <2>1. out[p][outptr[p]] \in Call
    BY <1>1, <1>2, SMTT(30) DEF TypeOK
  <2>2. QED
    BY <2>1 DEF Transmitted, Call
<1> HIDE DEF m
<1>4. outptr[q] <= outptr'[q]
  <2>1. outptr' = [outptr EXCEPT ![p] = @ + 1]
    BY DEF NetOutStep
  <2>2. outptr \in [Proc -> Nat \ {0}]
    BY <1>1 DEF TypeOK
  <2>3. QED
    BY <2>1, <2>2
<1>5. CASE q # p
  BY <1>1, <1>2, <1>4, <1>5, OutUnchanged DEF TypeOK
<1>6. CASE q = p
  <2>1. /\ DOMAIN out'[p] = DOMAIN out[p] /\ out'[p][outptr[p]] = m
        /\ \A i \in DOMAIN out[p] : i # outptr[p] => out'[p][i] = out[p][i]
    BY <1>1, <1>2 DEF TypeOK
  <2>2. OutStepOf(q)
    BY <1>2, <1>3, <1>6, <2>1 DEF OutStepOf, SameRequest, SameCall
  <2>3. QED
    BY <1>4, <2>2
<1>7. QED
  BY <1>5, <1>6

(* A queue that a message is posted to, or not, keeps what it held.        *)
LEMMA PostedKeeps ==
  ASSUME NEW q \in Seq(Call), NEW m \in Call
  PROVE  \A i \in DOMAIN q : Posted(q, m)[i] = q[i]
<1>1. \A i \in DOMAIN q : Append(q, m)[i] = q[i]
  OBVIOUS
<1>2. QED
  BY <1>1 DEF Posted

LEMMA NetOutStepIsMoves ==
  ASSUME SafetyInv, NEW p \in Proc, NetOutStep(p), SafetyInv', NEW q \in Proc
  PROVE  OwnStepOf(q) /\ CondStepOf(q) /\ OutStepOf(q) /\ outptr[q] <= outptr'[q]
<1> DEFINE m == Transmitted(p)
<1>1. /\ TypeOK /\ self' = self /\ inptr' = inptr /\ rl' = rl /\ cond' = cond
  BY DEF SafetyInv, QueueInv, NetOutStep
<1>2. /\ m \in Call
      /\ \A r \in Proc : r # p => in'[r] = in[r]
      /\ in'[p] = IF p \in Dest(m.to) THEN Posted(in[p], m) ELSE in[p]
  BY NetOutStepFacts
<1> HIDE DEF m
<1>3. \A i \in DOMAIN in[q] : in'[q][i] = in[q][i]
  <2>1. in[q] \in Seq(Call) /\ (in'[q] = in[q] \/ in'[q] = Posted(in[q], m))
    BY <1>1, <1>2 DEF TypeOK
  <2>2. QED
    BY <1>2, <2>1, PostedKeeps
<1>4. QED
  BY <1>1, <1>3, NetOutStepOut DEF OwnStepOf, CondStepOf

LEMMA NetExecuteIsMoves ==
  ASSUME SafetyInv, NEW p \in Proc, NetExecute(p), NEW q \in Proc
  PROVE  OwnStepOf(q) /\ CondStepOf(q) /\ OutStepOf(q) /\ outptr[q] <= outptr'[q]
<1>1. TypeOK /\ Performs(p)
  BY NetExecuteMoves DEF SafetyInv, QueueInv
<1>2. out' = out /\ outptr' = outptr
  BY NetExecuteFacts
<1>3. OutStepOf(q) /\ outptr[q] <= outptr'[q]
  BY <1>1, <1>2, OutUnchanged DEF TypeOK
<1>4. CASE q = p
  <2>1. /\ in[p] \in Seq(Call) /\ inptr[p] \in DOMAIN in[p]
        /\ in'[p] = [in[p] EXCEPT ![inptr[p]] = Done(p)]
        /\ inptr'[p] = inptr[p] + 1
    BY <1>1, PerformFacts
  <2>2. \A i \in DOMAIN in[p] : in'[p][i] = IF i = inptr[p] THEN Done(p) ELSE in[p][i]
    BY <2>1
  <2>3. OwnStepOf(p)
    BY <1>1, <2>1, <2>2 DEF OwnStepOf, Answered
  <2>4. QED
    BY <1>1, <1>3, <1>4, <2>3 DEF CondStepOf
<1>5. CASE q # p
  <2>1. in'[q] = in[q] /\ rl'[q] = rl[q] /\ inptr'[q] = inptr[q] /\ cond'[q] = cond[q]
    BY <1>5, NetExecuteFacts
  <2>2. self'[q] = self[q]
    <3>1. self' = [self EXCEPT ![p] = Run(p, Current(p))]
      BY DEF NetExecute
    <3>2. QED
      BY <1>1, <1>5, <3>1 DEF TypeOK
  <2>3. QED
    BY <1>3, <2>1, <2>2, QuietOwnStep DEF CondStepOf
<1>6. QED
  BY <1>4, <1>5

LEMMA ReceiveIsMoves ==
  ASSUME NetSafetyInv, NEW h \in Host, Receive(h), NEW q \in Proc
  PROVE  OwnStepOf(q) /\ CondStepOf(q) /\ OutStepOf(q) /\ outptr[q] <= outptr'[q]
<1> DEFINE m == net[h][1].msg
<1>1. TypeOK
  BY DEF NetSafetyInv, SafetyInv, QueueInv
<1>2. /\ m \in Call
      /\ in' = in \/ in' = [in EXCEPT ![h] = Posted(@, m)]
      /\ UNCHANGED <<self, inptr, rl, out, outptr, cond>>
  BY ReceiveFacts
<1> HIDE DEF m
<1>3. in'[q] = in[q] \/ in'[q] = Posted(in[q], m)
  BY <1>1, <1>2 DEF TypeOK
<1>4. \A i \in DOMAIN in[q] : in'[q][i] = in[q][i]
  BY <1>1, <1>2, <1>3, PostedKeeps DEF TypeOK
<1>5. OutStepOf(q) /\ outptr[q] <= outptr'[q]
  BY <1>1, <1>2, OutUnchanged DEF TypeOK
<1>6. QED
  BY <1>2, <1>4, <1>5 DEF OwnStepOf, CondStepOf

LEMMA NetNextMoves ==
  ASSUME NetSafetyInv, [NetNext]_allvars
  PROVE  Moves
<1>1. SafetyInv /\ SafetyInv' /\ Moved
  BY NetSafetyStep, NetMoves DEF NetSafetyInv
<1>2. CASE [Next]_vars
  BY <1>1, <1>2, NextMoves
<1>3. CASE UNCHANGED allvars
  BY <1>2, <1>3 DEF allvars
<1>4. CASE \E p \in Proc : NetSend(p) \/ QuietStep(p)
  BY <1>2, <1>4, QuietNext
<1>5. CASE \E p \in Proc : NetOutStep(p)
  BY <1>1, <1>5, NetOutStepIsMoves DEF Moves
<1>6. CASE \E p \in Proc : NetExecute(p)
  BY <1>1, <1>6, NetExecuteIsMoves DEF Moves
<1>7. CASE \E h \in Host : Transmit(h) \/ Lose(h)
  BY <1>2, <1>7 DEF Transmit, Lose
<1>8. CASE \E h \in Host : Receive(h)
  BY <1>1, <1>8, ReceiveIsMoves DEF Moves
<1>9. QED
  BY <1>3, <1>4, <1>5, <1>6, <1>7, <1>8, NetCases

-----------------------------------------------------------------------------
(***************************************************************************)
(* Where messages come from, for any hosts and whatever is lost.           *)
(***************************************************************************)

(* A process makes w: a call for those it was sent to, or an ack.          *)
Made(w) ==
  \/ \E p \in Proc : NetOutStep(p) /\ w.msg = Transmitted(p) /\ w.to \in Dest(w.msg.to)
  \/ \E p \in Proc : NetExecute(p) /\ Acks(p) /\ w.msg = Ack(p) /\ w.to \in Peer \ {p}

LEMMA OnWayType ==
  ASSUME NetTypeOK, NEW w, OnWay(w)
  PROVE  w \in Packet /\ w.to \in Proc /\ w.msg \in Call
<1>1. \A h \in Host : outbox[h] \in Seq(Packet) /\ net[h] \in Seq(Packet)
  BY DEF NetTypeOK
<1>2. w \in Packet
  BY <1>1 DEF OnWay
<1>3. QED
  BY <1>2 DEF Packet

LEMMA DestType ==
  ASSUME NEW to \in Proc \cup {Group}
  PROVE  Dest(to) \in SUBSET Proc
BY DEF Dest, Proc

LEMMA RemoteDest ==
  ASSUME NEW p \in Proc, NEW to \in Proc \cup {Group}
  PROVE  Remote(p, to) \in Seq(Dest(to))
<1>1. (IF to = Group THEN PeerList ELSE <<to>>) \in Seq(Dest(to))
  <2>1. CASE to = Group
    BY <2>1, NetAssumption DEF Dest
  <2>2. CASE to # Group
    BY <2>2 DEF Dest
  <2>3. QED
    BY <2>1, <2>2
<1>2. QED
  BY <1>1, OthersType DEF Remote

(* Host p, which has nothing left to send, makes packets.                  *)
LEMMA MadeBack ==
  ASSUME NetTypeOK, NEW p \in Host, NEW made,
         outbox' = [outbox EXCEPT ![p] = made], net' = net,
         NEW w, OnWay(w)'
  PROVE  OnWay(w) \/ \E i \in DOMAIN made : w = made[i]
<1>1. \A h \in Host : outbox'[h] = IF h = p THEN made ELSE outbox[h]
  BY DEF NetTypeOK
<1>2. QED
  BY <1>1 DEF OnWay

LEMMA OutStepBack ==
  ASSUME NetSafetyInv, NEW p \in Proc, NetOutStep(p), net' = net, NEW w, OnWay(w)'
  PROVE  OnWay(w) \/ Made(w)
<1> DEFINE m == Transmitted(p)
           remote == Remote(p, m.to)
           made == Packets(remote, m)
<1>1. SafetyInv /\ NetTypeOK /\ p \in Host
  BY DEF NetSafetyInv, Host
<1>2. m \in Call /\ outbox' = [outbox EXCEPT ![p] = made]
  BY <1>1, NetOutStepFacts
<1>3. m.to \in Proc \cup {Group}
  BY <1>2 DEF Call
<1>4. remote \in Seq(Dest(m.to)) /\ Dest(m.to) \in SUBSET Proc
  BY <1>3, RemoteDest, DestType
<1> HIDE DEF remote
<1>5. \A i \in DOMAIN made : made[i].to \in Dest(m.to) /\ made[i].msg = m
  BY <1>2, <1>4, PacketsType
<1>6. OnWay(w) \/ \E i \in DOMAIN made : w = made[i]
  BY <1>1, <1>2, MadeBack
<1>7. QED
  BY <1>5, <1>6 DEF Made

LEMMA ExecuteBack ==
  ASSUME NetSafetyInv, NEW p \in Proc, NetExecute(p), net' = net, NEW w, OnWay(w)'
  PROVE  OnWay(w) \/ Made(w)
<1> DEFINE m == Ack(p)
           made == IF Acks(p) THEN Packets(AckedPeers(p), m) ELSE <<>>
<1>1. SafetyInv /\ NetTypeOK /\ p \in Host
  BY DEF NetSafetyInv, Host
<1>2. m \in Call /\ outbox' = [outbox EXCEPT ![p] = made]
  BY <1>1, NetExecuteFacts DEF NetExecute
<1>3. AckedPeers(p) \in Seq(Peer) /\ Peer \in SUBSET Proc
  BY AckedPeersType DEF Proc
<1>4. \A i \in DOMAIN made : Acks(p) /\ made[i].to \in Peer \ {p} /\ made[i].msg = m
  <2>1. CASE Acks(p)
    <3>1. \A i \in DOMAIN AckedPeers(p) : AckedPeers(p)[i] # p
      BY AckedPeersFacts
    <3>2. \A i \in DOMAIN made : i \in DOMAIN AckedPeers(p) /\ made[i].to = AckedPeers(p)[i]
      BY <2>1 DEF Packets
    <3>3. QED
      BY <1>2, <1>3, <2>1, <3>1, <3>2, PacketsType
  <2>2. CASE ~Acks(p)
    BY <2>2
  <2>3. QED
    BY <2>1, <2>2
<1>5. OnWay(w) \/ \E i \in DOMAIN made : w = made[i]
  BY <1>1, <1>2, MadeBack
<1>6. QED
  BY <1>4, <1>5 DEF Made

LEMMA TransmitBack ==
  ASSUME NetSafetyInv, NEW h \in Host, Transmit(h), NEW w, OnWay(w)'
  PROVE  OnWay(w)
<1> DEFINE x == Head(outbox[h])
           to == NextHop(h, x.to)
<1>1. NetTypeOK
  BY DEF NetSafetyInv
<1>2. /\ x \in Packet /\ 1 \in DOMAIN outbox[h] /\ x = outbox[h][1]
      /\ \A g \in Host : g # h => outbox'[g] = outbox[g]
      /\ \A i \in DOMAIN outbox'[h] :
              i + 1 \in DOMAIN outbox[h] /\ outbox'[h][i] = outbox[h][i + 1]
  BY <1>1, LeavingFacts
<1>3. net' = [net EXCEPT ![to] = Append(@, x)]
  BY DEF Transmit
<1> HIDE DEF x
<1>4. to \in Host
  BY <1>2, NextHopType
<1> HIDE DEF to
<1>5. net[to] \in Seq(Packet) /\ net \in [Host -> Seq(Packet)]
  BY <1>1, <1>4 DEF NetTypeOK
<1>6. \A i \in DOMAIN Append(net[to], x) :
           Append(net[to], x)[i] = x \/ (i \in DOMAIN net[to] /\ Append(net[to], x)[i] = net[to][i])
  BY <1>2, <1>5
<1>7. \A g \in Host : net'[g] = IF g = to THEN Append(net[to], x) ELSE net[g]
  BY <1>3, <1>5
<1>8. OnWay(x)
  BY <1>2 DEF OnWay
<1>9. ASSUME NEW g \in Host, NEW i \in DOMAIN outbox'[g], w = outbox'[g][i]
      PROVE  OnWay(w)
  BY <1>2, <1>9 DEF OnWay
<1>10. ASSUME NEW g \in Host, NEW i \in DOMAIN net'[g], w = net'[g][i]
       PROVE  OnWay(w)
  <2>1. w = x \/ (i \in DOMAIN net[g] /\ w = net[g][i])
    BY <1>6, <1>7, <1>10
  <2>2. QED
    BY <1>8, <2>1 DEF OnWay
<1>11. QED
  BY <1>9, <1>10 DEF OnWay

LEMMA ReceiveBack ==
  ASSUME NetSafetyInv, NEW h \in Host, Receive(h), NEW w, OnWay(w)'
  PROVE  OnWay(w)
<1> DEFINE x == net[h][1]
<1>1. NetTypeOK
  BY DEF NetSafetyInv
<1>2. /\ net[h] # <<>> /\ net[h] \in Seq(Packet)
      /\ net' = [net EXCEPT ![h] = Without(@, 1)]
      /\ outbox' = outbox \/ outbox' = [outbox EXCEPT ![h] = <<x>>]
  BY ReceiveFacts
<1>3. /\ 1 \in DOMAIN net[h]
      /\ \A i \in DOMAIN Without(net[h], 1) :
           i + 1 \in DOMAIN net[h] /\ Without(net[h], 1)[i] = net[h][i + 1]
  BY <1>2, WithoutFirst, ZenonT(40)
<1>4. \A i \in DOMAIN <<x>> : <<x>>[i] = x
  OBVIOUS
<1>5. \A g \in Host : net'[g] = IF g = h THEN Without(net[h], 1) ELSE net[g]
  BY <1>1, <1>2 DEF NetTypeOK
<1>6. \A g \in Host : outbox'[g] = outbox[g] \/ (g = h /\ outbox'[g] = <<x>>)
  BY <1>1, <1>2 DEF NetTypeOK
<1>7. OnWay(x)
  BY <1>3 DEF OnWay
<1>8. ASSUME NEW g \in Host, NEW i \in DOMAIN outbox'[g], w = outbox'[g][i]
      PROVE  OnWay(w)
  <2>1. w = x \/ (i \in DOMAIN outbox[g] /\ w = outbox[g][i])
    BY <1>4, <1>6, <1>8
  <2>2. QED
    BY <1>7, <2>1 DEF OnWay
<1>9. ASSUME NEW g \in Host, NEW i \in DOMAIN net'[g], w = net'[g][i]
      PROVE  OnWay(w)
  BY <1>3, <1>5, <1>9 DEF OnWay
<1>10. QED
  BY <1>8, <1>9 DEF OnWay

(* A packet is made by a process, and then only handed on.                 *)
LEMMA PacketsBack ==
  ASSUME NetSafetyInv, [NetNext]_allvars, NEW w, OnWay(w)'
  PROVE  OnWay(w) \/ Made(w)
<1>1. NetTypeOK
  BY DEF NetSafetyInv
<1>2. CASE net' = net /\ outbox' = outbox
  BY <1>2 DEF OnWay
<1>3. CASE UNCHANGED allvars \/ \E p \in Proc : NetSend(p)
  BY <1>2, <1>3 DEF allvars, netvars, NetSend
<1>4. CASE \E p \in Proc : QuietStep(p) /\ net' = net
  BY <1>2, <1>4 DEF QuietStep
<1>5. CASE \E p \in Proc : NetOutStep(p) /\ net' = net
  BY <1>5, OutStepBack
<1>6. CASE \E p \in Proc : NetExecute(p) /\ net' = net
  BY <1>6, ExecuteBack
<1>7. ASSUME NEW h \in Host, Lose(h)
      PROVE  OnWay(w)
  <2>1. /\ \A g \in Host : g # h => outbox'[g] = outbox[g]
        /\ \A i \in DOMAIN outbox'[h] :
              i + 1 \in DOMAIN outbox[h] /\ outbox'[h][i] = outbox[h][i + 1]
    BY <1>1, <1>7, LeavingFacts
  <2>2. net' = net
    BY <1>7 DEF Lose
  <2>3. QED
    BY <2>1, <2>2 DEF OnWay
<1>8. CASE \E h \in Host : Transmit(h) \/ Lose(h) \/ Receive(h)
  BY <1>7, <1>8, TransmitBack, ReceiveBack
<1>9. QED
  BY <1>3, <1>4, <1>5, <1>6, <1>8, NetCases

(* A message that has just been added to q's IN.                           *)
Arrived(q, m) ==
  \/ NetOutStep(q) /\ m = Transmitted(q) /\ q \in Dest(m.to)
  \/ \E w : OnWay(w) /\ w.to = q /\ w.msg = m

LEMMA PostedAdds ==
  ASSUME NEW q \in Seq(Call), NEW m \in Call
  PROVE  \A i \in DOMAIN Posted(q, m) : i \in DOMAIN q \/ Posted(q, m)[i] = m
<1>1. \A i \in DOMAIN Append(q, m) : i \in DOMAIN q \/ Append(q, m)[i] = m
  OBVIOUS
<1>2. QED
  BY <1>1 DEF Posted

LEMMA InBack ==
  ASSUME NoMaster, NetSafetyInv, [NetNext]_allvars, NEW q \in Proc,
         NEW i \in DOMAIN in'[q], i \notin DOMAIN in[q]
  PROVE  Arrived(q, in'[q][i])
<1>1. NetTypeOK /\ SafetyInv /\ TypeOK /\ in \in [Proc -> Seq(Call)]
  BY DEF NetSafetyInv, SafetyInv, QueueInv, TypeOK
<1>2. DOMAIN in'[q] # DOMAIN in[q]
  OBVIOUS
<1>3. ~ UNCHANGED in
  BY <1>2
<1>4. ~ UNCHANGED allvars /\ \A p \in Proc : ~NetSend(p)
  BY <1>3 DEF allvars, vars, NetSend, Send, Push
<1>5. \A p \in Proc : ~QuietStep(p)
  <2> SUFFICES ASSUME NEW p \in Proc, QuietStep(p)
               PROVE  FALSE
    OBVIOUS
  <2>1. CASE ReadAck(p)
    BY <1>3, <2>1 DEF ReadAck
  <2>2. CASE SkipFailed(p)
    <3>1. in' = [in EXCEPT ![p] = [@ EXCEPT ![inptr[p]].result = "fail"]]
      BY <2>2 DEF SkipFailed
    <3>2. DOMAIN in'[q] = DOMAIN in[q]
      BY <1>1, <3>1
    <3>3. QED
      BY <1>2, <3>2
  <2>3. CASE Resume(p)
    BY <1>2, <2>3 DEF Resume, CommitsTo, NoMaster
  <2>4. QED
    BY <2>1, <2>2, <2>3 DEF QuietStep
<1>6. ASSUME NEW p \in Proc, NetExecute(p)
      PROVE  FALSE
  <2>1. in' \in [Proc -> Seq(Call)] /\ Len(in'[q]) = Len(in[q])
    BY <1>1, <1>6, NetExecuteFacts
  <2>2. DOMAIN in'[q] = DOMAIN in[q]
    BY <1>1, <2>1
  <2>3. QED
    BY <1>2, <2>2
<1>7. ASSUME NEW p \in Proc, NetOutStep(p)
      PROVE  Arrived(q, in'[q][i])
  <2> DEFINE m == Transmitted(p)
  <2>1. /\ m \in Call
        /\ \A r \in Proc : r # p => in'[r] = in[r]
        /\ in'[p] = IF p \in Dest(m.to) THEN Posted(in[p], m) ELSE in[p]
    BY <1>1, <1>7, NetOutStepFacts
  <2> HIDE DEF m
  <2>2. q = p /\ p \in Dest(m.to) /\ in'[q] = Posted(in[q], m)
    BY <1>2, <2>1
  <2>3. in'[q][i] = m
    BY <1>1, <2>1, <2>2, PostedAdds
  <2>4. QED
    BY <1>7, <2>2, <2>3 DEF Arrived, m
<1>8. ASSUME NEW h \in Host, Receive(h)
      PROVE  Arrived(q, in'[q][i])
  <2> DEFINE w == net[h][1]
             m == w.msg
  <2>1. /\ m \in Call /\ w.to \in Proc /\ net[h] # <<>> /\ net[h] \in Seq(Packet)
        /\ in' = in \/ (w.to = h /\ in' = [in EXCEPT ![h] = Posted(@, m)])
    BY <1>8, ReceiveFacts
  <2>2. 1 \in DOMAIN net[h]
    BY <2>1, WithoutFirst
  <2>3. OnWay(w)
    BY <2>2 DEF OnWay
  <2> HIDE DEF m
  <2>4. w.to = h /\ h = q /\ in'[q] = Posted(in[q], m)
    BY <1>1, <1>2, <2>1
  <2>5. in'[q][i] = m
    BY <1>1, <2>1, <2>4, PostedAdds
  <2>6. QED
    BY <2>3, <2>4, <2>5 DEF Arrived, m
<1>9. ASSUME NEW h \in Host, Transmit(h) \/ Lose(h)
      PROVE  FALSE
  BY <1>3, <1>9 DEF Transmit, Lose, vars
<1>10. QED
  BY <1>4, <1>5, <1>6, <1>7, <1>8, <1>9, NetCases

-----------------------------------------------------------------------------
(* What a message is worth, where it is or on its way there. *)

LEMMA CarriedKept ==
  ASSUME SafetyInv, Moves, NEW to, NEW m, m.from \in Proc, Carried(to, m),
         NEW n, SameRequest(m, n)
  PROVE  Carried(to, n)'
<1> DEFINE k == m.outnb + 1
<1>1. /\ k \in DOMAIN out[m.from] /\ k < outptr[m.from]
      /\ SameRequest(out[m.from][k], m) /\ to \in Dest(m.to)
  BY DEF Carried
<1>2. k \in DOMAIN out'[m.from] /\ SameRequest(out[m.from][k], out'[m.from][k])
  BY <1>1, MovesOf DEF OutStepOf
<1>3. k < outptr'[m.from]
  <2>1. TypeOK /\ TypeOK'
    BY MovesSafe DEF SafetyInv, QueueInv
  <2>2. outptr[m.from] \in Nat /\ outptr'[m.from] \in Nat /\ out[m.from] \in Seq(Call)
    BY <2>1 DEF TypeOK
  <2>3. k \in Nat
    BY <1>1, <2>2
  <2>4. outptr[m.from] <= outptr'[m.from]
    BY DEF Moves
  <2> HIDE DEF k
  <2>5. QED
    BY <1>1, <2>2, <2>3, <2>4
<1>4. n.from = m.from /\ n.outnb = m.outnb /\ n.to = m.to
  BY DEF SameRequest, SameCall
<1>5. SameRequest(out'[m.from][k], n)
  BY <1>1, <1>2, Zenon DEF SameRequest, SameCall
<1>6. QED
  BY <1>1, <1>2, <1>3, <1>4, <1>5, Zenon DEF Carried, SameRequest, SameCall

LEMMA FailureKept ==
  ASSUME SafetyInv, Moves, NEW m, FailureTrue(m)
  PROVE  FailureTrue(m)'
<1> SUFFICES ASSUME m.ack, m.result = "fail"
             PROVE  \E q \in Peer : \E j \in DOMAIN in'[q] :
                      /\ Handled(q, j)' /\ Lasting(in[q][j])' /\ in'[q][j].result = "fail"
                      /\ SameCall(m, in'[q][j])
  BY DEF FailureTrue, SameCall
<1>1. PICK q \in Peer : \E j \in DOMAIN in[q] :
        /\ Handled(q, j) /\ Lasting(in[q][j]) /\ in[q][j].result = "fail"
        /\ SameCall(m, in[q][j])
  BY DEF FailureTrue
<1>2. PICK j \in DOMAIN in[q] :
        /\ Handled(q, j) /\ Lasting(in[q][j]) /\ in[q][j].result = "fail"
        /\ SameCall(m, in[q][j])
  BY <1>1
<1>3. Handled(q, j)' /\ in'[q][j] = in[q][j]
  BY <1>2, HandledKept DEF Proc
<1>4. QED
  BY <1>2, <1>3 DEF Lasting, IsReturn, Handled, Received

(* What a host transmits is carried from then on.                          *)
LEMMA TransmittedCarried ==
  ASSUME SafetyInv, OutNumbered, NEW p \in Proc, NetOutStep(p), NEW m, m = Transmitted(p),
         NEW to, to \in Dest(m.to)
  PROVE  Carried(to, m)' /\ FailureTrue(m)'
<1>1. TypeOK
  BY DEF SafetyInv, QueueInv
<1>2. /\ outptr[p] \in DOMAIN out[p] /\ SameRequest(out[p][outptr[p]], m)
      /\ m.from = p /\ ~m.ack
      /\ out' = [out EXCEPT ![p] = [@ EXCEPT ![outptr[p]] = m]]
  BY NetOutStepFacts
<1>3. m.outnb + 1 = outptr[p]
  <2>1. m.outnb = outptr[p] - 1
    BY <1>2 DEF OutNumbered, SameRequest, SameCall
  <2>2. outptr[p] \in Nat
    BY <1>1 DEF TypeOK
  <2>3. QED
    BY <2>1, <2>2
<1>4. outptr'[p] = outptr[p] + 1 /\ outptr[p] \in Nat
  BY <1>1 DEF NetOutStep, TypeOK
<1>5. outptr[p] \in DOMAIN out'[p] /\ out'[p][outptr[p]] = m
  BY <1>1, <1>2 DEF TypeOK
<1>6. outptr[p] < outptr'[p]
  BY <1>4
<1>7. Carried(to, m)'
  BY <1>2, <1>3, <1>5, <1>6 DEF Carried, SameRequest, SameCall
<1>8. QED
  BY <1>2, <1>7 DEF FailureTrue

(* The call that an ack is about, for the peers it goes to.                *)
LEMMA AckedRequest ==
  ASSUME SafetyInv, NEW p \in Proc, ~InIdle(p), NEW m, m = Ack(p)
  PROVE  SameRequest(Current(p), m) /\ m.ack /\ m.result = (IF Succeeds(p) THEN "ok" ELSE "fail")
<1>1. Current(p) \in Call
  BY CurrentType DEF SafetyInv, QueueInv
<1>2. QED
  BY <1>1 DEF Ack, Entry, Ran, Call, SameRequest, SameCall

LEMMA AckCarried ==
  ASSUME SafetyInv, InSendable, Moves, NEW p \in Proc, NetExecute(p), Acks(p),
         Carried(p, Current(p)), NEW m, m = Ack(p), NEW to \in Peer
  PROVE  Carried(to, m)' /\ FailureTrue(m)'
<1>1. ~InIdle(p) /\ Current(p) \in Call /\ Current(p).to = Group /\ Performs(p)
  BY NetExecuteFacts, NetExecuteMoves DEF Acks
<1>2. SameRequest(Current(p), m) /\ m.ack
  BY <1>1, AckedRequest
<1>3. Carried(to, Current(p))
  BY <1>1 DEF Carried, Dest
<1>4. Current(p).from \in Proc
  BY <1>1 DEF Call
<1>5. Carried(to, m)'
  BY <1>2, <1>3, <1>4, CarriedKept
<1>6. m.result = "fail" => \E q \in Peer : \E j \in DOMAIN in'[q] :
           /\ Handled(q, j)' /\ Lasting(in[q][j])' /\ in'[q][j].result = "fail"
           /\ SameCall(m, in'[q][j])
  BY <1>1, AckedFailure
<1>7. FailureTrue(m)'
  BY <1>6 DEF FailureTrue, SameCall
<1>8. QED
  BY <1>5, <1>7

(* The messages of a step are those of the last, or carried from it on.    *)
LEMMA CarriedNext ==
  ASSUME NoMaster, NetSafetyInv, InSendable, CarriedInv, [NetNext]_allvars
  PROVE  CarriedInv'
<1>1. /\ SafetyInv /\ TypeOK /\ NetTypeOK /\ Moves /\ OutNumbered /\ OutSendable
  BY NetNextMoves DEF NetSafetyInv, SafetyInv, QueueInv, CarriedInv
<1>2. OutNumbered' /\ OutSendable'
  BY <1>1, OutNumberedNext, OutSendableNext
<1>3. ASSUME NEW to \in Proc, NEW m \in Call, Carried(to, m) /\ FailureTrue(m)
      PROVE  Carried(to, m)' /\ FailureTrue(m)'
  BY <1>1, <1>3, CarriedKept, FailureKept DEF Call, SameRequest, SameCall
<1>4. ASSUME NEW w, OnWay(w)
      PROVE  Carried(w.to, w.msg)' /\ FailureTrue(w.msg)'
  BY <1>1, <1>3, <1>4, OnWayType DEF CarriedInv
<1>5. ASSUME NEW w, OnWay(w)'
      PROVE  Carried(w.to, w.msg)' /\ FailureTrue(w.msg)'
  <2>1. ASSUME NEW p \in Proc, NetOutStep(p), w.msg = Transmitted(p), w.to \in Dest(w.msg.to)
        PROVE  Carried(w.to, w.msg)' /\ FailureTrue(w.msg)'
    BY <1>1, <2>1, TransmittedCarried
  <2>2. ASSUME NEW p \in Proc, NetExecute(p), Acks(p), w.msg = Ack(p), w.to \in Peer \ {p}
        PROVE  Carried(w.to, w.msg)' /\ FailureTrue(w.msg)'
    <3>1. inptr[p] \in DOMAIN in[p]
      BY <1>1, <2>2, NetExecuteFacts
    <3>2. Carried(p, Current(p))
      BY <3>1 DEF CarriedInv, Current
    <3>3. QED
      BY <1>1, <2>2, <3>2, AckCarried
  <2>3. OnWay(w) \/ Made(w)
    BY <1>5, PacketsBack
  <2>4. QED
    BY <1>4, <2>1, <2>2, <2>3 DEF Made
<1>6. ASSUME NEW p \in Proc, NEW i \in DOMAIN in'[p], NEW m, m = in'[p][i]
      PROVE  Carried(p, m)' /\ FailureTrue(m)'
  <2>1. CASE i \in DOMAIN in[p] /\ m = in[p][i]
    <3>1. m \in Call
      BY <1>1, <2>1 DEF TypeOK
    <3>2. Carried(p, m) /\ FailureTrue(m)
      BY <2>1 DEF CarriedInv
    <3>3. QED
      BY <1>3, <3>1, <3>2
  <2>2. CASE i \in DOMAIN in[p] /\ m # in[p][i]
    <3>1. i = inptr[p] /\ Answered(p, m)
      BY <1>1, <1>6, <2>2, MovesOf DEF OwnStepOf
    <3>2. ~m.ack /\ SameRequest(in[p][i], m) /\ in[p][i] \in Call
      BY <1>1, <3>1, AnsweredFacts DEF Current
    <3>3. Carried(p, in[p][i])
      BY <2>2 DEF CarriedInv
    <3>4. \A c : c = in[p][i] => Carried(p, m)'
      BY <1>1, <3>2, <3>3, CarriedKept DEF Call
    <3>5. QED
      BY <3>2, <3>4 DEF FailureTrue
  <2>3. CASE i \notin DOMAIN in[p]
    <3>1. Arrived(p, m)
      BY <1>6, <2>3, InBack
    <3>2. CASE NetOutStep(p) /\ m = Transmitted(p) /\ p \in Dest(m.to)
      BY <1>1, <3>2, TransmittedCarried
    <3>3. CASE \E w : OnWay(w) /\ w.to = p /\ w.msg = m
      BY <1>4, <3>3
    <3>4. QED
      BY <3>1, <3>2, <3>3 DEF Arrived
  <2>4. QED
    BY <2>1, <2>2, <2>3
<1>7. \A p \in Proc : \A i \in DOMAIN in'[p] :
        Carried(p, in[p][i])' /\ FailureTrue(in[p][i])'
  BY <1>6 DEF Carried, FailureTrue, SameRequest, SameCall
<1>8. QED
  BY <1>2, <1>5, <1>7 DEF CarriedInv

LEMMA CarriedInit ==
  ASSUME NetInit
  PROVE  CarriedInv
<1>1. /\ \A p \in Proc : DOMAIN in[p] = {} /\ DOMAIN out[p] = {}
      /\ \A h \in Host : DOMAIN net[h] = {} /\ DOMAIN outbox[h] = {}
  BY DEF NetInit, Init
<1>2. QED
  BY <1>1 DEF CarriedInv, OutNumbered, OutSendable, OnWay

(* What has been carried to a process is for it, and may be sent.          *)
LEMMA CarriedSendable ==
  TypeOK /\ CarriedInv => InSendable /\ FailuresTrue
<1> SUFFICES ASSUME TypeOK, CarriedInv
             PROVE  InSendable /\ FailuresTrue
  OBVIOUS
<1>1. ASSUME NEW p \in Proc, NEW i \in DOMAIN in[p]
      PROVE  Sendable(in[p][i]) /\ Destined(p, in[p][i])
  <2> DEFINE m == in[p][i]
             c == out[m.from][m.outnb + 1]
  <2>1. Carried(p, m) /\ m \in Call
    BY DEF CarriedInv, TypeOK
  <2>2. m.outnb + 1 \in DOMAIN out[m.from] /\ SameRequest(c, m) /\ m.from \in Proc
    BY <2>1 DEF Carried, Call
  <2>3. Sendable(c)
    BY <2>2 DEF CarriedInv, OutSendable
  <2> HIDE DEF c
  <2>4. Sendable(m)
    BY <2>2, <2>3 DEF Sendable, SameRequest, IsReturn, ReturnOf
  <2>5. QED
    BY <2>1, <2>4 DEF Carried, Destined
<1>2. FailuresTrue
  BY DEF CarriedInv, FailureTrue, FailuresTrue, Proc
<1>3. QED
  BY <1>1, <1>2 DEF InSendable

LEMMA CarriedSendableNext ==
  (TypeOK /\ CarriedInv)' => (InSendable /\ FailuresTrue)'
BY CarriedSendable, PTL

LEMMA NetReplayInvInit ==
  ASSUME NEW S, Servlets(S), NetInit
  PROVE  NetReplayInv(S)
BY NetSafetyInvInit, CarriedInit, ReplayInvInit DEF NetReplayInv, NetInit

LEMMA NetReplayInvNext ==
  ASSUME NoMaster, NEW S, Servlets(S), NetReplayInv(S), [NetNext]_allvars
  PROVE  NetReplayInv(S)'
<1>1. NetSafetyInv /\ ReplayInv(S) /\ CarriedInv /\ InSendable
  BY DEF NetReplayInv, ReplayInv
<1>2. NetSafetyInv' /\ Moves /\ CarriedInv'
  BY <1>1, NetSafetyInvNext, NetNextMoves, CarriedNext
<1>3. InSendable'
  BY <1>2, CarriedSendableNext, MovesSafe
<1>4. ReplayInv(S)'
  BY <1>1, <1>2, <1>3, ReplayInvNext
<1>5. QED
  BY <1>2, <1>4 DEF NetReplayInv

(***************************************************************************)
(* SELF is the replay of IN! at every host too, however many hosts there   *)
(* are, whatever is lost and whatever overtakes what on the way: a process *)
(* may be late, or wait for ever, but never holds what its replay list     *)
(* does not recreate.                                                      *)
(***************************************************************************)
THEOREM SelfReplaysOverNet ==
  ASSUME NoMaster, NEW S, Servlets(S)
  PROVE  NetSpec => []SelfIsReplay
<1>1. NetInit => NetReplayInv(S)
  BY NetReplayInvInit
<1>2. NetReplayInv(S) /\ [NetNext]_allvars => NetReplayInv(S)'
  BY NetReplayInvNext
<1>3. NetReplayInv(S) => SelfIsReplay
  BY DEF NetReplayInv, ReplayInv
<1>4. QED
  BY <1>1, <1>2, <1>3, PTL DEF NetSpec

-----------------------------------------------------------------------------
(***************************************************************************)
(* Over two hosts, while nothing is lost and a single process sends: the   *)
(* peers receive its calls in the order it sent them.  (Two peers that     *)
(* send at the same time each perform their own call first.)               *)
(***************************************************************************)

LEMMA BoundedNext ==
  ASSUME NetSafetyInv, Bounded, [NetNext]_allvars
  PROVE  Bounded'
<1>1. TypeOK /\ SafetyInv
  BY DEF NetSafetyInv, SafetyInv, QueueInv
<1>2. CASE \A q \in Proc : Len(out'[q]) = Len(out[q])
  BY <1>2 DEF Bounded
<1>3. ASSUME NEW p \in Proc, NetSend(p)
      PROVE  Bounded'
  <2>1. PICK to, f : Send(p, to, f)
    BY <1>3 DEF NetSend
  <2>2. /\ Len(out[p]) < MaxOut[p]
        /\ \E m : out' = [out EXCEPT ![p] = Append(out[p], m)]
    BY <2>1 DEF Send, Push
  <2>3. PICK m : out' = [out EXCEPT ![p] = Append(out[p], m)]
    BY <2>2
  <2>4. out \in [Proc -> Seq(Call)] /\ MaxOut[p] \in Nat /\ out[p] \in Seq(Call)
    BY <1>1, ProcAssumption DEF TypeOK
  <2>5. /\ \A q \in Proc : q # p => out'[q] = out[q]
        /\ out'[p] = Append(out[p], m)
    BY <2>3, <2>4
  <2>6. Len(Append(out[p], m)) = Len(out[p]) + 1 /\ Len(out[p]) \in Nat
    BY <2>4
  <2>7. Len(out'[p]) <= MaxOut[p]
    BY <2>2, <2>4, <2>5, <2>6
  <2>8. QED
    BY <2>5, <2>7 DEF Bounded
<1>4. ASSUME NEW p \in Proc, NetOutStep(p)
      PROVE  \A q \in Proc : Len(out'[q]) = Len(out[q])
  BY <1>1, <1>4, NetOutStepFacts
<1>5. ASSUME NEW p \in Proc, NetExecute(p) \/ QuietStep(p)
      PROVE  out' = out
  BY <1>5 DEF NetExecute, QuietStep, ReadAck, SkipFailed, Resume, Consume
<1>6. ASSUME NEW h \in Host, Transmit(h) \/ Lose(h) \/ Receive(h)
      PROVE  out' = out
  BY <1>6 DEF Transmit, Lose, Receive, vars
<1>7. UNCHANGED allvars => out' = out
  BY DEF allvars, vars
<1>8. QED
  BY <1>2, <1>3, <1>4, <1>5, <1>6, <1>7, NetCases

(* Only one process has calls in its OUT, ...                              *)
LEMMA OneOut ==
  ASSUME NetSafetyInv, OneSender, Bounded, NEW p \in Proc, NEW q \in Proc,
         NEW i \in DOMAIN out[p], NEW j \in DOMAIN out[q]
  PROVE  p = q
<1>1. TypeOK
  BY DEF NetSafetyInv, SafetyInv, QueueInv
<1>2. ASSUME NEW r \in Proc, NEW k \in DOMAIN out[r]
      PROVE  MaxOut[r] # 0
  <2>1. out[r] \in Seq(Call) /\ MaxOut[r] \in Nat
    BY <1>1, ProcAssumption DEF TypeOK
  <2>2. Len(out[r]) # 0
    BY <1>2, <2>1
  <2>3. Len(out[r]) <= MaxOut[r] /\ Len(out[r]) \in Nat
    BY <2>1 DEF Bounded
  <2>4. QED
    BY <2>1, <2>2, <2>3
<1>3. QED
  BY <1>2 DEF OneSender

(* ... and its next number is greater than those of the calls it has sent. *)
LEMMA LatestNumber ==
  ASSUME OneSender, NetSafetyInv, CarriedInv, Bounded, NEW p \in Proc, NetOutStep(p),
         NEW to, NEW n \in Call, Carried(to, n)
  PROVE  n.from = p /\ n.outnb < Transmitted(p).outnb
<1>1. SafetyInv /\ TypeOK
  BY DEF NetSafetyInv, SafetyInv, QueueInv
<1>2. outptr[p] \in DOMAIN out[p] /\ SameRequest(out[p][outptr[p]], Transmitted(p))
  BY <1>1, NetOutStepFacts
<1>3. n.outnb + 1 \in DOMAIN out[n.from] /\ n.outnb + 1 < outptr[n.from] /\ n.from \in Proc
  BY DEF Carried, Call
<1>4. n.from = p
  BY <1>2, <1>3, OneOut
<1>5. Transmitted(p).outnb = outptr[p] - 1
  BY <1>2 DEF SameRequest, SameCall, CarriedInv, OutNumbered
<1>6. n.outnb \in Nat /\ outptr[p] \in Nat
  BY <1>1 DEF TypeOK, Call
<1>7. QED
  BY <1>3, <1>4, <1>5, <1>6

LEMMA PathOnWay ==
  ASSUME NetTypeOK, NEW q \in Host, NEW g \in Host, NEW i \in DOMAIN Path(g, q)
  PROVE  OnWay(Path(g, q)[i])
<1>1. net[q] \in Seq(Packet) /\ outbox[g] \in Seq(Packet)
  BY DEF NetTypeOK
<1>2. \A s, t \in Seq(Packet) : \A k \in DOMAIN (s \o t) :
        \/ k \in DOMAIN s /\ (s \o t)[k] = s[k]
        \/ k - Len(s) \in DOMAIN t /\ (s \o t)[k] = t[k - Len(s)]
  OBVIOUS
<1>3. \/ i \in DOMAIN net[q] /\ Path(g, q)[i] = net[q][i]
      \/ \E k \in DOMAIN outbox[g] : Path(g, q)[i] = outbox[g][k]
  BY <1>1, <1>2 DEF Path
<1>4. QED
  BY <1>3 DEF OnWay

(* What is new in q's IN is the first packet on its way, or its own call.  *)
LEMMA ReceivesFirst ==
  ASSUME NetSafetyInv, NEW q \in Proc, NEW g \in Host \ {q}, Arrives(g, q),
         NEW i \in DOMAIN in'[q], i \notin DOMAIN in[q]
  PROVE  1 \in DOMAIN Path(g, q) /\ in'[q][i] = Path(g, q)[1].msg
<1>1. TypeOK /\ NetTypeOK /\ q \in Host
  BY DEF NetSafetyInv, SafetyInv, QueueInv, Host
<1>2. Path(g, q) \in Seq(Packet) /\ Path(g, q) # <<>> /\ in[q] \in Seq(Call)
  BY <1>1, PathType DEF Arrives, TypeOK
<1>3. 1 \in DOMAIN Path(g, q) /\ Path(g, q)[1].msg \in Call
  BY <1>2, FirstPacket
<1>4. in'[q] = Posted(in[q], Path(g, q)[1].msg)
  BY DEF Arrives
<1>5. QED
  BY <1>2, <1>3, <1>4, PostedAdds

LEMMA InSequenceNext ==
  ASSUME OneSender, NetSafetyInv, CarriedInv, Bounded, Moves, StreamStep, InOneSequence,
         NEW q \in Proc
  PROVE  InSequence(q)'
<1>1. TypeOK /\ NetTypeOK /\ q \in Host /\ in[q] \in Seq(Call)
  BY DEF NetSafetyInv, SafetyInv, QueueInv, TypeOK, Host
<1>2. \A i \in DOMAIN in[q] : /\ i \in DOMAIN in'[q] /\ in'[q][i].outnb = in[q][i].outnb
                              /\ in'[q][i].ack = in[q][i].ack
  BY MovesOf DEF InStepOf, InKept, SameMessage
<1>3. \A i \in DOMAIN in'[q] : i \in DOMAIN in[q] \/ i = Len(in[q]) + 1
  BY MovesOf DEF InStepOf
<1> SUFFICES ASSUME NEW i \in DOMAIN in'[q], NEW j \in DOMAIN in'[q], i < j,
                    ~in'[q][i].ack, ~in'[q][j].ack
             PROVE  in'[q][i].outnb <= in'[q][j].outnb
  BY DEF InSequence
<1>4. CASE j \in DOMAIN in[q]
  <2>1. i \in DOMAIN in[q]
    BY <1>1, <1>3, <1>4
  <2>2. in[q][i].outnb <= in[q][j].outnb
    BY <1>2, <1>4, <2>1 DEF InOneSequence, InSequence
  <2>3. QED
    BY <1>2, <1>4, <2>1, <2>2
<1>5. CASE j \notin DOMAIN in[q]
  <2>1. i \in DOMAIN in[q]
    BY <1>1, <1>3, <1>5
  <2>2. in[q][i] \in Call /\ ~in[q][i].ack /\ in'[q][i].outnb = in[q][i].outnb
    BY <1>1, <1>2, <2>1
  <2>3. CASE Own(q)
    <3>1. NetOutStep(q) /\ in'[q][j] = Transmitted(q)
      BY <1>5, <2>3 DEF Own
    <3>2. Carried(q, in[q][i])
      BY <2>1 DEF CarriedInv
    <3>3. in[q][i].outnb < Transmitted(q).outnb
      BY <2>2, <3>1, <3>2, LatestNumber
    <3>4. Transmitted(q) \in Call
      BY <3>1, NetOutStepFacts DEF NetSafetyInv
    <3>5. in[q][i].outnb \in Nat /\ Transmitted(q).outnb \in Nat
      BY <2>2, <3>4 DEF Call
    <3>6. QED
      BY <2>2, <3>1, <3>3, <3>5
  <2>4. ASSUME NEW g \in Host \ {q}, Arrives(g, q)
        PROVE  in'[q][i].outnb <= in'[q][j].outnb
    <3>1. 1 \in DOMAIN Path(g, q) /\ in'[q][j] = Path(g, q)[1].msg
      BY <1>5, <2>4, ReceivesFirst
    <3>2. in[q][i].outnb <= Path(g, q)[1].msg.outnb
      BY <2>1, <2>2, <3>1 DEF InOneSequence, PathInSequence
    <3>3. QED
      BY <2>2, <3>1, <3>2
  <2>5. QED
    BY <2>3, <2>4 DEF StreamStep
<1>6. QED
  BY <1>4, <1>5

LEMMA ArrivesInSequence ==
  ASSUME NetSafetyInv, Moves, InOneSequence,
         NEW q \in Proc, NEW g \in Host \ {q}, Arrives(g, q)
  PROVE  PathInSequence(g, q)'
<1> DEFINE s == Path(g, q)
<1>1. TypeOK /\ NetTypeOK /\ q \in Host
  BY DEF NetSafetyInv, SafetyInv, QueueInv, Host
<1>2. s \in Seq(Packet) /\ s # <<>> /\ Path(g, q)' = Without(s, 1)
  BY <1>1, PathType DEF Arrives
<1>3. \A i \in DOMAIN in[q] : /\ i \in DOMAIN in'[q] /\ in'[q][i].outnb = in[q][i].outnb
                              /\ in'[q][i].ack = in[q][i].ack
  BY MovesOf DEF InStepOf, InKept, SameMessage
<1>4. \A j \in DOMAIN s : ~s[j].msg.ack =>
        /\ s[j].msg.from = g
        /\ \A i \in DOMAIN in[q] : ~in[q][i].ack => in[q][i].outnb <= s[j].msg.outnb
        /\ \A i \in 1 .. j - 1 : ~s[i].msg.ack => s[i].msg.outnb <= s[j].msg.outnb
  BY DEF InOneSequence, PathInSequence
<1>5. \A i \in DOMAIN in'[q] : i \in DOMAIN in[q] \/ in'[q][i] = s[1].msg
  BY ReceivesFirst
<1> HIDE DEF s
<1> SUFFICES ASSUME NEW j \in DOMAIN Path(g, q)', ~Path(g, q)'[j].msg.ack
             PROVE  /\ Path(g, q)'[j].msg.from = g
                    /\ \A i \in DOMAIN in'[q] : ~in'[q][i].ack =>
                         in'[q][i].outnb <= Path(g, q)'[j].msg.outnb
                    /\ \A i \in 1 .. j - 1 : ~Path(g, q)'[i].msg.ack =>
                         Path(g, q)'[i].msg.outnb <= Path(g, q)'[j].msg.outnb
  BY DEF PathInSequence
<1>6. \A i \in DOMAIN Path(g, q)' :
        i \in Nat \ {0} /\ i + 1 \in DOMAIN s /\ Path(g, q)'[i] = s[i + 1]
  BY <1>2, WithoutFirst
<1>7. j + 1 \in DOMAIN s /\ Path(g, q)'[j] = s[j + 1] /\ j \in Nat \ {0}
  BY <1>6
<1>8. /\ s[j + 1].msg.from = g
      /\ \A i \in DOMAIN in[q] : ~in[q][i].ack => in[q][i].outnb <= s[j + 1].msg.outnb
      /\ \A i \in 1 .. (j + 1) - 1 : ~s[i].msg.ack => s[i].msg.outnb <= s[j + 1].msg.outnb
  BY <1>4, <1>7
<1>9. ASSUME NEW i \in DOMAIN in'[q], ~in'[q][i].ack
      PROVE  in'[q][i].outnb <= s[j + 1].msg.outnb
  <2>1. CASE i \in DOMAIN in[q]
    BY <1>3, <1>8, <1>9, <2>1
  <2>2. CASE i \notin DOMAIN in[q]
    <3>1. in'[q][i] = s[1].msg
      BY <1>5, <2>2
    <3>2. 1 \in 1 .. (j + 1) - 1
      BY <1>7
    <3>3. QED
      BY <1>8, <1>9, <3>1, <3>2
  <2>3. QED
    BY <2>1, <2>2
<1>10. ASSUME NEW i \in 1 .. j - 1, ~Path(g, q)'[i].msg.ack
       PROVE  Path(g, q)'[i].msg.outnb <= s[j + 1].msg.outnb
  <2>1. i \in DOMAIN Path(g, q)'
    <3>1. Without(s, 1) \in Seq(Packet)
      BY <1>2, WithoutFirst
    <3>2. \A t \in Seq(Packet) : \A k \in DOMAIN t : 1 .. k - 1 \subseteq DOMAIN t
      OBVIOUS
    <3>3. QED
      BY <1>2, <3>1, <3>2
  <2>2. Path(g, q)'[i] = s[i + 1] /\ i \in Nat
    BY <1>6, <2>1
  <2>3. i + 1 \in 1 .. (j + 1) - 1
    BY <1>7, <2>2
  <2>4. QED
    BY <1>8, <1>10, <2>2, <2>3
<1>11. QED
  BY <1>7, <1>8, <1>9, <1>10

LEMMA ExtendsInSequence ==
  ASSUME OneSender, NetSafetyInv, CarriedInv, Bounded, Moves, InOneSequence,
         NEW q \in Proc, NEW g \in Host \ {q}, Extends(g, q), Own(q)
  PROVE  PathInSequence(g, q)'
<1> DEFINE s == Path(g, q)
<1>1. TypeOK /\ NetTypeOK /\ SafetyInv /\ q \in Host /\ in[q] \in Seq(Call)
  BY DEF NetSafetyInv, SafetyInv, QueueInv, TypeOK, Host
<1>2. s \in Seq(Packet)
  BY <1>1, PathType
<1>3. PICK new \in Seq(Packet) :
        /\ Path(g, q)' = s \o new
        /\ \A k \in DOMAIN new : g \in Proc /\ MaySend(g, new[k].msg)
  BY DEF Extends
<1>4. \A i \in DOMAIN in[q] : /\ i \in DOMAIN in'[q] /\ in'[q][i].outnb = in[q][i].outnb
                              /\ in'[q][i].ack = in[q][i].ack
  BY MovesOf DEF InStepOf, InKept, SameMessage
<1>5. \A j \in DOMAIN s : ~s[j].msg.ack =>
        /\ s[j].msg.from = g
        /\ \A i \in DOMAIN in[q] : ~in[q][i].ack => in[q][i].outnb <= s[j].msg.outnb
        /\ \A i \in 1 .. j - 1 : ~s[i].msg.ack => s[i].msg.outnb <= s[j].msg.outnb
  BY DEF InOneSequence, PathInSequence
<1>6. \A j \in DOMAIN s : OnWay(s[j]) /\ s[j].msg \in Call /\ Carried(s[j].to, s[j].msg)
  <2>1. \A j \in DOMAIN s : OnWay(s[j])
    BY <1>1, PathOnWay
  <2>2. QED
    BY <1>1, <2>1, OnWayType DEF CarriedInv
<1>7. \A i \in DOMAIN in'[q] : i \in DOMAIN in[q] \/ NetOutStep(q)
  BY DEF Own
<1>8. \A i \in DOMAIN in[q] : in[q][i] \in Call /\ Carried(q, in[q][i])
  BY <1>1 DEF CarriedInv
<1> HIDE DEF s
<1> SUFFICES ASSUME NEW j \in DOMAIN Path(g, q)', ~Path(g, q)'[j].msg.ack
             PROVE  /\ Path(g, q)'[j].msg.from = g
                    /\ \A i \in DOMAIN in'[q] : ~in'[q][i].ack =>
                         in'[q][i].outnb <= Path(g, q)'[j].msg.outnb
                    /\ \A i \in 1 .. j - 1 : ~Path(g, q)'[i].msg.ack =>
                         Path(g, q)'[i].msg.outnb <= Path(g, q)'[j].msg.outnb
  BY DEF PathInSequence
<1>9. /\ \A i \in DOMAIN s : Path(g, q)'[i] = s[i]
      /\ \A i \in DOMAIN Path(g, q)' : i \in DOMAIN s \/
           \E k \in DOMAIN new : Path(g, q)'[i] = new[k]
      /\ \A i \in DOMAIN Path(g, q)' : 1 .. i - 1 \subseteq DOMAIN Path(g, q)'
      /\ \A i \in DOMAIN s : 1 .. i - 1 \subseteq DOMAIN s
  <2>1. \A u, v \in Seq(Packet) :
          /\ \A i \in DOMAIN u : (u \o v)[i] = u[i]
          /\ \A i \in DOMAIN (u \o v) : i \in DOMAIN u \/
               (i - Len(u) \in DOMAIN v /\ (u \o v)[i] = v[i - Len(u)])
    OBVIOUS
  <2>2. \A u, v \in Seq(Packet) : u \o v \in Seq(Packet)
    OBVIOUS
  <2>3. \A u \in Seq(Packet) : \A i \in DOMAIN u : 1 .. i - 1 \subseteq DOMAIN u
    OBVIOUS
  <2>4. Path(g, q)' \in Seq(Packet)
    BY <1>2, <1>3, <2>2
  <2>5. QED
    BY <1>2, <1>3, <2>1, <2>3, <2>4
<1>10. CASE j \in DOMAIN s
  <2>1. Path(g, q)'[j] = s[j] /\ s[j].msg.from = g
    BY <1>5, <1>9, <1>10
  <2>2. ~NetOutStep(q)
    BY <1>6, <1>10, <2>1, LatestNumber
  <2>3. \A i \in DOMAIN in'[q] : ~in'[q][i].ack => in'[q][i].outnb <= s[j].msg.outnb
    BY <1>4, <1>5, <1>7, <1>9, <1>10, <2>1, <2>2
  <2>4. \A i \in 1 .. j - 1 : i \in DOMAIN s /\ Path(g, q)'[i] = s[i]
    BY <1>9, <1>10
  <2>5. QED
    BY <1>5, <1>9, <1>10, <2>1, <2>3, <2>4
<1>11. CASE j \notin DOMAIN s
  <2>1. PICK k \in DOMAIN new : Path(g, q)'[j] = new[k]
    BY <1>9, <1>11
  <2>2. g \in Proc /\ NetOutStep(g) /\ Path(g, q)'[j].msg = Transmitted(g)
    BY <1>3, <1>9, <2>1 DEF MaySend
  <2>3. Transmitted(g) \in Call /\ Transmitted(g).from = g /\ outptr[g] \in DOMAIN out[g]
    BY <1>1, <2>2, NetOutStepFacts
  <2>4. \A n \in Call : \A to : Carried(to, n) => n.outnb <= Transmitted(g).outnb
    <3> SUFFICES ASSUME NEW n \in Call, NEW to, Carried(to, n)
                 PROVE  n.outnb <= Transmitted(g).outnb
      OBVIOUS
    <3>1. n.outnb < Transmitted(g).outnb
      BY <2>2, LatestNumber
    <3>2. n.outnb \in Nat /\ Transmitted(g).outnb \in Nat
      BY <2>3 DEF Call
    <3>3. QED
      BY <3>1, <3>2
  <2>5. ~NetOutStep(q)
    BY <1>1, <2>2, <2>3, NetOutStepFacts, OneOut
  <2>6. \A i \in DOMAIN in'[q] : in'[q][i].outnb <= Transmitted(g).outnb
    BY <1>4, <1>7, <1>8, <2>4, <2>5
  <2>7. ASSUME NEW i \in 1 .. j - 1, ~Path(g, q)'[i].msg.ack
        PROVE  Path(g, q)'[i].msg.outnb <= Transmitted(g).outnb
    <3>1. i \in DOMAIN Path(g, q)'
      BY <1>9
    <3>2. CASE i \in DOMAIN s
      BY <1>6, <1>9, <2>4, <3>2
    <3>3. CASE i \notin DOMAIN s
      <4>1. PICK n \in DOMAIN new : Path(g, q)'[i] = new[n]
        BY <1>9, <3>1, <3>3
      <4>2. Path(g, q)'[i].msg = Transmitted(g)
        BY <1>3, <2>7, <4>1 DEF MaySend
      <4>3. Transmitted(g).outnb \in Nat
        BY <2>3 DEF Call
      <4>4. \A x \in Nat : x <= x
        OBVIOUS
      <4>5. QED
        BY <4>2, <4>3, <4>4
    <3>4. QED
      BY <3>2, <3>3
  <2>8. QED
    BY <2>2, <2>3, <2>6, <2>7
<1>12. QED
  BY <1>10, <1>11

LEMMA InOneSequenceNext ==
  ASSUME OneSender, TwoHosts, NetSafetyInv, CarriedInv, Bounded, Moves, StreamStep, InOneSequence
  PROVE  InOneSequence'
<1> SUFFICES ASSUME NEW q \in Proc
             PROVE  InSequence(q)' /\ \A g \in Host \ {q} : PathInSequence(g, q)'
  BY DEF InOneSequence
<1>1. InSequence(q)'
  BY InSequenceNext
<1>2. ASSUME NEW g \in Host \ {q}
      PROVE  PathInSequence(g, q)'
  <2>1. CASE Arrives(g, q)
    BY <2>1, ArrivesInSequence
  <2>2. CASE ~Arrives(g, q)
    <3>1. q \in Host
      BY DEF Host
    <3>2. \A h \in Host \ {q} : h = g
      BY <3>1 DEF TwoHosts
    <3>3. Extends(g, q) /\ Own(q)
      BY <2>2, <3>1, <3>2 DEF StreamStep
    <3>4. QED
      BY <3>3, ExtendsInSequence
  <2>3. QED
    BY <2>1, <2>2
<1>3. QED
  BY <1>1, <1>2

(* Only by a transmission is OUTPTR moved on.                              *)
LEMMA OutptrMoves ==
  ASSUME NetSafetyInv, [NetNext]_allvars, NEW p \in Proc
  PROVE  \/ outptr'[p] = outptr[p]
         \/ Free(p) /\ NetOutStep(p) /\ net' = net /\ outptr'[p] = outptr[p] + 1
<1>1. outptr \in [Proc -> Nat \ {0}]
  BY DEF NetSafetyInv, SafetyInv, QueueInv, TypeOK
<1>2. CASE outptr' = outptr
  BY <1>2
<1>3. ASSUME NEW q \in Proc, Free(q), NetOutStep(q), net' = net
      PROVE  \/ outptr'[p] = outptr[p]
             \/ Free(p) /\ NetOutStep(p) /\ net' = net /\ outptr'[p] = outptr[p] + 1
  <2>1. outptr' = [outptr EXCEPT ![q] = @ + 1]
    BY <1>3 DEF NetOutStep
  <2>2. CASE p = q
    BY <1>1, <1>3, <2>1, <2>2
  <2>3. CASE p # q
    BY <1>1, <2>1, <2>3
  <2>4. QED
    BY <2>2, <2>3
<1>4. ASSUME NEW q \in Proc, NetExecute(q) \/ QuietStep(q) \/ NetSend(q)
      PROVE  outptr' = outptr
  BY <1>4 DEF NetExecute, QuietStep, ReadAck, SkipFailed, Resume, Consume, NetSend, Send, Push
<1>5. ASSUME NEW h \in Host, Transmit(h) \/ Lose(h) \/ Receive(h)
      PROVE  outptr' = outptr
  BY <1>5 DEF Transmit, Lose, Receive, vars
<1>6. UNCHANGED allvars => outptr' = outptr
  BY DEF allvars, vars
<1>7. QED
  BY <1>2, <1>3, <1>4, <1>5, <1>6, NetCases

LEMMA BroadcastNext ==
  ASSUME TwoHosts, NetSafetyInv, Moves, Streams, StreamStep, Broadcast, [NetNext]_allvars
  PROVE  Broadcast'
<1>1. TypeOK /\ TypeOK' /\ Moved /\ SafetyInv
  BY MovesSafe DEF NetSafetyInv, SafetyInv, QueueInv, Moves
<1> SUFFICES ASSUME NEW p \in Proc, NEW k \in DOMAIN out'[p], k < outptr'[p],
                    out'[p][k].to = Group, NEW q \in Peer, NEW m, m = out'[p][k]
             PROVE  Aboard(q, m)'
  BY DEF Broadcast, Aboard, InCall, Brings, SameCall
<1>2. out[p] \in Seq(Call) /\ outptr[p] \in Nat /\ outptr[p] <= Len(out[p]) + 1 /\ k \in Nat \ {0}
  BY <1>1, SMTT(30) DEF TypeOK
<1>3. CASE k < outptr[p]
  <2>1. k \in DOMAIN out[p]
    BY <1>2, <1>3
  <2>2. SameRequest(out[p][k], m)
    BY <2>1, MovesOf DEF OutStepOf
  <2>3. Aboard(q, out[p][k])
    BY <1>3, <2>1, <2>2 DEF Broadcast, SameRequest
  <2>4. Aboard(q, m)
    BY <2>2, <2>3 DEF Aboard, InCall, Brings, SameRequest, SameCall
  <2>5. QED
    BY <1>1, <2>4, AboardKept
<1>4. CASE ~(k < outptr[p])
  <2>1. Free(p) /\ NetOutStep(p) /\ net' = net /\ outptr'[p] = outptr[p] + 1
    BY <1>4, OutptrMoves
  <2>2. k = outptr[p]
    BY <1>2, <1>4, <2>1
  <2>3. k \in DOMAIN out[p] /\ out' = [out EXCEPT ![p][k] = Transmitted(p)]
    BY <1>1, <2>1, <2>2, NetOutStepFacts
  <2>4. out \in [Proc -> Seq(Call)]
    BY <1>1 DEF TypeOK
  <2>5. m = Transmitted(p)
    BY <2>3, <2>4
  <2>6. QED
    BY <2>1, <2>5, OutStepStreams
<1>5. QED
  BY <1>3, <1>4

(* Two calls that have been sent, of one sender.                           *)
LEMMA SameSender ==
  ASSUME OneSender, NetSafetyInv, Bounded,
         NEW a, NEW b, NEW m \in Call, NEW n \in Call, Carried(a, m), Carried(b, n)
  PROVE  m.from = n.from /\ (m.outnb = n.outnb => SameRequest(m, n))
<1>1. m.from \in Proc /\ n.from \in Proc
  BY DEF Call
<1>2. /\ m.outnb + 1 \in DOMAIN out[m.from] /\ n.outnb + 1 \in DOMAIN out[n.from]
      /\ SameRequest(out[m.from][m.outnb + 1], m) /\ SameRequest(out[n.from][n.outnb + 1], n)
  BY DEF Carried
<1>3. m.from = n.from
  BY <1>1, <1>2, OneOut
<1>4. QED
  BY <1>2, <1>3 DEF SameRequest, SameCall

(* A call of the group that p has received before another of its calls is  *)
(* at q, or on its way to it, and nothing that came after it at p before.  *)
LEMMA OneOrderHolds ==
  ASSUME OneSender
  PROVE  NetSafetyInv /\ CarriedInv /\ Bounded /\ Streams /\ InOneSequence => OneOrder
<1> SUFFICES ASSUME NetSafetyInv, CarriedInv, Bounded, Streams, InOneSequence
             PROVE  OneOrder
  OBVIOUS
<1>1. TypeOK /\ NetTypeOK /\ ReceivedOnce
  BY DEF NetSafetyInv, SafetyInv, QueueInv
<1>2. \A p \in Peer : p \in Proc /\ p \in Host
  BY DEF Proc, Host
<1>3. \A p \in Proc : in[p] \in Seq(Call) /\ DOMAIN in[p] \subseteq Nat
  BY <1>1 DEF TypeOK
<1>4. \A p \in Proc : \A i \in DOMAIN in[p] :
        in[p][i] \in Call /\ Carried(p, in[p][i]) /\ in[p][i].outnb \in Nat
  <2>1. \A p \in Proc : \A i \in DOMAIN in[p] : Carried(p, in[p][i])
    BY DEF CarriedInv
  <2>2. \A p \in Proc : \A i \in DOMAIN in[p] : in[p][i] \in Call
    BY <1>3
  <2>3. \A m \in Call : m.outnb \in Nat
    BY DEF Call
  <2>4. QED
    BY <2>1, <2>2, <2>3
<1>5. ASSUME NEW p \in Peer, NEW q \in Peer, NEW i, NEW j, Received(p, i), Received(q, j)
      PROVE  /\ in[p][i].from = in[q][j].from
             /\ in[p][i].outnb = in[q][j].outnb =>
                  Match(p, i, q, j) /\ SameRequest(in[p][i], in[q][j])
  <2>1. i \in DOMAIN in[p] /\ j \in DOMAIN in[q]
    BY <1>5 DEF Received
  <2>2. /\ in[p][i].from = in[q][j].from
        /\ in[p][i].outnb = in[q][j].outnb => SameRequest(in[p][i], in[q][j])
    BY <1>2, <1>4, <2>1, SameSender
  <2>3. QED
    BY <1>5, <2>2 DEF Match, SameRequest, SameCall
(* q has what p has received, or it is on its way, after all that q has.   *)
<1>6. ASSUME NEW p \in Peer, NEW q \in Peer, NEW i, Received(p, i),
             \A k : ~Match(p, i, q, k), NEW j, Received(q, j)
      PROVE  in[q][j].outnb <= in[p][i].outnb
  <2>1. i \in DOMAIN in[p] /\ j \in DOMAIN in[q] /\ ~in[q][j].ack
    BY <1>6 DEF Received
  <2>2. Aboard(q, in[p][i])
    BY <1>2, <1>6, <2>1 DEF Received, Streams, ForAll
  <2>3. ASSUME InCall(q, in[p][i])
        PROVE  FALSE
    <3>1. PICK k \in DOMAIN in[q] : SameCall(in[q][k], in[p][i]) /\ ~in[q][k].ack
      BY <2>3 DEF InCall
    <3>2. SameRequest(in[p][i], in[q][k])
      BY <1>2, <1>4, <2>1, <3>1, SameSender DEF SameCall
    <3>3. Match(p, i, q, k)
      BY <1>6, <3>1, <3>2 DEF Match, Received, SameRequest
    <3>4. QED
      BY <1>6, <3>3
  <2>4. PICK g \in Host \ {q} : Brings(Path(g, q), in[p][i])
    BY <2>2, <2>3 DEF Aboard
  <2>5. PICK k \in DOMAIN Path(g, q) : /\ SameCall(Path(g, q)[k].msg, in[p][i])
                                       /\ ~Path(g, q)[k].msg.ack
    BY <2>4 DEF Brings
  <2>6. in[q][j].outnb <= Path(g, q)[k].msg.outnb
    BY <1>2, <2>1, <2>5 DEF InOneSequence, PathInSequence
  <2>7. QED
    BY <2>5, <2>6 DEF SameCall
<1>7. ASSUME NEW p \in Peer, NEW q \in Peer, NEW i, NEW j, Match(p, i, q, j),
             NEW n, Received(p, n), n < i
      PROVE  \E k \in DOMAIN in[q] : Match(p, n, q, k) /\ k < j
  <2>1. /\ Received(p, i) /\ Received(q, j) /\ in[p][i].outnb = in[q][j].outnb
        /\ i \in DOMAIN in[p] /\ n \in DOMAIN in[p] /\ j \in DOMAIN in[q]
        /\ ~in[p][i].ack /\ ~in[p][n].ack /\ ~in[q][j].ack /\ i \in Nat /\ n \in Nat /\ j \in Nat
    BY <1>2, <1>3, <1>7 DEF Match, Received, SameCall
  <2>2. in[p][n].outnb <= in[p][i].outnb
    BY <1>2, <1>7, <2>1 DEF InOneSequence, InSequence
  <2>3. in[p][n].outnb # in[p][i].outnb
    <3>1. in[p][n].from = in[p][i].from
      BY <1>2, <1>4, <2>1, SameSender
    <3>2. n # i
      BY <1>7, <2>1
    <3>3. QED
      BY <1>1, <1>2, <2>1, <3>1, <3>2 DEF ReceivedOnce, SameCall
  <2>4. in[p][n].outnb < in[q][j].outnb
    <3>1. in[p][n].outnb \in Nat /\ in[p][i].outnb \in Nat
      BY <1>2, <1>4, <2>1
    <3>2. QED
      BY <2>1, <2>2, <2>3, <3>1
  <2>5. in[p][n].outnb \in Nat /\ in[q][j].outnb \in Nat
    BY <1>2, <1>4, <2>1
  <2>6. PICK k : Match(p, n, q, k)
    BY <1>6, <1>7, <2>1, <2>4, <2>5
  <2>7. k \in DOMAIN in[q] /\ ~in[q][k].ack /\ in[q][k].outnb = in[p][n].outnb /\ k \in Nat
    BY <1>2, <1>3, <2>6 DEF Match, Received, SameCall
  <2>8. ~(j <= k)
    <3>1. j < k => in[q][j].outnb <= in[q][k].outnb
      BY <1>2, <2>1, <2>7 DEF InOneSequence, InSequence
    <3>2. CASE j < k
      BY <2>4, <2>5, <2>7, <3>1, <3>2
    <3>3. CASE j = k
      BY <2>4, <2>5, <2>7, <3>3
    <3>4. QED
      BY <2>1, <2>7, <3>2, <3>3
  <2>9. QED
    BY <2>1, <2>6, <2>7, <2>8
<1>8. ASSUME NEW p \in Peer, NEW q \in Peer, NEW i, NEW j, Received(p, i), Received(q, j),
             \A k : ~Match(p, i, q, k), \A k : ~Match(p, k, q, j)
      PROVE  FALSE
  <2>1. in[q][j].outnb <= in[p][i].outnb
    BY <1>6, <1>8
  <2>2. \A k : ~Match(q, j, p, k)
    BY <1>8 DEF Match, SameCall
  <2>3. in[p][i].outnb <= in[q][j].outnb
    BY <1>6, <1>8, <2>2
  <2>4. in[p][i].outnb \in Nat /\ in[q][j].outnb \in Nat
    BY <1>2, <1>4, <1>8 DEF Received
  <2>5. in[p][i].outnb = in[q][j].outnb
    BY <2>1, <2>3, <2>4
  <2>6. QED
    BY <1>5, <1>8, <2>5
<1>9. \A p, q \in Peer : \A i \in DOMAIN in[p], j \in DOMAIN in[q] :
        Match(p, i, q, j) => SameRequest(in[p][i], in[q][j])
  BY <1>5 DEF Match, SameCall
<1>10. QED
  BY <1>7, <1>8, <1>9 DEF OneOrder

LEMMA OneOrderHoldsNext ==
  ASSUME OneSender
  PROVE  (NetSafetyInv /\ CarriedInv /\ Bounded /\ Streams /\ InOneSequence => OneOrder)'
BY OneOrderHolds, PTL

(* Only the host of a process performs what it has received.               *)
LEMMA PerformsNetExecute ==
  ASSUME NetSafetyInv, [NetNext]_allvars, NEW q \in Proc, Performs(q)
  PROVE  NetExecute(q) /\ Free(q) /\ net' = net
<1>1. inptr \in [Proc -> Nat \ {0}] /\ inptr' = [inptr EXCEPT ![q] = @ + 1]
  BY DEF NetSafetyInv, SafetyInv, QueueInv, TypeOK, Performs
<1>2. inptr'[q] # inptr[q] /\ \A p \in Proc : p # q => inptr'[p] = inptr[p]
  BY <1>1
<1>3. ~Current(q).ack /\ ~FailAcked(q)
  BY DEF Performs
<1>4. ASSUME NEW p \in Proc, NetSend(p) \/ NetOutStep(p)
      PROVE  inptr' = inptr
  BY <1>4 DEF NetSend, Send, Push, NetOutStep
<1>5. ASSUME NEW p \in Proc, Resume(p)
      PROVE  inptr' = inptr
  BY <1>5 DEF Resume
<1>6. ASSUME NEW p \in Proc, ReadAck(p) \/ SkipFailed(p) \/ NetExecute(p)
      PROVE  p = q
  <2>1. inptr' = [inptr EXCEPT ![p] = @ + 1]
    BY <1>6 DEF ReadAck, SkipFailed, NetExecute, Consume
  <2>2. inptr'[p] = inptr[p] + 1 /\ inptr[p] \in Nat
    BY <1>1, <2>1
  <2>3. inptr'[p] # inptr[p]
    BY <2>2
  <2>4. QED
    BY <1>2, <2>3
<1>7. ASSUME NEW p \in Proc, QuietStep(p)
      PROVE  FALSE
  <2>1. ~Resume(p)
    BY <1>2, <1>5, <1>7
  <2>2. p = q
    BY <1>6, <1>7, <2>1 DEF QuietStep
  <2>3. QED
    BY <1>3, <1>7, <2>1, <2>2 DEF QuietStep, ReadAck, SkipFailed
<1>8. ASSUME NEW h \in Host, Transmit(h) \/ Lose(h) \/ Receive(h)
      PROVE  inptr' = inptr
  BY <1>8 DEF Transmit, Lose, Receive, vars
<1>9. UNCHANGED allvars => inptr' = inptr
  BY DEF allvars, vars
<1>10. PICK p \in Proc : Free(p) /\ NetExecute(p) /\ net' = net
  BY <1>2, <1>4, <1>7, <1>8, <1>9, NetCases
<1>11. QED
  BY <1>6, <1>10

(* An ack on its way stays there until it has been received.               *)
LEMMA AckKept ==
  ASSUME NetSafetyInv, Moves, StreamStep, NEW p \in Peer, NEW m, m.ack,
         \/ \E i \in DOMAIN in[p] : in[p][i] = m
         \/ \E g \in Host \ {p} : \E i \in DOMAIN Path(g, p) : Path(g, p)[i].msg = m
  PROVE  \/ \E i \in DOMAIN in'[p] : in'[p][i] = m
         \/ \E g \in Host \ {p} : \E i \in DOMAIN Path(g, p)' : Path(g, p)'[i].msg = m
<1>1. TypeOK /\ NetTypeOK /\ p \in Proc /\ p \in Host /\ in[p] \in Seq(Call)
  BY DEF NetSafetyInv, SafetyInv, QueueInv, TypeOK, Proc, Host
<1>2. ASSUME NEW i \in DOMAIN in[p], in[p][i] = m
      PROVE  \E j \in DOMAIN in'[p] : in'[p][j] = m
  BY <1>1, <1>2, MovesOf DEF InStepOf, InKept
<1>3. ASSUME NEW g \in Host \ {p}, NEW i \in DOMAIN Path(g, p), Path(g, p)[i].msg = m
      PROVE  \/ \E j \in DOMAIN in'[p] : in'[p][j] = m
             \/ \E j \in DOMAIN Path(g, p)' : Path(g, p)'[j].msg = m
  <2> DEFINE s == Path(g, p)
  <2>1. s \in Seq(Packet)
    BY <1>1, PathType
  <2>2. CASE Arrives(g, p)
    <3>1. s # <<>> /\ Path(g, p)' = Without(s, 1) /\ in'[p] = Posted(in[p], s[1].msg)
      BY <2>2 DEF Arrives
    <3> HIDE DEF s
    <3>2. \A j \in DOMAIN s : j = 1 \/
             (j - 1 \in DOMAIN Path(g, p)' /\ Path(g, p)'[j - 1] = s[j])
      BY <2>1, <3>1, WithoutFirst
    <3>3. CASE i = 1
      <4>1. in'[p] = Append(in[p], m)
        BY <1>3, <3>1, <3>3 DEF Posted, s
      <4>2. \A q \in Seq(Call) : \A x : Append(q, x)[Len(q) + 1] = x /\ Len(q) + 1 \in DOMAIN Append(q, x)
        OBVIOUS
      <4>3. QED
        BY <1>1, <4>1, <4>2
    <3>4. CASE i # 1
      BY <1>3, <3>2, <3>4 DEF s
    <3>5. QED
      BY <3>3, <3>4
  <2>3. CASE Extends(g, p)
    <3>1. PICK new \in Seq(Packet) : Path(g, p)' = s \o new
      BY <2>3 DEF Extends
    <3>2. \A u, v \in Seq(Packet) : \A j \in DOMAIN u : j \in DOMAIN (u \o v) /\ (u \o v)[j] = u[j]
      OBVIOUS
    <3>3. i \in DOMAIN Path(g, p)' /\ Path(g, p)'[i] = s[i]
      BY <1>3, <2>1, <3>1, <3>2
    <3>4. QED
      BY <1>3, <3>3
  <2>4. QED
    BY <1>1, <2>2, <2>3 DEF StreamStep
<1>4. QED
  BY <1>2, <1>3

LEMMA AckTravelsNext ==
  ASSUME NetSafetyInv, Moves, StreamStep, AckTravels, EntriesAgreed', [NetNext]_allvars
  PROVE  AckTravels'
<1> SUFFICES ASSUME NEW p \in Peer, NEW q \in Peer, NEW k \in DOMAIN rl'[q], p # q
             PROVE  \E m : /\ m.ack /\ SameCall(m, rl'[q][k]) /\ m.innb = k - 1 /\ q \in m.sign
                           /\ \/ \E i \in DOMAIN in'[p] : in'[p][i] = m
                              \/ \E g \in Host \ {p} : \E i \in DOMAIN Path(g, p)' :
                                   Path(g, p)'[i].msg = m
  BY DEF AckTravels, AckOf, SameCall
<1>1. /\ SafetyInv /\ TypeOK /\ NetTypeOK /\ p \in Proc /\ q \in Proc /\ p \in Host /\ q \in Host
      /\ Len(rl[q]) \in Nat
  <2>1. SafetyInv /\ TypeOK /\ NetTypeOK
    BY DEF NetSafetyInv, SafetyInv, QueueInv
  <2>2. p \in Proc /\ q \in Proc /\ p \in Host /\ q \in Host
    BY DEF Proc, Host
  <2>3. QED
    BY <2>1, <2>2, IndexFacts
<1>2. CASE k \in DOMAIN rl[q]
  <2>1. PICK m : /\ m.ack /\ SameCall(m, rl[q][k]) /\ m.innb = k - 1 /\ q \in m.sign
                 /\ \/ \E i \in DOMAIN in[p] : in[p][i] = m
                    \/ \E g \in Host \ {p} : \E i \in DOMAIN Path(g, p) : Path(g, p)[i].msg = m
    BY <1>2 DEF AckTravels, AckOf
  <2>2. \/ \E i \in DOMAIN in'[p] : in'[p][i] = m
        \/ \E g \in Host \ {p} : \E i \in DOMAIN Path(g, p)' : Path(g, p)'[i].msg = m
    BY <2>1, AckKept
  <2>3. SameCall(m, rl'[q][k])
    BY <1>1, <1>2, <2>1, RlMoves DEF SameEntry, SameCall
  <2>4. QED
    BY <2>1, <2>2, <2>3
<1>3. CASE k \notin DOMAIN rl[q]
  <2>1. k = Len(rl[q]) + 1 /\ Performs(q) /\ Logs(q) /\ rl'[q][k] = Entry(q)
    BY <1>1, <1>3, MovesOf DEF RlGrowsOf
  <2>2. NetExecute(q) /\ Free(q) /\ net' = net /\ ~InIdle(q)
    BY <1>1, <2>1, PerformsNetExecute, PerformFacts
  <2>3. rl'[q][k].to = Group
    BY DEF EntriesAgreed
  <2>4. Acks(q)
    BY <1>1, <2>1, <2>2, <2>3, NewEntryFacts, ProcAssumption DEF Acks, Logs, SameRequest
  <2>5. PICK m : m = Ack(q)
    OBVIOUS
  <2>6. m \in Call /\ Entry(q) \in Call
    BY <1>1, <2>1, <2>5, PerformFacts
  <2>7. m.ack /\ SameCall(m, Entry(q)) /\ m.innb = Entry(q).innb /\ m.sign = Entry(q).sign
    BY <2>1, <2>5, <2>6 DEF Ack, Call, SameCall
  <2>8. q \in Entry(q).sign /\ Entry(q).innb = k - 1
    BY <1>1, <2>1, EntryOf
  <2>9. outbox' = [outbox EXCEPT ![q] = Packets(AckedPeers(q), m)]
    BY <2>2, <2>4, <2>5 DEF NetExecute
  <2>10. PICK made : made = Packets(AckedPeers(q), m)
    OBVIOUS
  <2>11. /\ AckedPeers(q) \in Seq(Peer) /\ Peer \in SUBSET Proc
         /\ \E i \in DOMAIN AckedPeers(q) : AckedPeers(q)[i] = p
    BY <1>1, AckedPeersType, AckedPeersFacts DEF Proc
  <2>12. made \in Seq(Packet) /\ \E i \in DOMAIN made : made[i].msg = m
    BY <2>6, <2>10, <2>11, PacketsType
  <2>13. Path(q, p) \in Seq(Packet) /\ Path(q, p)' = Path(q, p) \o made
    <3>1. outbox[q] = <<>> /\ outbox' = [outbox EXCEPT ![q] = made] /\ net' = net
      BY <2>2, <2>9, <2>10 DEF Free
    <3>2. q \in Host \ {p}
      BY <1>1
    <3>3. QED
      BY <1>1, <2>12, <3>1, <3>2, MadeOnPath
  <2>14. \A u, v \in Seq(Packet) : \A j \in DOMAIN v :
           Len(u) + j \in DOMAIN (u \o v) /\ (u \o v)[Len(u) + j] = v[j]
    OBVIOUS
  <2>15. \E i \in DOMAIN Path(q, p)' : Path(q, p)'[i].msg = m
    <3>1. PICK i \in DOMAIN made : made[i].msg = m
      BY <2>12
    <3>2. /\ Len(Path(q, p)) + i \in DOMAIN (Path(q, p) \o made)
          /\ (Path(q, p) \o made)[Len(Path(q, p)) + i] = made[i]
      BY <2>12, <2>13, <2>14, <3>1
    <3>3. QED
      BY <2>13, <3>1, <3>2
  <2>16. QED
    BY <1>1, <2>1, <2>7, <2>8, <2>15 DEF SameCall
<1>4. QED
  BY <1>2, <1>3

LEMMA NetMirrorInvInit ==
  ASSUME NEW S, Servlets(S), NetInit
  PROVE  NetMirrorInv(S)
<1>1. NetReplayInv(S) /\ MirrorInv(S) /\ Streams
  BY NetReplayInvInit, MirrorInvInit, StreamsInit DEF NetInit
<1>2. /\ \A p \in Proc : out[p] = <<>> /\ in[p] = <<>> /\ rl[p] = <<>> /\ cond[p] = 0
      /\ \A h \in Host : net[h] = <<>> /\ outbox[h] = <<>>
  BY DEF NetInit, Init
<1>3. \A p \in Host : \A q \in Host : DOMAIN Path(q, p) = {}
  <2>1. DOMAIN (<<>> \o <<>>) = {}
    OBVIOUS
  <2>2. QED
    BY <1>2, <2>1 DEF Path
<1>4. Proc \subseteq Host /\ Peer \subseteq Proc
  BY DEF Host, Proc
<1>5. InOneSequence
  BY <1>2, <1>3, <1>4 DEF InOneSequence, InSequence, PathInSequence
<1>6. Broadcast /\ AckTravels /\ WaitsForLast
  BY <1>2, <1>4 DEF Broadcast, AckTravels, WaitsForLast
<1>7. Bounded
  <2>1. \A p \in Proc : Len(out[p]) = 0 /\ MaxOut[p] \in Nat
    BY <1>2, ProcAssumption
  <2>2. \A n \in Nat : 0 <= n
    OBVIOUS
  <2>3. QED
    BY <2>1, <2>2 DEF Bounded
<1>8. QED
  BY <1>1, <1>5, <1>6, <1>7 DEF NetMirrorInv, Undisturbed, MirrorInv

LEMMA UndisturbedNext ==
  ASSUME NoMaster, TwoHosts, OneSender, Mirrored, NEW S, Servlets(S),
         NetReplayInv(S), Bounded, Undisturbed(S), [NetNext]_allvars, lost' = 0,
         NetReplayInv(S)', Bounded'
  PROVE  Undisturbed(S)'
<1>1. /\ NetSafetyInv /\ CarriedInv /\ Streams /\ InOneSequence /\ Broadcast /\ AckTravels
      /\ FateInv(S) /\ Moves
  BY NetNextMoves DEF NetReplayInv, Undisturbed
<1>2. StreamStep
  BY <1>1, StreamStepHolds
<1>3. Streams'
  BY <1>1, StreamsNext
<1>4. InOneSequence'
  BY <1>1, <1>2, InOneSequenceNext
<1>5. Broadcast'
  BY <1>1, <1>2, BroadcastNext
<1>6. NetSafetyInv' /\ CarriedInv' /\ TypeOK'
  BY <1>1, MovesSafe DEF NetReplayInv
<1>7. OneOrder'
  BY <1>3, <1>4, <1>6, OneOrderHoldsNext
<1>8. InSendable' /\ FailuresTrue'
  BY <1>6, CarriedSendableNext
<1>9. FateInv(S)'
  BY <1>1, <1>7, <1>8, FateInvNext
<1>10. EntriesAgreed'
  BY <1>9 DEF FateInv
<1>11. AckTravels'
  BY <1>1, <1>2, <1>10, AckTravelsNext
<1>12. QED
  BY <1>3, <1>4, <1>5, <1>9, <1>11 DEF Undisturbed

LEMMA NetMirrorInvNext ==
  ASSUME NoMaster, TwoHosts, OneSender, Mirrored, NEW S, Servlets(S),
         NetMirrorInv(S), [NetNext]_allvars
  PROVE  NetMirrorInv(S)'
<1>1. NetReplayInv(S) /\ NetSafetyInv /\ SafetyInv /\ Bounded /\ WaitsForLast
  BY DEF NetMirrorInv, NetReplayInv, NetSafetyInv
<1>2. NetReplayInv(S)'
  BY <1>1, NetReplayInvNext
<1>3. Bounded' /\ WaitsForLast'
  BY <1>1, BoundedNext, NetNextMoves, WaitsForLastNext
<1>4. ASSUME lost' = 0
      PROVE  Undisturbed(S)'
  <2>1. Undisturbed(S)
    BY <1>1, <1>4, LostGrows DEF NetMirrorInv
  <2>2. QED
    BY <1>1, <1>2, <1>3, <1>4, <2>1, UndisturbedNext
<1>5. QED
  BY <1>2, <1>3, <1>4 DEF NetMirrorInv

LEMMA NetMirrorInvHolds ==
  ASSUME NoMaster, TwoHosts, OneSender, Mirrored, NEW S, Servlets(S)
  PROVE  NetSpec => []NetMirrorInv(S)
<1>1. NetInit => NetMirrorInv(S)
  BY NetMirrorInvInit
<1>2. NetMirrorInv(S) /\ [NetNext]_allvars => NetMirrorInv(S)'
  BY NetMirrorInvNext
<1>3. QED
  BY <1>1, <1>2, PTL DEF NetSpec

(***************************************************************************)
(* The mirrors agree over two hosts too, whatever servlet they replicate,  *)
(* for as long as nothing is lost and a single process sends: their replay *)
(* lists have the same entries as far as both go.                          *)
(***************************************************************************)
THEOREM MirrorsAgreeUntilLoss ==
  ASSUME NoMaster, TwoHosts, OneSender, Mirrored, NEW S, Servlets(S)
  PROVE  NetSpec => [](lost = 0 => ReplayListsAgree)
<1>1. NetMirrorInv(S) => (lost = 0 => ReplayListsAgree)
  BY DEF NetMirrorInv, Undisturbed, FateInv
<1>2. NetSpec => []NetMirrorInv(S)
  BY NetMirrorInvHolds
<1>3. QED
  BY <1>1, <1>2, PTL

-----------------------------------------------------------------------------
(* When nothing is on its way, all that was sent has been received, ...    *)
LEMMA SilentReceived ==
  ASSUME NetTypeOK, Silent, NEW q \in Peer, NEW m, Aboard(q, m)
  PROVE  InCall(q, m)
<1>1. q \in Host
  BY DEF Host, Proc
<1>2. DOMAIN (<<>> \o <<>>) = {}
  OBVIOUS
<1>3. \A g \in Host : DOMAIN Path(g, q) = {}
  BY <1>1, <1>2 DEF Path, Silent
<1>4. QED
  BY <1>3 DEF Aboard, Brings

(* ... so what one peer has received they all have, acks included, and     *)
(* each has processed all of it.                                           *)
LEMMA SilentIdle ==
  ASSUME OneSender, NEW S, NetMirrorInv(S), lost = 0, Silent
  PROVE  \A p \in Proc : InIdle(p)
<1>1. /\ NetSafetyInv /\ NetTypeOK /\ SafetyInv /\ TypeOK /\ ReceivedOnce /\ CarriedInv /\ Bounded
      /\ Streams /\ AckTravels /\ FateInv(S) /\ WaitsForLast
  BY DEF NetMirrorInv, NetReplayInv, Undisturbed, NetSafetyInv, SafetyInv, QueueInv
<1>2. \A p \in Peer : p \in Proc /\ p \in Host
  BY DEF Proc, Host
<1>3. \A p \in Proc : in[p] \in Seq(Call) /\ DOMAIN in[p] \subseteq Nat
  BY <1>1 DEF TypeOK
<1>4. AllMatched
  <2> SUFFICES ASSUME NEW p \in Peer, NEW q \in Peer, NEW i, Received(p, i)
               PROVE  \E j : Match(p, i, q, j)
    BY DEF AllMatched
  <2>1. i \in DOMAIN in[p] /\ ForAll(in[p][i])
    BY <1>1, <1>2 DEF Received, Streams
  <2>2. PICK j \in DOMAIN in[q] : SameCall(in[q][j], in[p][i]) /\ ~in[q][j].ack
    BY <1>1, <2>1, SilentReceived DEF Received, ForAll, InCall
  <2>3. /\ in[p][i] \in Call /\ in[q][j] \in Call
        /\ Carried(p, in[p][i]) /\ Carried(q, in[q][j])
    <3>1. in[p][i] \in Call /\ in[q][j] \in Call
      BY <1>2, <1>3, <2>1, <2>2
    <3>2. QED
      BY <1>1, <1>2, <2>1, <2>2, <3>1 DEF CarriedInv
  <2>4. SameRequest(in[p][i], in[q][j])
    BY <1>1, <2>2, <2>3, SameSender DEF SameCall
  <2>5. QED
    BY <2>2, <2>4 DEF Match, Received, SameRequest
<1>5. AckDelivered
  <2> SUFFICES ASSUME NEW p \in Peer, NEW q \in Peer, NEW k \in DOMAIN rl[q], p # q
               PROVE  \E i \in DOMAIN in[p] :
                        /\ in[p][i].ack /\ SameCall(in[p][i], rl[q][k]) /\ in[p][i].innb = k - 1
                        /\ q \in in[p][i].sign
                        /\ \A j \in DOMAIN in[p] :
                             Received(p, j) /\ SameCall(in[p][j], rl[q][k]) => j < i
    BY DEF AckDelivered
  <2>1. DOMAIN (<<>> \o <<>>) = {}
    OBVIOUS
  <2>2. \A g \in Host : DOMAIN Path(g, p) = {}
    BY <1>2, <2>1 DEF Path, Silent
  <2>3. PICK i \in DOMAIN in[p] : AckOf(in[p][i], q, k)
    BY <1>1, <2>2 DEF AckTravels
  <2>4. in[p][i].ack /\ SameCall(in[p][i], rl[q][k])
    BY <2>3 DEF AckOf
  <2>5. PICK j \in 1 .. i - 1 : SameCall(in[p][i], in[p][j]) /\ ~in[p][j].ack
    BY <1>1, <2>4 DEF Streams, AckFollows
  <2>6. j \in DOMAIN in[p] /\ j < i
    <3>1. \A s \in Seq(Call) : \A x \in DOMAIN s : \A y \in 1 .. x - 1 : y \in DOMAIN s /\ y < x
      OBVIOUS
    <3>2. QED
      BY <1>2, <1>3, <2>5, <3>1
  <2>7. ASSUME NEW x \in DOMAIN in[p], Received(p, x), SameCall(in[p][x], rl[q][k])
        PROVE  x < i
    <3>1. x = j
      BY <1>1, <1>2, <2>4, <2>5, <2>6, <2>7 DEF ReceivedOnce, Received, SameCall
    <3>2. QED
      BY <2>6, <3>1
  <2>8. QED
    BY <2>3, <2>7 DEF AckOf
<1>6. QED
  BY <1>1, <1>4, <1>5, StuckAreIdle DEF Silent

(***************************************************************************)
(* Over two hosts, when a single process sends and nothing is lost, no     *)
(* peer is left behind: when there is nothing left to do, each has         *)
(* performed, or failed, every call sent to the group.                     *)
(***************************************************************************)
THEOREM CallsReachAll ==
  ASSUME NoMaster, TwoHosts, OneSender, Mirrored, NEW S, Servlets(S)
  PROVE  NetSpec => []PerformedByAll
<1>1. NetMirrorInv(S) => PerformedByAll
  <2> SUFFICES ASSUME NetMirrorInv(S), Silent, lost = 0, NEW p \in Proc, NEW k \in DOMAIN out[p],
                      out[p][k].to = Group, NEW q \in Peer
               PROVE  \E i \in 1 .. inptr[q] - 1 : SameCall(in[q][i], out[p][k]) /\ ~in[q][i].ack
    BY DEF PerformedByAll
  <2>1. /\ NetTypeOK /\ SafetyInv /\ TypeOK /\ Broadcast
    BY DEF NetMirrorInv, NetReplayInv, Undisturbed, NetSafetyInv, SafetyInv, QueueInv
  <2>2. k < outptr[p]
    <3>1. out[p] \in Seq(Call) /\ outptr[p] \in Nat /\ outptr[p] > Len(out[p])
      BY <2>1 DEF TypeOK, Silent, Stuck, OutIdle
    <3>2. QED
      BY <3>1
  <2>3. InCall(q, out[p][k])
    BY <2>1, <2>2, SilentReceived DEF Broadcast
  <2>4. PICK i \in DOMAIN in[q] : SameCall(in[q][i], out[p][k]) /\ ~in[q][i].ack
    BY <2>3 DEF InCall
  <2>5. q \in Proc /\ InIdle(q)
    BY SilentIdle DEF Proc
  <2>6. i \in 1 .. inptr[q] - 1
    BY <2>1, <2>4, <2>5, IndexFacts DEF InIdle
  <2>7. QED
    BY <2>4, <2>6
<1>2. NetSpec => []NetMirrorInv(S)
  BY NetMirrorInvHolds
<1>3. QED
  BY <1>1, <1>2, PTL

-----------------------------------------------------------------------------
(***************************************************************************)
(* Over two hosts the group keeps one log, for as long as nothing is lost. *)
(* What it takes beyond that is true over any hosts, whatever is lost: a   *)
(* call has no number until it is processed, and a numbered ack comes from *)
(* another peer, which has logged the call.                                *)
(***************************************************************************)

(* What a host makes is numbered only if it is the ack of a call it logs.  *)
LEMMA TransmittedUnnumbered ==
  ASSUME SafetyInv, Unnumbered, NEW p \in Proc, NetOutStep(p)
  PROVE  ~Transmitted(p).ack /\ Transmitted(p).innb = NoNb
<1>1. outptr[p] \in DOMAIN out[p] /\ out[p] \in Seq(Call) /\ ~Transmitted(p).ack
  BY NetOutStepFacts DEF SafetyInv, QueueInv, TypeOK
<1>2. out[p][outptr[p]] \in Call
  BY <1>1
<1>3. Transmitted(p).innb = out[p][outptr[p]].innb
  BY <1>2 DEF Transmitted, Call
<1>4. QED
  BY <1>1, <1>3 DEF Unnumbered

LEMMA NetAckAuthored ==
  ASSUME SafetyInv, CarriedInv, Unnumbered, NEW r \in Proc, NetExecute(r), Acks(r),
         NEW p, p # r, NEW n, n = Ack(r)
  PROVE  Authored(p, n)'
<1>1. Performs(r) /\ inptr[r] \in DOMAIN in[r] /\ ~Current(r).ack
  BY NetExecuteFacts, NetExecuteMoves
<1>2. r \in Peer
  <2>1. Carried(r, Current(r)) /\ Current(r).to = Group
    BY <1>1 DEF CarriedInv, Current, Acks
  <2>2. QED
    BY <2>1 DEF Carried, Dest
<1>3. Current(r).innb = NoNb
  BY <1>1, <1>2, IndexFacts DEF Unnumbered, Current
<1>4. QED
  BY <1>1, <1>2, <1>3, AckAuthored

LEMMA NetNumbersNext ==
  ASSUME NoMaster, NetSafetyInv, CarriedInv, NetNumbers, [NetNext]_allvars
  PROVE  NetNumbers'
<1>1. /\ SafetyInv /\ NetTypeOK /\ Moves /\ Unnumbered /\ AckAuthor
      /\ \A p \in Peer : p \in Proc
  BY NetNextMoves DEF NetSafetyInv, NetNumbers, Proc
<1>2. ASSUME NEW w, OnWay(w)
      PROVE  (~w.msg.ack => w.msg.innb = NoNb) /\ Authored(w.to, w.msg)'
  <2>1. (~w.msg.ack => w.msg.innb = NoNb) /\ Authored(w.to, w.msg)
    BY <1>2 DEF NetNumbers
  <2>2. \A p, m : Authored(p, m) => Authored(p, m)'
    BY <1>1, AuthoredKept
  <2>3. QED
    BY <2>1, <2>2
<1>3. ASSUME NEW w, OnWay(w)'
      PROVE  (~w.msg.ack => w.msg.innb = NoNb) /\ Authored(w.to, w.msg)'
  <2>1. ASSUME NEW p \in Proc, NetOutStep(p), w.msg = Transmitted(p)
        PROVE  ~w.msg.ack /\ w.msg.innb = NoNb
    BY <1>1, <2>1, TransmittedUnnumbered
  <2>2. ASSUME NEW p \in Proc, NetExecute(p), Acks(p), w.msg = Ack(p), w.to # p
        PROVE  w.msg.ack /\ Authored(w.to, w.msg)'
    <3>1. w.msg.ack
      BY <1>1, <2>2, NetExecuteFacts, AckedRequest
    <3>2. \A t, n : t # p /\ n = Ack(p) => Authored(t, n)'
      BY <1>1, <2>2, NetAckAuthored
    <3>3. QED
      BY <2>2, <3>1, <3>2
  <2>3. OnWay(w) \/ Made(w)
    BY <1>3, PacketsBack
  <2>4. QED
    BY <1>2, <2>1, <2>2, <2>3 DEF Made, Authored
<1>4. ASSUME NEW p \in Peer, NEW i \in DOMAIN in'[p], i \notin DOMAIN in[p], NEW m, m = in'[p][i]
      PROVE  (~m.ack => m.innb = NoNb) /\ Authored(p, m)'
  <2>1. Arrived(p, m)
    BY <1>1, <1>4, InBack
  <2>2. CASE NetOutStep(p) /\ m = Transmitted(p)
    BY <1>1, <2>2, TransmittedUnnumbered DEF Authored
  <2>3. CASE \E w : OnWay(w) /\ w.to = p /\ w.msg = m
    BY <1>2, <2>3
  <2>4. QED
    BY <2>1, <2>2, <2>3 DEF Arrived
<1>5. ASSUME NEW p \in Peer, NEW i \in DOMAIN in[p], i \in DOMAIN in'[p], NEW m, m = in'[p][i]
      PROVE  (~m.ack /\ i >= inptr'[p] => m.innb = NoNb) /\ Authored(p, m)'
  <2>1. inptr[p] \in Nat /\ DOMAIN in[p] \subseteq Nat /\ OwnStepOf(p) /\ p \in Proc
    BY <1>1, IndexFacts, MovesOf
  <2>2. CASE m = in[p][i]
    <3>1. Authored(p, m) /\ (~m.ack /\ i >= inptr[p] => m.innb = NoNb)
      BY <1>1, <1>5, <2>2 DEF AckAuthor, Unnumbered
    <3>2. inptr'[p] >= inptr[p]
      BY <2>1 DEF OwnStepOf
    <3>3. i >= inptr'[p] => i >= inptr[p]
      BY <2>1, <3>2 DEF OwnStepOf
    <3>4. QED
      BY <1>1, <3>1, <3>3, AuthoredKept
  <2>3. CASE m # in[p][i]
    <3>1. i = inptr[p] /\ Answered(p, m)
      BY <1>5, <2>1, <2>3 DEF OwnStepOf
    <3>2. ~m.ack
      BY <1>1, <2>1, <3>1, AnsweredFacts
    <3>3. inptr'[p] = inptr[p] + 1
      BY <1>1, <2>1, <3>1 DEF Answered, Performs, SkipFailed, Consume, SafetyInv, QueueInv, TypeOK
    <3>4. ~(i >= inptr'[p])
      BY <2>1, <3>1, <3>3
    <3>5. QED
      BY <3>2, <3>4 DEF Authored
  <2>4. QED
    BY <2>2, <2>3
<1>6. Unnumbered'
  <2>1. \A p \in Proc : \A i \in DOMAIN out'[p] : out'[p][i].innb = NoNb
    BY <1>1, MovesOf DEF OutStepOf, Sent, Unnumbered
  <2>2. QED
    BY <1>4, <1>5, <2>1 DEF Unnumbered
<1>7. AckAuthor'
  BY <1>4, <1>5 DEF AckAuthor, Authored, LoggedAt, SameCall
<1>8. QED
  BY <1>3, <1>6, <1>7 DEF NetNumbers, Authored, LoggedAt, SameCall

(* What has been carried to a process has been sent by a user.             *)
LEMMA CarriedAsked == CarriedInv => InAsked
BY DEF CarriedInv, Carried, InAsked, AskedFor

(* The steps that CallLog sees are those of a process.                     *)
LEMMA NetLogMoves ==
  ASSUME NetSafetyInv, [NetNext]_allvars
  PROVE  LogMoves
<1>1. SafetyInv /\ \A p \in Peer : p \in Proc
  BY DEF NetSafetyInv, Proc
<1>2. CASE [Next]_vars
  BY <1>1, <1>2, PeerStep
<1>3. CASE UNCHANGED <<rl, cond>>
  BY <1>3 DEF LogMoves
<1>4. CASE UNCHANGED allvars
  BY <1>3, <1>4 DEF allvars, vars
<1>5. CASE \E p \in Proc : NetSend(p) \/ QuietStep(p)
  BY <1>1, <1>2, <1>5, QuietNext
<1>6. CASE \E p \in Proc : NetOutStep(p)
  BY <1>3, <1>6 DEF NetOutStep
<1>7. ASSUME NEW p \in Proc, NetExecute(p)
      PROVE  LogMoves
  <2>1. /\ Performs(p) /\ out' = out
        /\ \A q \in Proc \ {p} : rl'[q] = rl[q] /\ cond'[q] = cond[q]
        /\ ~Logs(p) => rl'[p] = rl[p] /\ cond'[p] = cond[p]
    BY <1>1, <1>7, NetExecuteFacts, NetExecuteMoves
  <2>2. CASE p \in Peer /\ Logs(p)
    BY <1>1, <2>1, <2>2 DEF LogMoves, LogsNext
  <2>3. CASE ~(p \in Peer /\ Logs(p))
    BY <1>1, <2>1, <2>3 DEF LogMoves
  <2>4. QED
    BY <2>2, <2>3
<1>8. CASE \E h \in Host : Transmit(h) \/ Lose(h) \/ Receive(h)
  BY <1>3, <1>8 DEF Transmit, Lose, Receive, vars
<1>9. QED
  BY <1>4, <1>5, <1>6, <1>7, <1>8, NetCases

(***************************************************************************)
(* Over two hosts the group still implements CallLog, whatever servlet it  *)
(* replicates, for as long as nothing is lost and a single process sends:  *)
(* its calls enter one log, each peer executes a prefix of it, and goes on *)
(* only when all but the sender have executed the call it waits for.       *)
(***************************************************************************)
THEOREM OneLogUntilLoss ==
  ASSUME NoMaster, TwoHosts, OneSender, Mirrored, NEW S, Servlets(S),
         IsFiniteSet(Peer), Peer # {}
  PROVE  NetSpec => ImplementsUntilLoss
<1>1. NetInit => NetMirrorInv(S) /\ NetNumbers /\ Log!LogInit
  <2> SUFFICES ASSUME NetInit
               PROVE  NetMirrorInv(S) /\ NetNumbers /\ Log!LogInit
    OBVIOUS
  <2>1. /\ \A p \in Proc : DOMAIN in[p] = {} /\ DOMAIN out[p] = {}
        /\ \A h \in Host : DOMAIN net[h] = {} /\ DOMAIN outbox[h] = {}
    BY DEF NetInit, Init
  <2>2. NetNumbers
    BY <2>1 DEF NetNumbers, Unnumbered, AckAuthor, OnWay, Proc
  <2>3. QED
    BY <2>2, NetMirrorInvInit, LogInitHolds DEF NetInit
<1>2. NetMirrorInv(S) /\ NetNumbers /\ [NetNext]_allvars => NetMirrorInv(S)' /\ NetNumbers'
  BY NetMirrorInvNext, NetNumbersNext DEF NetMirrorInv, NetReplayInv
<1>3. ASSUME NetMirrorInv(S), NetNumbers, NetMirrorInv(S)', [NetNext]_allvars, lost' = 0
      PROVE  Log!LogNext
  <2>1. /\ NetSafetyInv /\ CarriedInv /\ FateInv(S) /\ AckAuthor
    BY <1>3, LostGrows DEF NetMirrorInv, NetReplayInv, Undisturbed, NetNumbers
  <2>2. LogBase(S)
    BY <2>1, CarriedAsked DEF LogBase
  <2>3. FateInv(S)'
    BY <1>3 DEF NetMirrorInv, Undisturbed
  <2>4. Moves /\ LogMoves
    BY <1>3, <2>1, NetNextMoves, NetLogMoves
  <2>5. QED
    BY <2>2, <2>3, <2>4, LogStepHolds
<1>4. NetMirrorInv(S) /\ NetNumbers /\ NetMirrorInv(S)' /\ [NetNext]_allvars =>
        (lost' = 0 => Log!LogNext)
  BY <1>3
<1>5. QED
  BY <1>1, <1>2, <1>4, PTL DEF NetSpec, ImplementsUntilLoss

(* A payment channel of two hosts is one of those, too, when one user pays *)
(* the other.                                                              *)
THEOREM PaymentChannelOverNet ==
  ASSUME NoMaster, TwoHosts, OneSender, RunsMicropay, Mirrored,
         IsFiniteSet(Peer), Peer # {}
  PROVE  NetSpec => []SelfIsReplay /\ []PerformedByAll /\ ImplementsUntilLoss
<1>1. PICK S : Servlets(S)
  BY MicropayServlets
<1>2. NetSpec => []SelfIsReplay
  BY <1>1, SelfReplaysOverNet
<1>3. NetSpec => []PerformedByAll
  BY <1>1, CallsReachAll
<1>4. NetSpec => ImplementsUntilLoss
  BY <1>1, OneLogUntilLoss
<1>5. QED
  BY <1>2, <1>3, <1>4

=============================================================================
