--------------------------- MODULE IdentifyProofs ---------------------------
(***************************************************************************)
(* Proofs about Identify, for any protocols, limits, changes, connections  *)
(* and number of streams.  The limits hold because a stream joins those in *)
(* use in one step with the count, from below the limit.  What a registrar *)
(* has told agrees with the book because it has never told of a protocol   *)
(* the book does not have, and the last event it has not handled is that   *)
(* of the connection as it now is.  The book is right in the end because,  *)
(* while it is not, what makes it right is due or on its way.              *)
(***************************************************************************)
EXTENDS Identify, FiniteSetTheorems, TLAPS

Info == [version: Nat, protos: SUBSET Protos, known: BOOLEAN]
Ends == {"opening", "open", "verifying", "closed"}
StreamRecord == [kind: Kinds, from: Nodes, out: Ends, in: Ends, news: Info]
Due == [identify: Nat, push: Nat]

TypeOK == /\ link \in [open: BOOLEAN, count: Nat]
          /\ self \in [Nodes -> Info] /\ book \in [Nodes -> Info]
          /\ stream \in [Slots -> StreamRecord \cup {NoStream}]
          /\ due \in [Nodes -> Due]
          /\ events \in [Nodes -> Seq({"connect", "disconnect"})]
          /\ told \in [Nodes -> SUBSET Topologies]

(* What has been told is known, whatever has not been handled yet. *)
ToldKnown == \A n \in Nodes : told[n] \subseteq book[n].protos

(* The last event a registrar has to handle is of the connection as it is. *)
LastEvent == \A n \in Nodes : events[n] # <<>> =>
  events[n][Len(events[n])] = IF link.open THEN "connect" ELSE "disconnect"

IdentifyInv == /\ TypeOK /\ ToldKnown /\ LastEvent
               /\ WithinStreamLimits /\ ToldAgrees

-----------------------------------------------------------------------------
(* The two nodes *)

LEMMA TwoNodes ==
  ASSUME IdentifyAssumption, NEW n \in Nodes
  PROVE  Other(n) \in Nodes /\ Other(n) # n /\ Other(Other(n)) = n
<1>1. IsFiniteSet(Nodes) /\ Cardinality(Nodes) = 2
  BY DEF IdentifyAssumption
<1>2. ASSUME NEW m \in Nodes PROVE \E x : Nodes \ {m} = {x}
  <2>1. IsFiniteSet(Nodes \ {m}) /\ Cardinality(Nodes \ {m}) = 1
    BY <1>1, FS_RemoveElement
  <2> QED
    BY <2>1, FS_Singleton
<1>3. \A m \in Nodes : Other(m) \in Nodes /\ Other(m) # m
  BY <1>2 DEF Other
<1> QED
  BY <1>2, <1>3

LEMMA InfoOfStreams ==
  ASSUME TypeOK, NEW s \in Slots, stream[s] # NoStream
  PROVE  stream[s] \in StreamRecord
BY DEF TypeOK

LEMMA EmptyStream == NoStream.in = "closed" /\ NoStream.out = "closed" /\ NoStream.kind = "none"
BY DEF NoStream

-----------------------------------------------------------------------------
(* Counting the streams in use *)

InUse(n, k, incoming) == IF incoming THEN Inbound(n, k) ELSE Outbound(n, k)
Limit(k, incoming) == IF incoming THEN MaxInbound[k] ELSE MaxOutbound[k]

LEMMA LimitsAre ==
  WithinStreamLimits <=> \A n \in Nodes, k \in Kinds, i \in BOOLEAN :
                           Cardinality(InUse(n, k, i)) <= Limit(k, i)
BY DEF WithinStreamLimits, InUse, Limit

LEMMA Counted ==
  ASSUME IdentifyAssumption, NEW n \in Nodes, NEW k \in Kinds, NEW i \in BOOLEAN
  PROVE  /\ InUse(n, k, i) \subseteq Slots /\ IsFiniteSet(InUse(n, k, i))
         /\ Cardinality(InUse(n, k, i)) \in Nat /\ Limit(k, i) \in Nat
<1>1. InUse(n, k, i) \subseteq Slots /\ IsFiniteSet(Slots)
  BY DEF InUse, Inbound, Outbound, IdentifyAssumption
<1>2. IsFiniteSet(InUse(n, k, i))
  BY <1>1, FS_Subset
<1>3. Cardinality(InUse(n, k, i)) \in Nat
  BY <1>2, FS_CardinalityType
<1>4. Limit(k, i) \in Nat
  BY DEF Limit, IdentifyAssumption
<1> QED
  BY <1>1, <1>2, <1>3, <1>4

(* No stream comes into use. *)
NoneJoins == \A t \in Slots : \A e \in {"in", "out"} :
  stream'[t][e] = "open" => /\ stream[t][e] = "open"
                            /\ stream'[t].kind = stream[t].kind
                            /\ stream'[t].from = stream[t].from

LEMMA FewerStreams ==
  ASSUME IdentifyAssumption, WithinStreamLimits,
         \A n \in Nodes, k \in Kinds, i \in BOOLEAN :
            InUse(n, k, i)' \subseteq InUse(n, k, i)
  PROVE  WithinStreamLimits'
<1>1. ASSUME NEW n \in Nodes, NEW k \in Kinds, NEW i \in BOOLEAN
      PROVE  Cardinality(InUse(n, k, i)') <= Limit(k, i)
  <2> DEFINE A == InUse(n, k, i)
             B == InUse(n, k, i)'
             m == Cardinality(A)
             l == Limit(k, i)
             j == Cardinality(B)
  <2>1. IsFiniteSet(A) /\ m \in Nat /\ l \in Nat
    BY Counted
  <2>2. B \subseteq A
    OBVIOUS
  <2>3. m <= l
    BY LimitsAre
  <2> HIDE DEF A, B
  <2>4. IsFiniteSet(B) /\ j <= m
    BY <2>1, <2>2, FS_Subset
  <2>5. j \in Nat
    BY <2>4, FS_CardinalityType
  <2> HIDE DEF m, l, j
  <2>6. j <= l
    BY <2>1, <2>3, <2>4, <2>5
  <2> QED
    BY <2>6 DEF j, l, B
<1> QED
  BY <1>1 DEF WithinStreamLimits, InUse, Limit

LEMMA NoneJoining ==
  ASSUME IdentifyAssumption, WithinStreamLimits, NoneJoins
  PROVE  WithinStreamLimits'
<1>1. \A n \in Nodes, k \in Kinds, i \in BOOLEAN :
        InUse(n, k, i)' \subseteq InUse(n, k, i)
  BY DEF NoneJoins, InUse, Inbound, Outbound
<1> QED
  BY <1>1, FewerStreams

(* One stream changes, and does not come into use. *)
LEMMA OneStream ==
  ASSUME TypeOK, IdentifyAssumption, WithinStreamLimits,
         NEW s \in Slots, NEW r, stream' = [stream EXCEPT ![s] = r],
         \A e \in {"in", "out"} : r[e] = "open" => /\ stream[s][e] = "open"
                                                   /\ r.kind = stream[s].kind
                                                   /\ r.from = stream[s].from
  PROVE  WithinStreamLimits'
<1>1. \A t \in Slots : stream'[t] = IF t = s THEN r ELSE stream[t]
  BY DEF TypeOK
<1>2. NoneJoins
  BY <1>1 DEF NoneJoins
<1> QED
  BY <1>2, NoneJoining

(* One comes into use at the end e of it, where there is room. *)
LEMMA OneJoins ==
  ASSUME TypeOK, IdentifyAssumption, WithinStreamLimits,
         NEW s \in Slots, NEW n \in Nodes, NEW k \in Kinds, NEW i \in BOOLEAN,
         ~Full(n, k, i),
         \A m \in Nodes, l \in Kinds, j \in BOOLEAN :
            InUse(m, l, j)' \subseteq IF m = n /\ l = k /\ j = i
                                      THEN InUse(n, k, i) \cup {s} ELSE InUse(m, l, j)
  PROVE  WithinStreamLimits'
<1>1. ASSUME NEW m \in Nodes, NEW l \in Kinds, NEW j \in BOOLEAN
      PROVE  Cardinality(InUse(m, l, j)') <= Limit(l, j)
  <2> DEFINE A == InUse(m, l, j)
             B == InUse(m, l, j)'
             C == A \cup {s}
             a == Cardinality(A)
             b == Cardinality(B)
             c == Cardinality(C)
             z == Limit(l, j)
  <2>1. IsFiniteSet(A) /\ a \in Nat /\ z \in Nat
    BY Counted
  <2>2. a <= z
    BY LimitsAre
  <2>3. \/ B \subseteq A
        \/ B \subseteq C /\ a # z
    <3>1. CASE m = n /\ l = k /\ j = i
      <4>1. a # z
        BY <3>1 DEF Full, InUse, Limit
      <4> QED
        BY <3>1, <4>1
    <3>2. CASE ~(m = n /\ l = k /\ j = i)
      BY <3>2
    <3> QED
      BY <3>1, <3>2
  <2> HIDE DEF A, B
  <2>4. IsFiniteSet(C) /\ c <= a + 1 /\ c \in Nat
    <3>1. IsFiniteSet(C) /\ (c = a \/ c = a + 1)
      BY <2>1, FS_AddElement
    <3>2. c \in Nat
      BY <3>1, FS_CardinalityType
    <3> HIDE DEF a, c, C
    <3> QED
      BY <2>1, <3>1, <3>2
  <2>5. CASE B \subseteq A
    <3>1. IsFiniteSet(B) /\ b <= a
      BY <2>1, <2>5, FS_Subset
    <3>2. b \in Nat
      BY <3>1, FS_CardinalityType
    <3> HIDE DEF a, b, z
    <3>3. b <= z
      BY <2>1, <2>2, <3>1, <3>2
    <3> QED
      BY <3>3 DEF b, z, B
  <2>6. CASE B \subseteq C /\ a # z
    <3> HIDE DEF C
    <3>1. IsFiniteSet(B) /\ b <= c
      BY <2>4, <2>6, FS_Subset
    <3>2. b \in Nat
      BY <3>1, FS_CardinalityType
    <3> HIDE DEF a, b, c, z
    <3>3. b <= z
      BY <2>1, <2>2, <2>4, <2>6, <3>1, <3>2
    <3> QED
      BY <3>3 DEF b, z, B
  <2> QED
    BY <2>3, <2>5, <2>6
<1> QED
  BY <1>1 DEF WithinStreamLimits, InUse, Limit

-----------------------------------------------------------------------------
(* The limits, step by step *)

LEMMA BrokenStep ==
  ASSUME TypeOK, IdentifyAssumption, WithinStreamLimits, NEW s \in Slots,
         stream' = [stream EXCEPT ![s] = NoStream]
  PROVE  WithinStreamLimits'
<1>1. \A e \in {"in", "out"} : NoStream[e] # "open"
  BY DEF NoStream
<1> QED
  BY <1>1, OneStream

LEMMA AcceptStep ==
  ASSUME TypeOK, IdentifyAssumption, WithinStreamLimits, NEW s \in Slots, Accept(s)
  PROVE  WithinStreamLimits'
<1> DEFINE r == stream[s]
           n == Other(r.from)
           x == [r EXCEPT !.in = "open"]
<1>1. r \in StreamRecord /\ r.in = "opening"
  BY InfoOfStreams, EmptyStream DEF Accept
<1>2. r.from \in Nodes /\ r.kind \in Kinds /\ n \in Nodes
  BY <1>1, TwoNodes DEF StreamRecord
<1>3. CASE Full(n, r.kind, TRUE)
  BY <1>3, BrokenStep DEF Accept, Broken
<1>4. CASE ~Full(n, r.kind, TRUE)
  <2>1. stream' = [stream EXCEPT ![s] = x]
    BY <1>4 DEF Accept, OnStream
  <2>2. \A t \in Slots : stream'[t] = IF t = s THEN x ELSE stream[t]
    BY <2>1 DEF TypeOK
  <2>3. x.from = r.from /\ x.kind = r.kind /\ x.out = r.out
    BY <1>1 DEF StreamRecord
  <2>4. \A m \in Nodes : Other(m) = r.from => m = n
    BY TwoNodes
  <2>5. ASSUME NEW m \in Nodes, NEW l \in Kinds
        PROVE  /\ Outbound(m, l)' \subseteq Outbound(m, l)
               /\ Inbound(m, l)' \subseteq IF m = n /\ l = r.kind
                                           THEN Inbound(n, r.kind) \cup {s}
                                           ELSE Inbound(m, l)
    <3>1. Outbound(m, l)' \subseteq Outbound(m, l)
      BY <2>2, <2>3 DEF Outbound
    <3>2. \A t \in Inbound(m, l)' : t \in Inbound(m, l) \/ (t = s /\ m = n /\ l = r.kind)
      BY <2>2, <2>3, <2>4 DEF Inbound
    <3> QED
      BY <3>1, <3>2
  <2> DEFINE i == TRUE
             k == r.kind
  <2>6. i \in BOOLEAN /\ ~Full(n, k, i)
    BY <1>4
  <2>7. \A m \in Nodes, l \in Kinds, j \in BOOLEAN :
          InUse(m, l, j)' \subseteq IF m = n /\ l = k /\ j = i
                                    THEN InUse(n, k, i) \cup {s} ELSE InUse(m, l, j)
    <3> HIDE DEF n, x, r
    <3> QED
      BY <2>5 DEF InUse
  <2>8. n \in Nodes /\ k \in Kinds
    BY <1>2
  <2> HIDE DEF n, x, r, i, k
  <2> QED
    BY <2>6, <2>7, <2>8, OneJoins
<1> QED
  BY <1>3, <1>4

LEMMA SelectStep ==
  ASSUME TypeOK, IdentifyAssumption, WithinStreamLimits, NEW s \in Slots, Select(s)
  PROVE  WithinStreamLimits'
<1> DEFINE r == stream[s]
           n == r.from
           x == [r EXCEPT !.out = "open"]
<1>1. r \in StreamRecord /\ r.out = "opening"
  BY InfoOfStreams, EmptyStream DEF Select
<1>2. n \in Nodes /\ r.kind \in Kinds
  BY <1>1 DEF StreamRecord
<1>3. CASE Full(n, r.kind, FALSE)
  BY <1>3, BrokenStep DEF Select, Broken
<1>4. CASE ~Full(n, r.kind, FALSE)
  <2>1. stream' = [stream EXCEPT ![s] = x]
    BY <1>4 DEF Select
  <2>2. \A t \in Slots : stream'[t] = IF t = s THEN x ELSE stream[t]
    BY <2>1 DEF TypeOK
  <2>3. x.from = r.from /\ x.kind = r.kind /\ x.in = r.in
    BY <1>1 DEF StreamRecord
  <2>4. ASSUME NEW m \in Nodes, NEW l \in Kinds
        PROVE  /\ Inbound(m, l)' \subseteq Inbound(m, l)
               /\ Outbound(m, l)' \subseteq IF m = n /\ l = r.kind
                                            THEN Outbound(n, r.kind) \cup {s}
                                            ELSE Outbound(m, l)
    <3>1. Inbound(m, l)' \subseteq Inbound(m, l)
      BY <2>2, <2>3 DEF Inbound
    <3>2. \A t \in Outbound(m, l)' : t \in Outbound(m, l) \/ (t = s /\ m = n /\ l = r.kind)
      BY <2>2, <2>3 DEF Outbound
    <3> QED
      BY <3>1, <3>2
  <2> DEFINE i == FALSE
             k == r.kind
  <2>5. i \in BOOLEAN /\ ~Full(n, k, i)
    BY <1>4
  <2>6. \A m \in Nodes, l \in Kinds, j \in BOOLEAN :
          InUse(m, l, j)' \subseteq IF m = n /\ l = k /\ j = i
                                    THEN InUse(n, k, i) \cup {s} ELSE InUse(m, l, j)
    <3> HIDE DEF n, x, r
    <3> QED
      BY <2>4 DEF InUse
  <2>7. n \in Nodes /\ k \in Kinds
    BY <1>2
  <2> HIDE DEF n, x, r, i, k
  <2> QED
    BY <2>5, <2>6, <2>7, OneJoins
<1> QED
  BY <1>3, <1>4

(* A stream that goes on, at an end that is then not in use. *)
LEMMA EndMoves ==
  ASSUME TypeOK, IdentifyAssumption, WithinStreamLimits,
         NEW s \in Slots, stream[s] # NoStream,
         \/ \E e \in {"closed", "verifying"} :
              stream' = [stream EXCEPT ![s] = [stream[s] EXCEPT !.in = e]]
         \/ \E e \in {"closed", "verifying"} :
              stream' = [stream EXCEPT ![s] = [stream[s] EXCEPT !.out = e]]
         \/ \E i \in Info :
              stream' = [stream EXCEPT ![s] = [stream[s] EXCEPT !.in = "closed", !.news = i]]
  PROVE  WithinStreamLimits'
<1> DEFINE r == stream[s]
<1>1. r \in StreamRecord
  BY InfoOfStreams
<1>2. CASE \E e \in {"closed", "verifying"} : stream' = [stream EXCEPT ![s] = [r EXCEPT !.in = e]]
  <2>1. PICK e \in {"closed", "verifying"} : stream' = [stream EXCEPT ![s] = [r EXCEPT !.in = e]]
    BY <1>2
  <2> DEFINE x == [r EXCEPT !.in = e]
  <2>2. x.in # "open" /\ x.out = r.out /\ x.kind = r.kind /\ x.from = r.from
    BY <1>1 DEF StreamRecord
  <2>3. stream' = [stream EXCEPT ![s] = x]
    BY <2>1
  <2> HIDE DEF x
  <2> QED
    BY <2>2, <2>3, OneStream
<1>3. CASE \E e \in {"closed", "verifying"} : stream' = [stream EXCEPT ![s] = [r EXCEPT !.out = e]]
  <2>1. PICK e \in {"closed", "verifying"} : stream' = [stream EXCEPT ![s] = [r EXCEPT !.out = e]]
    BY <1>3
  <2> DEFINE x == [r EXCEPT !.out = e]
  <2>2. x.out # "open" /\ x.in = r.in /\ x.kind = r.kind /\ x.from = r.from
    BY <1>1 DEF StreamRecord
  <2>3. stream' = [stream EXCEPT ![s] = x]
    BY <2>1
  <2> HIDE DEF x
  <2> QED
    BY <2>2, <2>3, OneStream
<1>4. CASE \E i \in Info : stream' = [stream EXCEPT ![s] = [r EXCEPT !.in = "closed", !.news = i]]
  <2>1. PICK i \in Info : stream' = [stream EXCEPT ![s] = [r EXCEPT !.in = "closed", !.news = i]]
    BY <1>4
  <2> DEFINE x == [r EXCEPT !.in = "closed", !.news = i]
  <2>2. x.in # "open" /\ x.out = r.out /\ x.kind = r.kind /\ x.from = r.from
    BY <1>1 DEF StreamRecord
  <2>3. stream' = [stream EXCEPT ![s] = x]
    BY <2>1
  <2> HIDE DEF x
  <2> QED
    BY <2>2, <2>3, OneStream
<1> QED
  BY <1>2, <1>3, <1>4

LEMMA StreamSteps ==
  ASSUME TypeOK, IdentifyAssumption, WithinStreamLimits, NEW s \in Slots, StreamStep(s)
  PROVE  WithinStreamLimits'
<1>1. CASE Accept(s)
  BY <1>1, AcceptStep
<1>2. CASE Select(s)
  BY <1>2, SelectStep
<1>3. CASE StreamFails(s) \/ StoreIdentify(s) \/ StorePush(s) \/ FetchAnswered(s)
           \/ PingAnswered(s)
  BY <1>3, BrokenStep DEF StreamFails, Broken, StoreIdentify, StorePush, Store,
                          FetchAnswered, PingAnswered, Answered
<1>4. CASE SendPush(s) \/ ReadPush(s) \/ ReceiveIdentify(s) \/ AnswerFetch(s)
  <2>1. stream[s] # NoStream
    BY <1>4, EmptyStream DEF SendPush, ReadPush, ReceiveIdentify, AnswerFetch
  <2> QED
    BY <1>4, <2>1, EndMoves DEF SendPush, ReadPush, ReceiveIdentify, AnswerFetch
<1>5. CASE AnswerIdentify(s)
  <2>1. stream[s] # NoStream
    BY <1>5, EmptyStream DEF AnswerIdentify
  <2>2. stream[s].from \in Nodes
    BY <2>1, InfoOfStreams DEF StreamRecord
  <2>3. self[Other(stream[s].from)] \in Info
    BY <2>2, TwoNodes DEF TypeOK
  <2>4. stream' = [stream EXCEPT ![s] =
          [stream[s] EXCEPT !.in = "closed", !.news = self[Other(stream[s].from)]]]
    BY <1>5 DEF AnswerIdentify
  <2> QED
    BY <2>1, <2>3, <2>4, EndMoves
<1> QED
  BY <1>1, <1>2, <1>3, <1>4, <1>5 DEF StreamStep

LEMMA LimitsKept ==
  ASSUME TypeOK, IdentifyAssumption, WithinStreamLimits, Next
  PROVE  WithinStreamLimits'
<1>1. ASSUME NEW s \in Slots, StreamStep(s) PROVE WithinStreamLimits'
  BY <1>1, StreamSteps
<1>2. ASSUME NEW n \in Nodes, NEW s \in Slots,
             OpenIdentify(n, s) \/ OpenPush(n, s) \/ Fetch(n, s) \/ Ping(n, s)
      PROVE  WithinStreamLimits'
  <2>1. PICK k \in Kinds : \E i : OpenStream(n, k, s, i)
    BY <1>2 DEF OpenIdentify, OpenPush, Fetch, Ping, Request, Kinds
  <2>2. PICK i : OpenStream(n, k, s, i)
    BY <2>1
  <2> DEFINE x == [kind |-> k, from |-> n, out |-> "opening", in |-> "opening", news |-> i]
  <2>3. stream' = [stream EXCEPT ![s] = x]
    BY <2>2 DEF OpenStream
  <2>4. \A e \in {"in", "out"} : x[e] # "open"
    OBVIOUS
  <2> HIDE DEF x
  <2> QED
    BY <2>3, <2>4, OneStream
<1>3. CASE Closes
  <2>1. \A t \in Slots : stream'[t] = stream[t] \/ stream'[t] = NoStream
    BY <1>3 DEF Closes
  <2>2. NoneJoins
    BY <2>1 DEF NoneJoins, NoStream
  <2> QED
    BY <2>2, NoneJoining
<1>4. CASE UNCHANGED stream
  BY <1>4, NoneJoining DEF NoneJoins
<1>5. ASSUME NEW n \in Nodes, \/ SkipPush(n) \/ UpdatePeerRecord(n) \/ TellTopologies(n)
                              \/ Handle(n) \/ Unhandle(n)
      PROVE  UNCHANGED stream
  BY <1>5 DEF SkipPush, UpdatePeerRecord, TellTopologies, Handle, Unhandle,
              RegistrarHandle, RegistrarUnhandle, Tells
<1> QED
  BY <1>1, <1>2, <1>3, <1>4, <1>5 DEF Next, Opens

-----------------------------------------------------------------------------
(* Types *)

Streams == StreamRecord \cup {NoStream}

LEMMA StreamTypes ==
  ASSUME TypeOK, NEW s \in Slots, NEW r \in Streams, stream' = [stream EXCEPT ![s] = r],
         UNCHANGED <<link, self, book, due, events, told>>
  PROVE  TypeOK'
BY DEF TypeOK, Streams

LEMMA NoStreamTyped == NoStream \in Streams
BY DEF Streams

LEMMA EndTyped ==
  ASSUME NEW r \in StreamRecord, NEW e \in Ends, NEW i \in Info
  PROVE  /\ [r EXCEPT !.in = e] \in Streams /\ [r EXCEPT !.out = e] \in Streams
         /\ [r EXCEPT !.in = e, !.news = i] \in Streams
BY DEF StreamRecord, Streams

LEMMA AcceptTypes ==
  ASSUME TypeOK, IdentifyAssumption, NEW s \in Slots, Accept(s)
  PROVE  TypeOK'
<1> DEFINE r == stream[s]
           n == Other(r.from)
<1>1. r \in StreamRecord /\ n \in Nodes
  <2>1. r \in StreamRecord
    BY InfoOfStreams, EmptyStream DEF Accept
  <2> QED
    BY <2>1, TwoNodes DEF StreamRecord
<1>2. CASE Full(n, r.kind, TRUE)
  BY <1>2, NoStreamTyped, StreamTypes DEF Accept, Broken
<1>3. CASE ~Full(n, r.kind, TRUE)
  <2>1. /\ stream' = [stream EXCEPT ![s] = [r EXCEPT !.in = "open"]]
        /\ book' = [book EXCEPT ![n] =
                      [book[n] EXCEPT !.known = book[n].known \/ r.kind = "push"]]
        /\ UNCHANGED <<link, self, due, events, told>>
    BY <1>3 DEF Accept, OnStream
  <2>2. [r EXCEPT !.in = "open"] \in Streams
    BY <1>1 DEF StreamRecord, Streams, Ends
  <2>3. stream' \in [Slots -> Streams]
    BY <2>1, <2>2 DEF TypeOK, Streams
  <2>4. book[n] \in Info
    BY <1>1 DEF TypeOK
  <2>5. [book[n] EXCEPT !.known = book[n].known \/ r.kind = "push"] \in Info
    BY <2>4 DEF Info
  <2>6. book' \in [Nodes -> Info]
    BY <2>1, <2>5 DEF TypeOK
  <2> QED
    BY <2>1, <2>3, <2>6 DEF TypeOK, Streams
<1> QED
  BY <1>2, <1>3

LEMMA StoreTypes ==
  ASSUME TypeOK, NEW n \in Nodes, NEW s \in Slots, stream[s] # NoStream, Store(n, s)
  PROVE  TypeOK'
<1> DEFINE news == stream[s].news
<1>1. news \in Info
  BY InfoOfStreams DEF StreamRecord
<1>2. /\ stream' = [stream EXCEPT ![s] = NoStream]
      /\ book' = [book EXCEPT ![n] = news]
      /\ told' = [told EXCEPT ![n] = ToldOf(n, news.protos)]
      /\ UNCHANGED <<link, self, due, events>>
  BY DEF Store
<1> HIDE DEF news
<1>3. ToldOf(n, news.protos) \in SUBSET Topologies
  BY DEF ToldOf, TypeOK
<1> QED
  BY <1>1, <1>2, <1>3 DEF TypeOK

LEMMA StreamStepTypes ==
  ASSUME TypeOK, IdentifyAssumption, NEW s \in Slots, StreamStep(s)
  PROVE  TypeOK'
<1>1. CASE Accept(s)
  BY <1>1, AcceptTypes
<1>2. CASE Select(s)
  <2>1. stream[s] \in StreamRecord
    BY <1>2, InfoOfStreams, EmptyStream DEF Select
  <2>2. [stream[s] EXCEPT !.out = "open"] \in Streams
    BY <2>1 DEF StreamRecord, Streams, Ends
  <2>3. \/ stream' = [stream EXCEPT ![s] = NoStream]
        \/ stream' = [stream EXCEPT ![s] = [stream[s] EXCEPT !.out = "open"]]
    BY <1>2 DEF Select, Broken
  <2> QED
    BY <1>2, <2>2, <2>3, NoStreamTyped, StreamTypes DEF Select
<1>3. CASE StreamFails(s) \/ FetchAnswered(s) \/ PingAnswered(s)
  BY <1>3, NoStreamTyped, StreamTypes DEF StreamFails, Broken, FetchAnswered,
                                          PingAnswered, Answered
<1>4. CASE SendPush(s) \/ ReadPush(s) \/ ReceiveIdentify(s) \/ AnswerFetch(s)
  <2>1. stream[s] \in StreamRecord
    BY <1>4, InfoOfStreams, EmptyStream DEF SendPush, ReadPush, ReceiveIdentify, AnswerFetch
  <2>2. /\ [stream[s] EXCEPT !.out = "closed"] \in Streams
        /\ [stream[s] EXCEPT !.out = "verifying"] \in Streams
        /\ [stream[s] EXCEPT !.in = "closed"] \in Streams
        /\ [stream[s] EXCEPT !.in = "verifying"] \in Streams
    BY <2>1 DEF StreamRecord, Streams, Ends
  <2>3. \/ stream' = [stream EXCEPT ![s] = [stream[s] EXCEPT !.out = "closed"]]
        \/ stream' = [stream EXCEPT ![s] = [stream[s] EXCEPT !.out = "verifying"]]
        \/ stream' = [stream EXCEPT ![s] = [stream[s] EXCEPT !.in = "closed"]]
        \/ stream' = [stream EXCEPT ![s] = [stream[s] EXCEPT !.in = "verifying"]]
    BY <1>4 DEF SendPush, ReadPush, ReceiveIdentify, AnswerFetch
  <2>4. UNCHANGED <<link, self, book, due, events, told>>
    BY <1>4 DEF SendPush, ReadPush, ReceiveIdentify, AnswerFetch
  <2> QED
    BY <2>2, <2>3, <2>4, StreamTypes
<1>5. CASE AnswerIdentify(s)
  <2>1. stream[s] \in StreamRecord
    BY <1>5, InfoOfStreams, EmptyStream DEF AnswerIdentify
  <2> DEFINE i == self[Other(stream[s].from)]
             x == [stream[s] EXCEPT !.in = "closed", !.news = i]
  <2>2. i \in Info
    BY <2>1, TwoNodes DEF StreamRecord, TypeOK
  <2>3. stream' = [stream EXCEPT ![s] = x]
    BY <1>5 DEF AnswerIdentify
  <2>4. x \in Streams
    BY <2>1, <2>2, EndTyped DEF Ends
  <2> HIDE DEF x
  <2> QED
    BY <1>5, <2>3, <2>4, StreamTypes DEF AnswerIdentify
<1>6. CASE StoreIdentify(s) \/ StorePush(s)
  <2>1. stream[s] # NoStream
    BY <1>6, EmptyStream DEF StoreIdentify, StorePush
  <2>2. stream[s].from \in Nodes /\ Other(stream[s].from) \in Nodes
    BY <2>1, InfoOfStreams, TwoNodes DEF StreamRecord
  <2> QED
    BY <1>6, <2>1, <2>2, StoreTypes DEF StoreIdentify, StorePush
<1> QED
  BY <1>1, <1>2, <1>3, <1>4, <1>5, <1>6 DEF StreamStep

LEMMA OpenTypes ==
  ASSUME TypeOK, NEW n \in Nodes, NEW s \in Slots,
         OpenIdentify(n, s) \/ OpenPush(n, s) \/ Fetch(n, s) \/ Ping(n, s)
  PROVE  TypeOK'
<1>1. \E k \in Kinds, i \in Info : OpenStream(n, k, s, i)
  BY DEF OpenIdentify, OpenPush, Fetch, Ping, Request, Kinds, Unknown, Info, TypeOK
<1>2. PICK k \in Kinds, i \in Info : OpenStream(n, k, s, i)
  BY <1>1
<1> DEFINE x == [kind |-> k, from |-> n, out |-> "opening", in |-> "opening", news |-> i]
<1>3. x \in Streams
  BY DEF Streams, StreamRecord, Ends
<1>4. stream' = [stream EXCEPT ![s] = x]
  BY <1>2 DEF OpenStream
<1> HIDE DEF x
<1>5. stream' \in [Slots -> Streams]
  BY <1>3, <1>4 DEF TypeOK, Streams
<1>6. due[n] \in Due
  BY DEF TypeOK
<1>7. due' \in [Nodes -> Due]
  <2>1. CASE OpenIdentify(n, s)
    <3>1. due' = [due EXCEPT ![n] = [due[n] EXCEPT !.identify = 0]]
      BY <2>1 DEF OpenIdentify
    <3>2. [due[n] EXCEPT !.identify = 0] \in Due
      BY <1>6 DEF Due
    <3> QED
      BY <3>1, <3>2 DEF TypeOK
  <2>2. CASE OpenPush(n, s)
    <3>1. due' = [due EXCEPT ![n] = [due[n] EXCEPT !.push = due[n].push - 1]]
          /\ due[n].push > 0
      BY <2>2 DEF OpenPush
    <3>2. [due[n] EXCEPT !.push = due[n].push - 1] \in Due
      BY <1>6, <3>1 DEF Due
    <3> QED
      BY <3>1, <3>2 DEF TypeOK
  <2>3. CASE Fetch(n, s) \/ Ping(n, s)
    BY <2>3 DEF Fetch, Ping, Request, TypeOK
  <2> QED
    BY <2>1, <2>2, <2>3
<1>8. UNCHANGED <<link, self, book, events, told>>
  BY DEF OpenIdentify, OpenPush, Fetch, Ping, Request
<1> QED
  BY <1>5, <1>7, <1>8 DEF TypeOK, Streams

LEMMA NodeTypes ==
  ASSUME TypeOK, IdentifyAssumption, NEW n \in Nodes,
         \/ SkipPush(n) \/ UpdatePeerRecord(n) \/ TellTopologies(n)
         \/ Handle(n) \/ Unhandle(n)
  PROVE  TypeOK'
<1>1. due[n] \in Due /\ self[n] \in Info /\ told[n] \subseteq Topologies
  BY DEF TypeOK
<1>2. CASE SkipPush(n)
  <2>1. /\ due' = [due EXCEPT ![n] = [due[n] EXCEPT !.push = due[n].push - 1]]
        /\ due[n].push > 0 /\ UNCHANGED <<link, self, book, stream, events, told>>
    BY <1>2 DEF SkipPush
  <2>2. [due[n] EXCEPT !.push = due[n].push - 1] \in Due
    BY <1>1, <2>1 DEF Due
  <2> QED
    BY <2>1, <2>2 DEF TypeOK
<1>3. ASSUME NEW P \in SUBSET Protos, Tells(n, P) PROVE TypeOK'
  <2>1. /\ self' = [self EXCEPT ![n] =
                      [self[n] EXCEPT !.version = self[n].version + 1, !.protos = P]]
        /\ due' = [due EXCEPT ![n] = [due[n] EXCEPT !.push = due[n].push + 1]]
        /\ UNCHANGED <<link, book, stream, events, told>>
    BY <1>3 DEF Tells, PushDue
  <2>2. [self[n] EXCEPT !.version = self[n].version + 1, !.protos = P] \in Info
    <3> DEFINE r == self[n]
               v == self[n].version + 1
    <3>1. r \in Info /\ v \in Nat
      BY <1>1 DEF Info
    <3> HIDE DEF r, v
    <3>2. [r EXCEPT !.version = v, !.protos = P] \in Info
      BY <1>3, <3>1 DEF Info
    <3> QED
      BY <3>2 DEF r, v
  <2>3. [due[n] EXCEPT !.push = due[n].push + 1] \in Due
    BY <1>1 DEF Due
  <2>4. self' \in [Nodes -> Info]
    BY <2>1, <2>2 DEF TypeOK
  <2>5. due' \in [Nodes -> Due]
    BY <2>1, <2>3 DEF TypeOK
  <2> QED
    BY <2>1, <2>4, <2>5 DEF TypeOK
<1>4. CASE Handle(n) \/ Unhandle(n) \/ UpdatePeerRecord(n)
  <2>1. \E P \in SUBSET Protos : Tells(n, P)
    BY <1>1, <1>4 DEF Handle, Unhandle, RegistrarHandle, RegistrarUnhandle,
                      UpdatePeerRecord, Info
  <2> QED
    BY <1>3, <2>1
<1>5. CASE TellTopologies(n)
  <2>1. events' \in [Nodes -> Seq({"connect", "disconnect"})]
    <3>1. events[n] \in Seq({"connect", "disconnect"}) /\ events[n] # <<>>
      BY <1>5 DEF TellTopologies, TypeOK
    <3>2. Tail(events[n]) \in Seq({"connect", "disconnect"})
      BY <3>1
    <3> QED
      BY <1>5, <3>2 DEF TellTopologies, TypeOK
  <2>2. told' \in [Nodes -> SUBSET Topologies]
    BY <1>1, <1>5 DEF TellTopologies, TypeOK
  <2> QED
    BY <1>5, <2>1, <2>2 DEF TellTopologies, TypeOK
<1> QED
  BY <1>2, <1>4, <1>5

LEMMA LinkTypes ==
  ASSUME TypeOK, Opens \/ Closes
  PROVE  TypeOK'
<1>1. \A n \in Nodes : due[n] \in Due /\ events[n] \in Seq({"connect", "disconnect"})
  BY DEF TypeOK
<1>2. \A n \in Nodes : \A e \in {0, 1} : [due[n] EXCEPT !.identify = e] \in Due
  BY <1>1 DEF Due
<1>3. \A n \in Nodes : \A e \in {"connect", "disconnect"} :
        Append(events[n], e) \in Seq({"connect", "disconnect"})
  BY <1>1
<1>4. CASE Opens
  <2>1. link' \in [open: BOOLEAN, count: Nat]
    BY <1>4 DEF Opens, TypeOK
  <2>2. due' \in [Nodes -> Due] /\ events' \in [Nodes -> Seq({"connect", "disconnect"})]
    BY <1>2, <1>3, <1>4 DEF Opens
  <2> QED
    BY <1>4, <2>1, <2>2 DEF Opens, TypeOK
<1>5. CASE Closes
  <2>1. link' \in [open: BOOLEAN, count: Nat]
    BY <1>5 DEF Closes, TypeOK
  <2>2. due' \in [Nodes -> Due] /\ events' \in [Nodes -> Seq({"connect", "disconnect"})]
    BY <1>2, <1>3, <1>5 DEF Closes
  <2>3. stream' \in [Slots -> StreamRecord \cup {NoStream}]
    BY <1>5 DEF Closes, TypeOK
  <2> QED
    BY <1>5, <2>1, <2>2, <2>3 DEF Closes, TypeOK
<1> QED
  BY <1>4, <1>5

LEMMA TypesKept ==
  ASSUME TypeOK, IdentifyAssumption, Next
  PROVE  TypeOK'
BY StreamStepTypes, OpenTypes, NodeTypes, LinkTypes DEF Next

-----------------------------------------------------------------------------
(* What has been told *)

ToldInv == ToldKnown /\ LastEvent /\ ToldAgrees

(* A step that changes none of this. *)
LEMMA ToldSame ==
  ASSUME ToldInv, UNCHANGED <<link, events, told>>,
         \A n \in Nodes : book'[n].protos = book[n].protos
  PROVE  ToldInv'
BY DEF ToldInv, ToldKnown, LastEvent, ToldAgrees

LEMMA ToldStore ==
  ASSUME TypeOK, ToldInv, NEW n \in Nodes, NEW s \in Slots, stream[s] # NoStream,
         Store(n, s)
  PROVE  ToldInv'
<1> DEFINE news == stream[s].news
<1>1. /\ book' = [book EXCEPT ![n] = news]
      /\ told' = [told EXCEPT ![n] = ToldOf(n, news.protos)]
      /\ UNCHANGED <<link, events>>
  BY DEF Store
<1> HIDE DEF news
<1>2. \A m \in Nodes : /\ book'[m] = IF m = n THEN news ELSE book[m]
                       /\ told'[m] = IF m = n THEN ToldOf(n, news.protos) ELSE told[m]
  BY <1>1 DEF TypeOK
<1>3. told[n] \subseteq book[n].protos /\ told[n] \subseteq Topologies
  BY DEF ToldInv, ToldKnown, TypeOK
<1>4. ToldOf(n, news.protos) \subseteq news.protos
  BY <1>3 DEF ToldOf
<1>5. ASSUME told[n] = IF link.open THEN book[n].protos \cap Topologies ELSE {}
      PROVE  ToldOf(n, news.protos) = IF link.open THEN news.protos \cap Topologies ELSE {}
  BY <1>5 DEF ToldOf
<1>6. ToldKnown' /\ LastEvent'
  BY <1>1, <1>2, <1>4 DEF ToldInv, ToldKnown, LastEvent
<1>7. ToldAgrees'
  BY <1>1, <1>2, <1>5 DEF ToldInv, ToldAgrees
<1> QED
  BY <1>6, <1>7 DEF ToldInv

LEMMA ToldAccept ==
  ASSUME TypeOK, IdentifyAssumption, ToldInv, NEW s \in Slots, Accept(s)
  PROVE  ToldInv'
<1> DEFINE r == stream[s]
           n == Other(r.from)
<1>1. UNCHANGED <<link, events, told>>
  BY DEF Accept
<1>2. CASE UNCHANGED book
  BY <1>1, <1>2, ToldSame
<1>3. CASE ~UNCHANGED book
  <2>1. book' = [book EXCEPT ![n] = [book[n] EXCEPT !.known = book[n].known \/ r.kind = "push"]]
    BY <1>3 DEF Accept
  <2>2. \A m \in Nodes : book[m] \in Info
    BY DEF TypeOK
  <2> DEFINE x == [book[n] EXCEPT !.known = book[n].known \/ r.kind = "push"]
  <2>3. n \in Nodes => x.protos = book[n].protos
    BY <2>2 DEF Info
  <2>4. book' = [book EXCEPT ![n] = x]
    BY <2>1
  <2> HIDE DEF n, x
  <2>5. \A m \in Nodes : book'[m].protos = book[m].protos
    BY <2>3, <2>4 DEF TypeOK
  <2> QED
    BY <1>1, <2>5, ToldSame
<1> QED
  BY <1>2, <1>3

(* The registrar handles the oldest event; after the last, what it has told *)
(* is what the book says of a connected peer.                               *)
LEMMA ToldTell ==
  ASSUME TypeOK, ToldInv, NEW n \in Nodes, TellTopologies(n)
  PROVE  ToldInv'
<1> DEFINE e == events[n]
           T == IF Head(e) = "connect"
                THEN told[n] \cup (book[n].protos \cap Topologies)
                ELSE told[n] \ book[n].protos
<1>1. /\ e # <<>> /\ e \in Seq({"connect", "disconnect"})
      /\ events' = [events EXCEPT ![n] = Tail(e)]
      /\ told' = [told EXCEPT ![n] = T]
      /\ UNCHANGED <<link, book>>
  BY DEF TellTopologies, TypeOK
<1>2. told[n] \subseteq book[n].protos /\ told[n] \subseteq Topologies
  BY DEF ToldInv, ToldKnown, TypeOK
<1>3. T \subseteq book[n].protos
  BY <1>2
<1>4. e[Len(e)] = IF link.open THEN "connect" ELSE "disconnect"
  BY <1>1 DEF ToldInv, LastEvent
<1>5. ASSUME Tail(e) = <<>>
      PROVE  T = IF link.open THEN book[n].protos \cap Topologies ELSE {}
  <2>1. Head(e) = e[Len(e)]
    <3> HIDE DEF e
    <3>1. Len(Tail(e)) = Len(e) - 1 /\ Len(e) \in Nat
      BY <1>1
    <3>2. Len(Tail(e)) = 0
      <4>1. Tail(e) = << >>
        BY <1>5
      <4>2. Len(<< >>) = 0
        OBVIOUS
      <4> QED
        BY <4>1, <4>2, Zenon
    <3>3. Len(e) = 1
      BY <3>1, <3>2
    <3> QED
      BY <1>1, <3>3
  <2> QED
    BY <1>2, <1>4, <2>1
<1>6. ASSUME Tail(e) # <<>>
      PROVE  Tail(e)[Len(Tail(e))] = IF link.open THEN "connect" ELSE "disconnect"
  <2>1. Tail(e)[Len(Tail(e))] = e[Len(e)]
    <3> HIDE DEF e
    <3>1. Len(Tail(e)) = Len(e) - 1 /\ Len(e) \in Nat /\ Len(e) > 1
      BY <1>1, <1>6
    <3> QED
      BY <1>1, <3>1
  <2> QED
    BY <1>4, <2>1
<1> HIDE DEF T, e
<1>7. \A m \in Nodes : /\ events'[m] = IF m = n THEN Tail(e) ELSE events[m]
                       /\ told'[m] = IF m = n THEN T ELSE told[m]
  BY <1>1 DEF TypeOK
<1>8. ToldKnown'
  BY <1>1, <1>3, <1>7 DEF ToldInv, ToldKnown
<1>9. LastEvent'
  BY <1>1, <1>6, <1>7 DEF ToldInv, LastEvent
<1>10. ToldAgrees'
  BY <1>1, <1>5, <1>7 DEF ToldInv, ToldAgrees
<1> QED
  BY <1>8, <1>9, <1>10 DEF ToldInv

LEMMA ToldLink ==
  ASSUME TypeOK, ToldInv, Opens \/ Closes
  PROVE  ToldInv'
<1> DEFINE now == IF link'.open THEN "connect" ELSE "disconnect"
<1>1. UNCHANGED <<book, told>>
  BY DEF Opens, Closes
<1>2. link \in [open: BOOLEAN, count: Nat]
  BY DEF TypeOK
<1>3. \A n \in Nodes : events'[n] = Append(events[n], now)
  BY <1>2 DEF Opens, Closes
<1> HIDE DEF now
<1>4. ASSUME NEW n \in Nodes
      PROVE  events'[n] # <<>> /\ events'[n][Len(events'[n])] = now
  <2>1. events[n] \in Seq({"connect", "disconnect"})
    BY DEF TypeOK
  <2> QED
    BY <1>3, <2>1
<1> QED
  BY <1>1, <1>4 DEF ToldInv, ToldKnown, LastEvent, ToldAgrees, now

LEMMA ToldKept ==
  ASSUME TypeOK, IdentifyAssumption, ToldInv, Next
  PROVE  ToldInv'
<1>1. ASSUME NEW s \in Slots, StreamStep(s) PROVE ToldInv'
  <2>1. CASE Accept(s)
    BY <2>1, ToldAccept
  <2>2. CASE StoreIdentify(s) \/ StorePush(s)
    <3>1. stream[s] # NoStream
      BY <2>2, EmptyStream DEF StoreIdentify, StorePush
    <3>2. stream[s].from \in Nodes /\ Other(stream[s].from) \in Nodes
      BY <3>1, InfoOfStreams, TwoNodes DEF StreamRecord
    <3> QED
      BY <2>2, <3>1, <3>2, ToldStore DEF StoreIdentify, StorePush
  <2>3. CASE UNCHANGED <<link, events, told, book>>
    BY <2>3, ToldSame
  <2>4. \/ Accept(s) \/ StoreIdentify(s) \/ StorePush(s)
        \/ UNCHANGED <<link, events, told, book>>
    BY <1>1 DEF StreamStep, StreamFails, Select, SendPush, ReadPush, AnswerIdentify,
                ReceiveIdentify, AnswerFetch, FetchAnswered, PingAnswered, Answered
  <2> QED
    BY <2>1, <2>2, <2>3, <2>4
<1>2. ASSUME NEW n \in Nodes, NEW s \in Slots,
             OpenIdentify(n, s) \/ OpenPush(n, s) \/ Fetch(n, s) \/ Ping(n, s)
      PROVE  UNCHANGED <<link, events, told, book>>
  BY <1>2 DEF OpenIdentify, OpenPush, Fetch, Ping, Request
<1>3. ASSUME NEW n \in Nodes, SkipPush(n) \/ UpdatePeerRecord(n) \/ Handle(n) \/ Unhandle(n)
      PROVE  UNCHANGED <<link, events, told, book>>
  BY <1>3 DEF SkipPush, UpdatePeerRecord, Handle, Unhandle, RegistrarHandle,
              RegistrarUnhandle, Tells
<1>4. CASE UNCHANGED <<link, events, told, book>>
  BY <1>4, ToldSame
<1> QED
  BY <1>1, <1>2, <1>3, <1>4, ToldTell, ToldLink DEF Next

-----------------------------------------------------------------------------
(* The invariant *)

LEMMA IdentifyInitially ==
  ASSUME Init, IdentifyAssumption
  PROVE  IdentifyInv
<1>1. TypeOK
  <2>1. Unknown \in Info /\ [version |-> 1, protos |-> {}, known |-> TRUE] \in Info
    BY DEF Info, Unknown
  <2>2. [identify |-> 0, push |-> 0] \in Due /\ <<>> \in Seq({"connect", "disconnect"})
    BY DEF Due
  <2> QED
    BY <2>1, <2>2 DEF Init, TypeOK
<1>2. ToldKnown /\ LastEvent /\ ToldAgrees
  BY DEF Init, ToldKnown, LastEvent, ToldAgrees
<1>3. WithinStreamLimits
  <2>1. ASSUME NEW n \in Nodes, NEW k \in Kinds
        PROVE  Inbound(n, k) = {} /\ Outbound(n, k) = {}
    BY DEF Init, Inbound, Outbound, NoStream
  <2>2. \A k \in Kinds : MaxInbound[k] \in Nat /\ MaxOutbound[k] \in Nat
    BY DEF IdentifyAssumption
  <2> QED
    BY <2>1, <2>2, FS_EmptySet DEF WithinStreamLimits
<1> QED
  BY <1>1, <1>2, <1>3 DEF IdentifyInv

LEMMA IdentifyKept ==
  ASSUME IdentifyInv, IdentifyAssumption, [Next]_vars
  PROVE  IdentifyInv'
<1>1. CASE Next
  BY <1>1, TypesKept, ToldKept, LimitsKept DEF IdentifyInv, ToldInv
<1>2. CASE UNCHANGED vars
  <2>1. WithinStreamLimits'
    BY <1>2, NoneJoining DEF vars, NoneJoins, IdentifyInv
  <2>2. TypeOK' /\ ToldKnown' /\ LastEvent' /\ ToldAgrees'
    BY <1>2 DEF vars, IdentifyInv, TypeOK, ToldKnown, LastEvent, ToldAgrees
  <2> QED
    BY <2>1, <2>2 DEF IdentifyInv
<1> QED
  BY <1>1, <1>2

THEOREM IdentifyInvariant == Spec => []IdentifyInv
<1>1. IdentifyAssumption /\ Init => IdentifyInv
  BY IdentifyInitially
<1>2. IdentifyAssumption /\ IdentifyInv /\ [Next]_vars => IdentifyInv'
  BY IdentifyKept
<1> QED
  BY <1>1, <1>2, IdentifyAssumption, PTL DEF Spec

(* Neither node has more streams of a protocol in use than its handler       *)
(* allows, though they are counted only once they are negotiated             *)
(* (upgrader.ts).                                                            *)
THEOREM StreamLimitsHold == Spec => []WithinStreamLimits
<1>1. IdentifyInv => WithinStreamLimits
  BY DEF IdentifyInv
<1> QED
  BY <1>1, IdentifyInvariant, PTL

(* When no connection event is left, the topologies told of the peer are     *)
(* those of the protocols it is known to speak (registrar.ts).               *)
THEOREM TopologiesAgree == Spec => []ToldAgrees
<1>1. IdentifyInv => ToldAgrees
  BY DEF IdentifyInv
<1> QED
  BY <1>1, IdentifyInvariant, PTL

-----------------------------------------------------------------------------
(* What is known of the other node.  An invariant that says only that the    *)
(* book is right once nothing is left is not kept by the steps before that:  *)
(* while it is not right, something must be on its way that will tell, and   *)
(* what is stored must be no newer than what the other node tells.           *)

(* What may be known of n: nothing that n has not told yet. *)
IsNews(i, n) == /\ i.version <= self[n].version
                /\ i.version = self[n].version => i = self[n]

TrueStream(r) == /\ \A n \in Teller(r) : IsNews(r.news, n)
                 /\ r.kind = "identify" /\ r.out = "verifying" => r.in = "closed"

TrueNews ==
  /\ \A n \in Nodes : self[n].version > 0 /\ self[n].known /\ IsNews(book[Other(n)], n)
  /\ \A s \in Slots : TrueStream(stream[s])

(* The stream r carries what n now tells, or will be answered with it. *)
Carries(r, n) ==
  /\ n \in Teller(r)
  /\ r.news = self[n] \/ (r.kind = "identify" /\ r.in \in {"opening", "open"})

(* Without the streams, and with the stream r. *)
Settled(n) == \/ book[Other(n)] = self[n] \/ n \in missed
              \/ due[n].push > 0 \/ due[Other(n)].identify > 0
SettledWith(n, r) == Settled(n) \/ Carries(r, n)

NewsComing == link.open =>
  \A n \in Nodes : Settled(n) \/ \E s \in Slots : Carries(stream[s], n)

NewsInv == TypeOK /\ TrueNews /\ NewsComing

LEMMA NothingTold ==
  /\ Teller(NoStream) = {} /\ TrueStream(NoStream)
  /\ \A n \in Nodes : ~Carries(NoStream, n)
BY DEF NoStream, Teller, TrueStream, Carries

LEMMA TellerIs ==
  ASSUME IdentifyAssumption, TypeOK, NEW s \in Slots, NEW n \in Nodes, n \in Teller(stream[s])
  PROVE  /\ stream[s] \in StreamRecord
         /\ \/ stream[s].kind = "push" /\ stream[s].from = n
            \/ stream[s].kind = "identify" /\ stream[s].from = Other(n)
<1>1. stream[s] # NoStream
  BY NothingTold
<1>2. stream[s] \in StreamRecord
  BY <1>1, InfoOfStreams
<1>3. stream[s].from \in Nodes /\ Other(Other(stream[s].from)) = stream[s].from
  BY <1>2, TwoNodes DEF StreamRecord
<1> QED
  BY <1>2, <1>3 DEF Teller

(* One stream becomes r, whatever else changes with it: the news are still   *)
(* on their way if those of the stream s are.                                *)
LEMMA StreamNews ==
  ASSUME NewsInv, TypeOK', NEW s \in Slots, NEW r, stream' = [stream EXCEPT ![s] = r],
         UNCHANGED <<link, self>>, TrueStream(r),
         \A n \in Nodes : IsNews(book'[Other(n)], n),
         \A n \in Nodes : SettledWith(n, stream[s]) =>
            \/ book'[Other(n)] = self[n] \/ n \in missed'
            \/ due'[n].push > 0 \/ due'[Other(n)].identify > 0 \/ Carries(r, n)
  PROVE  NewsInv'
<1>1. \A t \in Slots : stream'[t] = IF t = s THEN r ELSE stream[t]
  BY DEF NewsInv, TypeOK
<1>2. \A t \in Slots : TrueStream(stream'[t])
  BY <1>1 DEF NewsInv, TrueNews
<1>3. TrueNews'
  BY <1>2 DEF NewsInv, TrueNews, TrueStream, IsNews
<1>4. NewsComing'
  <2>1. SUFFICES ASSUME link.open, NEW n \in Nodes
                 PROVE  Settled(n)' \/ \E t \in Slots : Carries(stream[t], n)'
    BY DEF NewsComing
  <2>2. \A t \in Slots : Carries(stream[t], n)' <=> Carries(stream'[t], n)
    BY DEF Carries
  <2>3. SettledWith(n, stream[s]) \/ \E t \in Slots \ {s} : Carries(stream[t], n)
    BY <2>1 DEF NewsInv, NewsComing, SettledWith
  <2>4. CASE \E t \in Slots \ {s} : Carries(stream[t], n)
    BY <1>1, <2>2, <2>4
  <2>5. CASE SettledWith(n, stream[s])
    BY <1>1, <2>2, <2>5 DEF Settled
  <2> QED
    BY <2>3, <2>4, <2>5
<1> QED
  BY <1>3, <1>4 DEF NewsInv

(* The stream goes on with what it carries. *)
LEMMA GoesOn ==
  ASSUME NewsInv, TypeOK', NEW s \in Slots, NEW r, stream' = [stream EXCEPT ![s] = r],
         UNCHANGED <<link, self, book, due, missed>>, TrueStream(r),
         \A n \in Nodes : Carries(stream[s], n) => Carries(r, n)
  PROVE  NewsInv'
<1>1. \A n \in Nodes : IsNews(book'[Other(n)], n)
  BY DEF NewsInv, TrueNews
<1> QED
  BY <1>1, StreamNews DEF SettledWith, Settled

LEMMA BrokenNews ==
  ASSUME NewsInv, TypeOK', NEW s \in Slots, Broken(s), UNCHANGED <<link, self, book, due>>
  PROVE  NewsInv'
<1>1. \A n \in Nodes : IsNews(book'[Other(n)], n)
  BY DEF NewsInv, TrueNews
<1>2. \A n \in Nodes : SettledWith(n, stream[s]) => n \in missed' \/ Settled(n)
  BY DEF SettledWith, Carries, Broken
<1>3. missed \subseteq missed' /\ stream' = [stream EXCEPT ![s] = NoStream]
  BY DEF Broken
<1> DEFINE r == NoStream
<1>4. TrueStream(r)
  BY NothingTold
<1>5. stream' = [stream EXCEPT ![s] = r]
  BY <1>3
<1> HIDE DEF r
<1> QED
  BY <1>1, <1>2, <1>3, <1>4, <1>5, StreamNews DEF Settled

LEMMA AcceptNews ==
  ASSUME IdentifyAssumption, NewsInv, TypeOK', NEW s \in Slots, Accept(s)
  PROVE  NewsInv'
<1> DEFINE r == stream[s]
           m == Other(r.from)
           x == [r EXCEPT !.in = "open"]
           b == [book[m] EXCEPT !.known = book[m].known \/ r.kind = "push"]
<1>1. r \in StreamRecord /\ r.in = "opening" /\ m \in Nodes
  <2>1. r \in StreamRecord /\ r.in = "opening"
    BY InfoOfStreams, EmptyStream DEF Accept, NewsInv
  <2> QED
    BY <2>1, TwoNodes DEF StreamRecord
<1>2. CASE Full(m, r.kind, TRUE)
  BY <1>2, BrokenNews DEF Accept
<1>3. CASE ~Full(m, r.kind, TRUE)
  <2>1. /\ stream' = [stream EXCEPT ![s] = x] /\ book' = [book EXCEPT ![m] = b]
        /\ UNCHANGED <<link, self, due, missed>>
    BY <1>3 DEF Accept, OnStream
  <2>2. x.kind = r.kind /\ x.from = r.from /\ x.news = r.news /\ x.in = "open" /\ x.out = r.out
    BY <1>1 DEF StreamRecord
  <2>3. TrueStream(r)
    BY DEF NewsInv, TrueNews
  <2>4. Teller(x) = Teller(r)
    BY <2>2 DEF Teller
  <2>5. TrueStream(x)
    BY <1>1, <2>2, <2>3, <2>4 DEF TrueStream
  <2>6. \A n \in Nodes : Carries(r, n) => Carries(x, n)
    BY <2>2, <2>4 DEF Carries
  <2>7. book[m] \in Info
    BY <1>1 DEF NewsInv, TypeOK
  <2>8. b.version = book[m].version /\ (book[m].known => b = book[m])
    BY <2>7 DEF Info
  <2>9. \A k \in Nodes : book'[k] = IF k = m THEN b ELSE book[k]
    BY <2>1 DEF NewsInv, TypeOK
  <2> HIDE DEF x, b, r, m
  <2>10. \A n \in Nodes : /\ Other(n) \in Nodes /\ self[n].known
                          /\ IsNews(book[Other(n)], n)
    BY TwoNodes DEF NewsInv, TrueNews
  <2>11. \A n \in Nodes : /\ IsNews(book'[Other(n)], n)
                          /\ book[Other(n)] = self[n] => book'[Other(n)] = self[n]
    BY <2>8, <2>9, <2>10 DEF IsNews
  <2>12. \A n \in Nodes : SettledWith(n, r) =>
            \/ book'[Other(n)] = self[n] \/ n \in missed'
            \/ due'[n].push > 0 \/ due'[Other(n)].identify > 0 \/ Carries(x, n)
    BY <2>1, <2>6, <2>11 DEF SettledWith, Settled
  <2> QED
    BY <2>1, <2>5, <2>11, <2>12, StreamNews DEF r
<1> QED
  BY <1>2, <1>3

(* What is stored is what the teller of the stream now tells, or is older    *)
(* than what was known, or leaves on its way what was.                       *)
LEMMA StoreNews ==
  ASSUME IdentifyAssumption, NewsInv, TypeOK', NEW s \in Slots, NEW m \in Nodes,
         Other(m) \in Teller(stream[s]), Store(m, s),
         stream[s].kind = "identify" => stream[s].in = "closed"
  PROVE  NewsInv'
<1> DEFINE news == stream[s].news
           o == Other(m)
           r == NoStream
<1>1. /\ stream' = [stream EXCEPT ![s] = r]
      /\ \A k \in Nodes : book'[k] = IF k = m THEN news ELSE book[k]
      /\ missed' = IF news = self[o] THEN missed \ {o}
                   ELSE IF news.version < book[m].version THEN missed \cup {o} ELSE missed
      /\ UNCHANGED <<link, self, due>>
  BY DEF Store, NewsInv, TypeOK
<1>2. o \in Nodes /\ Other(o) = m /\ \A n \in Nodes : Other(n) = m => n = o
  BY TwoNodes
<1>3. IsNews(news, o)
  BY DEF NewsInv, TrueNews, TrueStream
<1>4. \A n \in Nodes : Other(n) \in Nodes /\ IsNews(book[Other(n)], n)
  BY TwoNodes DEF NewsInv, TrueNews
<1>5. /\ news.version \in Nat /\ book[m].version \in Nat /\ self[o].version \in Nat
  BY <1>2, TellerIs DEF NewsInv, TypeOK, StreamRecord, Info
<1>6. TrueStream(r)
  BY NothingTold
<1>7. \A n \in Nodes : n # o => ~Carries(stream[s], n)
  <2>1. TypeOK
    BY DEF NewsInv
  <2>2. \A n \in Nodes : n \in Teller(stream[s]) => n = o
    <3>1. /\ stream[s] \in StreamRecord
          /\ Teller(stream[s]) = {o}
      BY <1>2, <2>1, TellerIs DEF Teller
    <3> QED
      BY <3>1
  <2> QED
    BY <2>2 DEF Carries
<1>8. Carries(stream[s], o) => news = self[o]
  BY DEF Carries
<1> HIDE DEF news, o, r
<1>9. \A n \in Nodes : IsNews(book'[Other(n)], n)
  BY <1>1, <1>2, <1>3, <1>4
<1>10. ASSUME NEW n \in Nodes, SettledWith(n, stream[s])
       PROVE  \/ book'[Other(n)] = self[n] \/ n \in missed'
              \/ due'[n].push > 0 \/ due'[Other(n)].identify > 0
  <2>1. CASE n # o
    <3>1. book'[Other(n)] = book[Other(n)] /\ (n \in missed => n \in missed')
      BY <1>1, <1>2, <1>4, <2>1
    <3>2. Settled(n)
      BY <1>7, <1>10, <2>1 DEF SettledWith
    <3> QED
      BY <1>1, <3>1, <3>2 DEF Settled
  <2>2. CASE n = o /\ news = self[o]
    BY <1>1, <1>2, <2>2
  <2>3. CASE n = o /\ news # self[o]
    <3>1. Settled(o)
      BY <1>8, <1>10, <2>3 DEF SettledWith
    <3>2. news.version # self[o].version /\ news.version <= self[o].version
      BY <1>3, <2>3 DEF IsNews
    <3>3. book[m] = self[o] => o \in missed'
      BY <1>1, <1>5, <2>3, <3>2
    <3>4. o \in missed => o \in missed'
      BY <1>1, <2>3
    <3> QED
      BY <1>1, <1>2, <2>3, <3>1, <3>3, <3>4 DEF Settled
  <2> QED
    BY <2>1, <2>2, <2>3
<1>11. UNCHANGED <<link, self>>
  BY <1>1
<1> QED
  BY <1>1, <1>6, <1>9, <1>10, <1>11, StreamNews

LEMMA StreamStepNews ==
  ASSUME IdentifyAssumption, NewsInv, TypeOK', NEW s \in Slots, StreamStep(s)
  PROVE  NewsInv'
<1> DEFINE r == stream[s]
<1>1. TypeOK /\ TrueStream(r)
  BY DEF NewsInv, TrueNews
<1>2. CASE StreamFails(s)
  BY <1>2, BrokenNews DEF StreamFails
<1>3. CASE Accept(s)
  BY <1>3, AcceptNews
<1>4. CASE StoreIdentify(s) \/ StorePush(s)
  <2>1. r \in StreamRecord
    BY <1>1, <1>4, InfoOfStreams, EmptyStream DEF StoreIdentify, StorePush
  <2>2. r.from \in Nodes /\ Other(r.from) \in Nodes /\ Other(Other(r.from)) = r.from
    BY <2>1, TwoNodes DEF StreamRecord
  <2>3. CASE StoreIdentify(s)
    <3>1. r.kind = "identify" /\ r.in = "closed" /\ Store(r.from, s)
      BY <1>1, <2>3 DEF StoreIdentify, TrueStream
    <3>2. Other(r.from) \in Teller(r)
      BY <3>1 DEF Teller
    <3> QED
      BY <2>2, <3>1, <3>2, StoreNews
  <2>4. CASE StorePush(s)
    <3> DEFINE m == Other(r.from)
    <3>1. r.kind = "push" /\ Store(m, s)
      BY <2>4 DEF StorePush
    <3>2. m \in Nodes /\ Other(m) \in Teller(r)
      BY <2>2, <3>1 DEF Teller
    <3> HIDE DEF m
    <3> QED
      BY <3>1, <3>2, StoreNews
  <2> QED
    BY <1>4, <2>3, <2>4
<1>5. CASE FetchAnswered(s) \/ PingAnswered(s)
  <2> DEFINE x == NoStream
  <2>1. stream' = [stream EXCEPT ![s] = x] /\ r.kind \in {"fetch", "ping"}
        /\ UNCHANGED <<link, self, book, due, missed>>
    BY <1>5 DEF FetchAnswered, PingAnswered, Answered
  <2>2. TrueStream(x) /\ \A n \in Nodes : ~Carries(r, n)
    BY <2>1, NothingTold DEF Carries, Teller
  <2> HIDE DEF x
  <2> QED
    BY <2>1, <2>2, GoesOn
<1>6. CASE Select(s)
  <2>1. r \in StreamRecord
    BY <1>1, <1>6, InfoOfStreams, EmptyStream DEF Select
  <2>2. CASE Broken(s)
    BY <1>6, <2>2, BrokenNews DEF Select
  <2>3. CASE ~Broken(s)
    <3> DEFINE x == [r EXCEPT !.out = "open"]
    <3>1. stream' = [stream EXCEPT ![s] = x] /\ UNCHANGED <<link, self, book, due, missed>>
      BY <1>6, <2>3 DEF Select
    <3>2. x.kind = r.kind /\ x.from = r.from /\ x.news = r.news /\ x.in = r.in /\ x.out = "open"
      BY <2>1 DEF StreamRecord
    <3>3. Teller(x) = Teller(r)
      BY <3>2 DEF Teller
    <3> HIDE DEF x, r
    <3>4. TrueStream(x) /\ \A n \in Nodes : Carries(r, n) => Carries(x, n)
      BY <1>1, <3>2, <3>3 DEF TrueStream, Carries
    <3> QED
      BY <3>1, <3>4, GoesOn DEF r
  <2> QED
    BY <2>2, <2>3
<1>7. CASE SendPush(s) \/ ReadPush(s) \/ ReceiveIdentify(s) \/ AnswerFetch(s)
  <2>1. r \in StreamRecord
    BY <1>1, <1>7, InfoOfStreams, EmptyStream
       DEF SendPush, ReadPush, ReceiveIdentify, AnswerFetch
  <2>2. PICK x : /\ stream' = [stream EXCEPT ![s] = x]
                 /\ x.kind = r.kind /\ x.from = r.from /\ x.news = r.news
                 /\ r.kind = "identify" => x.in = r.in /\ r.in = "closed"
    <3>1. CASE SendPush(s)
      BY <2>1, <3>1 DEF SendPush, StreamRecord
    <3>2. CASE ReadPush(s)
      BY <2>1, <3>2 DEF ReadPush, StreamRecord
    <3>3. CASE ReceiveIdentify(s)
      <4> DEFINE y == [r EXCEPT !.out = "verifying"]
      <4>1. stream' = [stream EXCEPT ![s] = y] /\ r.in = "closed"
        BY <3>3 DEF ReceiveIdentify
      <4>2. y.kind = r.kind /\ y.from = r.from /\ y.news = r.news /\ y.in = r.in
        BY <2>1 DEF StreamRecord
      <4> HIDE DEF y, r
      <4> QED
        BY <4>1, <4>2
    <3>4. CASE AnswerFetch(s)
      BY <2>1, <3>4 DEF AnswerFetch, StreamRecord
    <3> QED
      BY <1>7, <3>1, <3>2, <3>3, <3>4
  <2>3. Teller(x) = Teller(r)
    BY <2>2 DEF Teller
  <2>4. UNCHANGED <<link, self, book, due, missed>>
    BY <1>7 DEF SendPush, ReadPush, ReceiveIdentify, AnswerFetch
  <2>5. TrueStream(x) /\ \A n \in Nodes : Carries(r, n) => Carries(x, n)
    BY <1>1, <2>2, <2>3 DEF TrueStream, Carries
  <2> QED
    BY <2>2, <2>4, <2>5, GoesOn
<1>8. CASE AnswerIdentify(s)
  <2>1. r \in StreamRecord
    BY <1>1, <1>8, InfoOfStreams, EmptyStream DEF AnswerIdentify
  <2> DEFINE i == self[Other(r.from)]
             x == [r EXCEPT !.in = "closed", !.news = i]
  <2>2. stream' = [stream EXCEPT ![s] = x] /\ UNCHANGED <<link, self, book, due, missed>>
    BY <1>8 DEF AnswerIdentify
  <2>3. x.kind = "identify" /\ x.from = r.from /\ x.in = "closed" /\ x.news = i
    BY <1>8, <2>1 DEF AnswerIdentify, StreamRecord
  <2>4. Teller(x) = {Other(r.from)} /\ Teller(r) = {Other(r.from)}
    BY <1>8, <2>3 DEF Teller, AnswerIdentify
  <2>5. i.version \in Nat
    BY <1>1, <2>1, TwoNodes DEF TypeOK, StreamRecord, Info
  <2> HIDE DEF x
  <2>6. TrueStream(x) /\ \A n \in Nodes : Carries(r, n) => Carries(x, n)
    BY <2>3, <2>4, <2>5 DEF TrueStream, IsNews, Carries
  <2> QED
    BY <2>2, <2>6, GoesOn
<1> QED
  BY <1>2, <1>3, <1>4, <1>5, <1>6, <1>7, <1>8 DEF StreamStep

(* A stream is opened: it carries what was due. *)
LEMMA OpenNews ==
  ASSUME IdentifyAssumption, NewsInv, TypeOK', NEW n \in Nodes, NEW s \in Slots,
         OpenIdentify(n, s) \/ OpenPush(n, s) \/ Fetch(n, s) \/ Ping(n, s)
  PROVE  NewsInv'
<1>1. /\ \A m \in Nodes : IsNews(book'[Other(m)], m)
      /\ UNCHANGED <<link, self, book, missed>>
  BY DEF NewsInv, TrueNews, OpenIdentify, OpenPush, Fetch, Ping, Request
<1>2. /\ \A m \in Nodes : SettledWith(m, stream[s]) <=> Settled(m)
      /\ stream[s] = NoStream
  BY NothingTold DEF SettledWith, OpenIdentify, OpenPush, Fetch, Ping, Request, OpenStream
<1>3. CASE OpenIdentify(n, s)
  <2> DEFINE x == [kind |-> "identify", from |-> n, out |-> "opening", in |-> "opening",
                   news |-> Unknown]
  <2>1. stream' = [stream EXCEPT ![s] = x]
        /\ due' = [due EXCEPT ![n] = [due[n] EXCEPT !.identify = 0]]
    BY <1>3 DEF OpenIdentify, OpenStream
  <2>2. due[n] \in Due
    BY DEF NewsInv, TypeOK
  <2>3. \A m \in Nodes : due'[m].push = due[m].push
                         /\ (m # n => due'[m].identify = due[m].identify)
    BY <2>1, <2>2 DEF NewsInv, TypeOK, Due
  <2>4. Teller(x) = {Other(n)} /\ Carries(x, Other(n))
    BY DEF Teller, Carries
  <2>5. TrueStream(x)
    <3>1. Other(n) \in Nodes /\ self[Other(n)].version \in Nat /\ self[Other(n)].version > 0
      BY TwoNodes DEF NewsInv, TrueNews, TypeOK, Info
    <3>2. IsNews(Unknown, Other(n))
      BY <3>1 DEF IsNews, Unknown
    <3> QED
      BY <2>4, <3>2 DEF TrueStream
  <2>6. \A m \in Nodes : Other(m) \in Nodes /\ (Other(m) = n => m = Other(n))
    BY TwoNodes
  <2> HIDE DEF x
  <2>7. \A m \in Nodes : SettledWith(m, stream[s]) =>
            \/ book'[Other(m)] = self[m] \/ m \in missed'
            \/ due'[m].push > 0 \/ due'[Other(m)].identify > 0 \/ Carries(x, m)
    BY <1>1, <1>2, <2>3, <2>4, <2>6 DEF Settled
  <2> QED
    BY <1>1, <2>1, <2>5, <2>7, StreamNews
<1>4. CASE OpenPush(n, s)
  <2> DEFINE x == [kind |-> "push", from |-> n, out |-> "opening", in |-> "opening",
                   news |-> self[n]]
  <2>1. stream' = [stream EXCEPT ![s] = x]
        /\ due' = [due EXCEPT ![n] = [due[n] EXCEPT !.push = due[n].push - 1]]
    BY <1>4 DEF OpenPush, OpenStream
  <2>2. due[n] \in Due
    BY DEF NewsInv, TypeOK
  <2>3. \A m \in Nodes : due'[m].identify = due[m].identify
                         /\ (m # n => due'[m].push = due[m].push)
    BY <2>1, <2>2 DEF NewsInv, TypeOK, Due
  <2>4. Teller(x) = {n} /\ Carries(x, n) /\ x.kind = "push" /\ x.news = self[n]
    BY DEF Teller, Carries
  <2>5. TrueStream(x)
    <3>1. self[n].version \in Nat
      BY DEF NewsInv, TypeOK, Info
    <3> HIDE DEF x
    <3> QED
      BY <2>4, <3>1 DEF TrueStream, IsNews
  <2>6. \A m \in Nodes : Other(m) \in Nodes
    BY TwoNodes
  <2> HIDE DEF x
  <2>7. \A m \in Nodes : SettledWith(m, stream[s]) =>
            \/ book'[Other(m)] = self[m] \/ m \in missed'
            \/ due'[m].push > 0 \/ due'[Other(m)].identify > 0 \/ Carries(x, m)
    BY <1>1, <1>2, <2>3, <2>4, <2>6 DEF Settled
  <2> QED
    BY <1>1, <2>1, <2>5, <2>7, StreamNews
<1>5. CASE Fetch(n, s) \/ Ping(n, s)
  <2>1. PICK k \in {"fetch", "ping"} : OpenStream(n, k, s, Unknown)
    BY <1>5 DEF Fetch, Ping, Request
  <2> DEFINE x == [kind |-> k, from |-> n, out |-> "opening", in |-> "opening",
                   news |-> Unknown]
  <2>2. stream' = [stream EXCEPT ![s] = x] /\ UNCHANGED due
    BY <1>5, <2>1 DEF OpenStream, Fetch, Ping, Request
  <2>3. TrueStream(x)
    BY <2>1 DEF TrueStream, Teller
  <2>4. \A m \in Nodes : Carries(stream[s], m) => Carries(x, m)
    BY <1>2, NothingTold
  <2> HIDE DEF x
  <2> QED
    BY <1>1, <2>2, <2>3, <2>4, GoesOn
<1> QED
  BY <1>3, <1>4, <1>5

(* A change of the record is due to be pushed. *)
LEMMA TellsNews ==
  ASSUME IdentifyAssumption, NewsInv, TypeOK', NEW n \in Nodes, NEW P, Tells(n, P)
  PROVE  NewsInv'
<1> DEFINE i == self[n]
           x == [i EXCEPT !.version = i.version + 1, !.protos = P]
           d == [due[n] EXCEPT !.push = due[n].push + 1]
<1>1. i \in Info /\ due[n] \in Due
  BY DEF NewsInv, TypeOK
<1>2. x.version = i.version + 1 /\ x.known = i.known
  BY <1>1 DEF Info
<1>3. d.push = due[n].push + 1 /\ d.identify = due[n].identify
  BY <1>1 DEF Due
<1>4. /\ self' = [self EXCEPT ![n] = x] /\ due' = [due EXCEPT ![n] = d]
      /\ UNCHANGED <<link, book, stream, missed>>
  BY DEF Tells, PushDue
<1>5. i.version \in Nat /\ due[n].push \in Nat
  BY <1>1 DEF Info, Due
<1> HIDE DEF x, d
<1>6. \A m \in Nodes : /\ self'[m] = IF m = n THEN x ELSE self[m]
                       /\ due'[m] = IF m = n THEN d ELSE due[m]
  BY <1>4 DEF NewsInv, TypeOK
<1>7. \A m \in Nodes : \A w : w.version \in Nat /\ IsNews(w, m) => IsNews(w, m)'
  <2>1. SUFFICES ASSUME NEW m \in Nodes, NEW w, w.version \in Nat, IsNews(w, m)
                 PROVE  /\ w.version <= self'[m].version
                        /\ w.version = self'[m].version => w = self'[m]
    BY DEF IsNews
  <2>2. CASE m = n
    BY <1>2, <1>5, <1>6, <2>1, <2>2 DEF IsNews
  <2>3. CASE m # n
    BY <1>6, <2>1, <2>3 DEF IsNews
  <2> QED
    BY <2>2, <2>3
<1>8. TrueNews'
  <2>1. \A m \in Nodes : /\ Other(m) \in Nodes /\ book[Other(m)].version \in Nat
                         /\ IsNews(book[Other(m)], m)
    BY TwoNodes DEF NewsInv, TypeOK, Info, TrueNews
  <2>2. ASSUME NEW m \in Nodes
        PROVE  self'[m].version > 0 /\ self'[m].known /\ IsNews(book[Other(m)], m)'
    <3>1. IsNews(book[Other(m)], m)'
      <4> DEFINE w == book[Other(m)]
      <4>1. w' = w /\ w.version \in Nat /\ IsNews(w, m)
        BY <1>4, <2>1
      <4> QED
        BY <1>7, <4>1 DEF IsNews
    <3>2. self[m].version > 0 /\ self[m].known
      BY DEF NewsInv, TrueNews
    <3> QED
      BY <1>2, <1>5, <1>6, <3>1, <3>2
  <2>3. ASSUME NEW s \in Slots PROVE TrueStream(stream[s])'
    <3>1. TrueStream(stream[s]) /\ stream'[s] = stream[s]
      BY <1>4 DEF NewsInv, TrueNews
    <3>2. ASSUME NEW m \in Teller(stream[s])
          PROVE  m \in Nodes /\ stream[s].news.version \in Nat /\ IsNews(stream[s].news, m)
      <4>1. stream[s] # NoStream
        BY NothingTold
      <4>2. stream[s] \in StreamRecord
        BY <4>1, InfoOfStreams DEF NewsInv
      <4>3. m \in Nodes
        BY <4>2, TwoNodes DEF Teller, StreamRecord
      <4> QED
        BY <3>1, <4>2, <4>3 DEF TrueStream, StreamRecord, Info
    <3>3. \A m \in Teller(stream'[s]) : IsNews(stream[s].news, m)'
      <4>1. SUFFICES ASSUME NEW m \in Teller(stream[s]) PROVE IsNews(stream[s].news, m)'
        BY <3>1
      <4> DEFINE w == stream[s].news
      <4>2. w' = w /\ w.version \in Nat /\ IsNews(w, m) /\ m \in Nodes
        BY <3>1, <3>2
      <4> QED
        BY <1>7, <4>2 DEF IsNews
    <3> QED
      BY <3>1, <3>3 DEF TrueStream, Teller
  <2> QED
    BY <1>4, <2>2, <2>3 DEF TrueNews
<1>9. NewsComing'
  <2>1. SUFFICES ASSUME link.open, NEW m \in Nodes
                 PROVE  Settled(m)' \/ \E s \in Slots : Carries(stream[s], m)'
    BY <1>4 DEF NewsComing
  <2>2. CASE m = n
    BY <1>3, <1>5, <1>6, <2>2 DEF Settled
  <2>3. CASE m # n
    <3>1. self'[m] = self[m] /\ due'[m] = due[m] /\ Other(m) \in Nodes
          /\ due'[Other(m)].identify = due[Other(m)].identify
      BY <1>3, <1>6, <2>3, TwoNodes
    <3>2. \A s \in Slots : Carries(stream[s], m) => Carries(stream[s], m)'
      BY <1>4, <3>1 DEF Carries, Teller
    <3>3. Settled(m) \/ \E s \in Slots : Carries(stream[s], m)
      BY <2>1 DEF NewsInv, NewsComing
    <3>4. Settled(m) => Settled(m)'
      BY <1>4, <3>1 DEF Settled
    <3> QED
      BY <3>2, <3>3, <3>4
  <2> QED
    BY <2>2, <2>3
<1> QED
  BY <1>8, <1>9 DEF NewsInv

(* A step that leaves every node settled that was, or that a new connection  *)
(* finds.                                                                    *)
LEMMA SameNews ==
  ASSUME NewsInv, TypeOK', UNCHANGED <<self, book, stream>>,
         \A n \in Nodes : link'.open => Settled(n)' \/ (link.open /\ ~Settled(n))
  PROVE  NewsInv'
<1>1. TrueNews'
  BY DEF NewsInv, TrueNews, TrueStream, IsNews, Teller
<1>2. NewsComing'
  <2>1. SUFFICES ASSUME link'.open, NEW n \in Nodes
                 PROVE  Settled(n)' \/ \E s \in Slots : Carries(stream[s], n)'
    BY DEF NewsComing
  <2>2. \A s \in Slots : Carries(stream[s], n) => Carries(stream[s], n)'
    BY DEF Carries, Teller
  <2> QED
    BY <2>1, <2>2 DEF NewsInv, NewsComing
<1> QED
  BY <1>1, <1>2 DEF NewsInv

LEMMA NodeNews ==
  ASSUME IdentifyAssumption, NewsInv, TypeOK', NEW n \in Nodes,
         \/ SkipPush(n) \/ UpdatePeerRecord(n) \/ TellTopologies(n)
         \/ Handle(n) \/ Unhandle(n)
  PROVE  NewsInv'
<1>1. CASE SkipPush(n)
  <2>1. /\ due' = [due EXCEPT ![n] = [due[n] EXCEPT !.push = due[n].push - 1]]
        /\ missed' = missed \cup {n} /\ UNCHANGED <<link, self, book, stream>>
    BY <1>1 DEF SkipPush
  <2>2. due[n] \in Due
    BY DEF NewsInv, TypeOK
  <2>3. \A m \in Nodes : due'[m].identify = due[m].identify
                         /\ (m # n => due'[m].push = due[m].push)
    BY <2>1, <2>2 DEF NewsInv, TypeOK, Due
  <2>4. \A m \in Nodes : Other(m) \in Nodes
    BY TwoNodes
  <2>5. \A m \in Nodes : Settled(m) => Settled(m)'
    BY <2>1, <2>3, <2>4 DEF Settled
  <2> QED
    BY <2>1, <2>5, SameNews
<1>2. CASE UpdatePeerRecord(n) \/ Handle(n) \/ Unhandle(n)
  <2>1. \E P : Tells(n, P)
    BY <1>2 DEF UpdatePeerRecord, Handle, Unhandle, RegistrarHandle, RegistrarUnhandle
  <2> QED
    BY <2>1, TellsNews
<1>3. CASE TellTopologies(n)
  <2>1. UNCHANGED <<link, self, book, stream, due, missed>>
    BY <1>3 DEF TellTopologies
  <2>2. \A m \in Nodes : Settled(m) => Settled(m)'
    BY <2>1 DEF Settled
  <2> QED
    BY <2>1, <2>2, SameNews
<1> QED
  BY <1>1, <1>2, <1>3

(* On a new connection both ask, and what was on its way ends with the old. *)
LEMMA LinkNews ==
  ASSUME IdentifyAssumption, NewsInv, TypeOK', Opens \/ Closes
  PROVE  NewsInv'
<1>1. CASE Opens
  <2>1. \A n \in Nodes : Other(n) \in Nodes /\ due[n] \in Due
    BY TwoNodes DEF NewsInv, TypeOK
  <2>2. \A n \in Nodes : due'[n].identify = 1
    BY <1>1, <2>1 DEF Opens, Due
  <2>3. \A n \in Nodes : Settled(n)'
    BY <2>1, <2>2 DEF Settled
  <2>4. UNCHANGED <<self, book, stream>>
    BY <1>1 DEF Opens
  <2> QED
    BY <2>3, <2>4, SameNews
<1>2. CASE Closes
  <2>1. ~link'.open
    BY <1>2 DEF Closes, NewsInv, TypeOK
  <2>2. \A s \in Slots : stream'[s] \in {stream[s], NoStream}
    BY <1>2 DEF Closes
  <2>3. \A s \in Slots : TrueStream(stream'[s])
    BY <2>2, NothingTold DEF NewsInv, TrueNews
  <2>4. UNCHANGED <<self, book>>
    BY <1>2 DEF Closes
  <2>5. TrueNews'
    BY <2>3, <2>4 DEF NewsInv, TrueNews, TrueStream, IsNews
  <2> QED
    BY <2>1, <2>5 DEF NewsInv, NewsComing
<1> QED
  BY <1>1, <1>2

LEMMA NewsInitially ==
  ASSUME Init, IdentifyAssumption
  PROVE  NewsInv
<1>1. TypeOK
  BY IdentifyInitially DEF IdentifyInv
<1>2. \A n \in Nodes : Other(n) \in Nodes
  BY TwoNodes
<1>3. \A n \in Nodes : self[n].version = 1 /\ self[n].known /\ book[Other(n)] = Unknown
  BY <1>2 DEF Init
<1>4. \A n \in Nodes : IsNews(book[Other(n)], n)
  BY <1>3 DEF IsNews, Unknown
<1>5. \A s \in Slots : TrueStream(stream[s])
  BY NothingTold DEF Init
<1>6. ~link.open
  BY DEF Init
<1> QED
  BY <1>1, <1>3, <1>4, <1>5, <1>6 DEF NewsInv, TrueNews, NewsComing

LEMMA NewsKept ==
  ASSUME NewsInv, IdentifyAssumption, [Next]_vars
  PROVE  NewsInv'
<1>1. CASE Next
  <2>1. TypeOK'
    BY <1>1, TypesKept DEF NewsInv
  <2> QED
    BY <1>1, <2>1, StreamStepNews, OpenNews, NodeNews, LinkNews DEF Next
<1>2. CASE UNCHANGED vars
  <2>1. TypeOK' /\ UNCHANGED <<link, self, book, stream, due, missed>>
    BY <1>2 DEF vars, NewsInv, TypeOK
  <2>2. \A n \in Nodes : Settled(n) => Settled(n)'
    BY <2>1 DEF Settled
  <2> QED
    BY <2>1, <2>2, SameNews
<1> QED
  BY <1>1, <1>2

(* When nothing is left to exchange, each of two connected nodes knows what  *)
(* the other now tells, unless an exchange failed or was left out            *)
(* (identify/index.ts), for any number of changes, connections and streams   *)
(* at a time.                                                                *)
THEOREM NewsArrives == Spec => []UpToDate
<1>1. IdentifyAssumption /\ Init => NewsInv
  BY NewsInitially
<1>2. IdentifyAssumption /\ NewsInv /\ [Next]_vars => NewsInv'
  BY NewsKept
<1>3. IdentifyAssumption /\ NewsInv => UpToDate
  <2>1. SUFFICES ASSUME IdentifyAssumption, NewsInv, link.open, NEW n \in Nodes,
                        \A s \in Slots : stream[s] = NoStream,
                        \A m \in Nodes : due[m] = [identify |-> 0, push |-> 0]
                 PROVE  book[Other(n)] = self[n] \/ n \in missed
    BY DEF UpToDate
  <2>2. \A s \in Slots : ~Carries(stream[s], n)
    BY <2>1, NothingTold
  <2>3. Settled(n)
    BY <2>1, <2>2 DEF NewsInv, NewsComing
  <2>4. due[n].push = 0 /\ due[Other(n)].identify = 0
    BY <2>1, TwoNodes
  <2> QED
    BY <2>3, <2>4 DEF Settled
<1> QED
  BY <1>1, <1>2, <1>3, IdentifyAssumption, PTL DEF Spec

=============================================================================
