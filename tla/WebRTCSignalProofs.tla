-------------------------- MODULE WebRTCSignalProofs --------------------------
(***************************************************************************)
(* Proofs about WebRTCSignal, for any peers, relays, dials and number of   *)
(* lost connections.                                                       *)
(*                                                                         *)
(* A peer is excused from the moment it loses its relay during listen, or  *)
(* fails to listen, until it begins to listen again: that is what makes    *)
(* ListensAgain inductive.  OwnAnswer holds because nothing in flight is   *)
(* about a dial that has not made its offer.                               *)
(***************************************************************************)
EXTENDS WebRTCSignal, TLAPS

Message == [type: {"request", "response"}, dial: Dials]

TypeOK ==
  /\ connected \subseteq Peers /\ isListening \subseteq Peers /\ streams \subseteq Peers
  /\ task \in [Peers -> {None, "opening", "opened"}]
  /\ input \in [Peers -> Seq(Message)] /\ output \in [Peers -> Seq(Message)]
  /\ topic \subseteq Message \X Relays
  /\ dial \in [Dials -> {"idle", "offered", "answered", "open", "failed"}]
  /\ onResponse \subseteq Dials /\ answering \subseteq Dials
  /\ gave \in [Dials -> Dials \cup {None}]

(* Whom a peer's listening has failed, or has been overtaken. *)
Overtaken(p) ==
  /\ task[p] = "opened" => p \in streams \/ p \in excused
  /\ p \notin connected /\ (task[p] # None \/ p \in isListening) => p \in excused

(* The dials that have been made; what is in flight is about them.         *)
Made == {d \in Dials : dial[d] # "idle"}

About(q, D) == \A i \in DOMAIN q : q[i].dial \in D

InFlight ==
  /\ \A p \in Peers : About(input[p], Made) /\ About(output[p], Made)
  /\ \A x \in topic : x[1].dial \in Made
  /\ answering \subseteq Made

(* The answer given to a dial is that of a dial between the same peers. *)
Given == \A d \in Dials : gave[d] # None => gave[d] \in Made /\ Answers(d, gave[d])

ListenInv == /\ TypeOK /\ ListensAgain /\ AnnouncedWhileListening
             /\ \A p \in Peers : Overtaken(p)

AnswerInv == TypeOK /\ InFlight /\ Given

-----------------------------------------------------------------------------
(* Types *)

LEMMA QueueType ==
  ASSUME NEW q \in Seq(Message)
  PROVE  /\ \A m \in Message : Append(q, m) \in Seq(Message)
         /\ q # <<>> => Head(q) \in Message /\ Tail(q) \in Seq(Message)
OBVIOUS

LEMMA ToType ==
  ASSUME NEW m \in Message
  PROVE  To(m) \in Peers /\ m.dial \in Dials
BY WebRTCSignalAssumption DEF To, Message

LEMMA PushType ==
  ASSUME TypeOK, NEW p \in Peers, NEW m \in Message, Push(p, m)
  PROVE  output' \in [Peers -> Seq(Message)]
BY QueueType DEF TypeOK, Push

LEMMA ForwardType ==
  ASSUME TypeOK, NEW p \in Peers, Forward(p)
  PROVE  TypeOK'
<1> DEFINE msg == Head(input[p])
<1>1. input[p] \in Seq(Message) /\ input[p] # <<>>
  BY DEF TypeOK, Forward
<1>2. msg \in Message /\ Tail(input[p]) \in Seq(Message)
  BY <1>1, QueueType
<1>3. input' \in [Peers -> Seq(Message)]
  BY <1>2 DEF TypeOK, Forward
<1>4. output' \in [Peers -> Seq(Message)]
  BY <1>2, ToType, PushType DEF TypeOK, Forward
<1>5. topic' \subseteq Message \X Relays
  BY <1>2 DEF TypeOK, Forward, Publish, Subscribers
<1>6. QED
  BY <1>3, <1>4, <1>5 DEF TypeOK, Forward, peerVars, dialVars

LEMMA TypeInit == Init => TypeOK
BY DEF Init, TypeOK

LEMMA TypeNext == TypeOK /\ [Next]_vars => TypeOK'
<1> SUFFICES ASSUME TypeOK, [Next]_vars
             PROVE  TypeOK'
  OBVIOUS
<1>1. ASSUME NEW p \in Peers,
             \/ Connect(p) \/ StreamOpens(p) \/ ListenFails(p) \/ ListenEnds(p)
             \/ Disconnect(p) \/ OtherLeaves(p)
      PROVE  TypeOK'
  <2>1. CASE Connect(p)
    BY <2>1 DEF TypeOK, Connect, Listens, dialVars
  <2>2. CASE StreamOpens(p)
    <3>1. input' \in [Peers -> Seq(Message)]
      BY <2>2 DEF TypeOK, StreamOpens, PipePeerInputStream
    <3>2. QED
      BY <2>2, <3>1 DEF TypeOK, StreamOpens, HandlePeerSignallingStream, dialVars
  <2>3. CASE ListenFails(p) \/ ListenEnds(p)
    BY <2>3 DEF TypeOK, ListenFails, ListenEnds, dialVars
  <2>4. CASE Disconnect(p)
    <3>1. output' \in [Peers -> Seq(Message)]
      BY <2>4 DEF TypeOK, Disconnect, HandleClosedSignallingStreams
    <3>2. QED
      BY <2>4, <3>1 DEF TypeOK, Disconnect, NotListening, HandleClosedSignallingStreams, dialVars
  <2>5. CASE OtherLeaves(p)
    BY <2>5 DEF TypeOK, OtherLeaves, dialVars
  <2>6. QED
    BY <1>1, <2>1, <2>2, <2>3, <2>4, <2>5
<1>2. ASSUME NEW p \in Peers, LoseInput(p) \/ ProcessRequest(p)
      PROVE  TypeOK'
  <2>1. input[p] \in Seq(Message) /\ output[p] \in Seq(Message)
    BY DEF TypeOK
  <2>2. CASE LoseInput(p)
    <3>1. Tail(input[p]) \in Seq(Message)
      BY <2>1, <2>2, QueueType DEF LoseInput
    <3>2. QED
      BY <2>2, <3>1 DEF TypeOK, LoseInput, peerVars, dialVars
  <2>3. CASE ProcessRequest(p)
    <3>1. Tail(output[p]) \in Seq(Message) /\ Head(output[p]).dial \in Dials
      BY <2>1, <2>3, QueueType, ToType DEF ProcessRequest
    <3>2. QED
      BY <2>3, <3>1 DEF TypeOK, ProcessRequest, peerVars, dialVars
  <2>4. QED
    BY <1>2, <2>2, <2>3
<1>3. ASSUME NEW p \in Peers, Response(p)
      PROVE  TypeOK'
  <2>1. Tail(output[p]) \in Seq(Message) /\ Head(output[p]).dial \in Dials
    BY <1>3, QueueType, ToType DEF TypeOK, Response
  <2>2. QED
    BY <1>3, <2>1 DEF TypeOK, Response, Dispatch, peerVars
<1>4. ASSUME NEW x \in topic, HandlePubSubMessage(x[1], x[2])
      PROVE  TypeOK'
  <2>1. x[1] \in Message
    BY DEF TypeOK
  <2>2. output' \in [Peers -> Seq(Message)]
    BY <1>4, <2>1, ToType, PushType DEF TypeOK, HandlePubSubMessage
  <2>3. QED
    BY <1>4, <2>2 DEF TypeOK, HandlePubSubMessage, peerVars, dialVars
<1>5. ASSUME NEW d \in Dials, Answer(d)
      PROVE  TypeOK'
  <2>1. [type |-> "response", dial |-> d] \in Message
    BY DEF Message
  <2>2. input' \in [Peers -> Seq(Message)]
    BY <1>5, <2>1, QueueType DEF TypeOK, Answer
  <2>3. QED
    BY <1>5, <2>2 DEF TypeOK, Answer, peerVars, dialVars
<1>6. ASSUME NEW d \in Dials, Offer(d)
      PROVE  TypeOK'
  <2>1. [type |-> "request", dial |-> d] \in Message
    BY DEF Message
  <2>2. input' \in [Peers -> Seq(Message)]
    BY <1>6, <2>1, QueueType DEF TypeOK, Offer
  <2>3. QED
    BY <1>6, <2>2 DEF TypeOK, Offer, AwaitResponse, peerVars
<1>7. ASSUME NEW d \in Dials, Opens(d) \/ Fail(d)
      PROVE  TypeOK'
  BY <1>7 DEF TypeOK, Opens, Fail, peerVars
<1>8. CASE UNCHANGED vars
  BY <1>8 DEF TypeOK, vars
<1>9. QED
  BY <1>1, <1>2, <1>3, <1>4, <1>5, <1>6, <1>7, <1>8, ForwardType DEF Next

-----------------------------------------------------------------------------
(* Listening *)

LEMMA ListenInit == Init => ListenInv
BY TypeInit DEF Init, ListenInv, ListensAgain, AnnouncedWhileListening, Overtaken, None

(* Nothing else has to do with listening. *)
LEMMA ListenFrame ==
  ASSUME ListenInv, TypeOK', UNCHANGED peerVars
  PROVE  ListenInv'
BY DEF ListenInv, ListensAgain, AnnouncedWhileListening, Overtaken, peerVars

LEMMA ListenNext == ListenInv /\ [Next]_vars => ListenInv'
<1> SUFFICES ASSUME ListenInv, [Next]_vars
             PROVE  ListenInv'
  OBVIOUS
<1>1. TypeOK /\ TypeOK'
  BY TypeNext DEF ListenInv
<1>2. ASSUME NEW p \in Peers, Connect(p)
      PROVE  ListenInv'
  BY <1>1, <1>2 DEF ListenInv, ListensAgain, AnnouncedWhileListening, Overtaken, TypeOK,
                    Connect, Listens, None
<1>3. ASSUME NEW p \in Peers, StreamOpens(p)
      PROVE  ListenInv'
  BY <1>1, <1>3 DEF ListenInv, ListensAgain, AnnouncedWhileListening, Overtaken, TypeOK,
                    StreamOpens, HandlePeerSignallingStream, None
<1>4. ASSUME NEW p \in Peers, ListenFails(p)
      PROVE  ListenInv'
  BY <1>1, <1>4 DEF ListenInv, ListensAgain, AnnouncedWhileListening, Overtaken, TypeOK,
                    ListenFails, None
<1>5. ASSUME NEW p \in Peers, ListenEnds(p)
      PROVE  ListenInv'
  BY <1>1, <1>5 DEF ListenInv, ListensAgain, AnnouncedWhileListening, Overtaken, TypeOK,
                    ListenEnds, None
<1>6. ASSUME NEW p \in Peers, Disconnect(p)
      PROVE  ListenInv'
  BY <1>1, <1>6 DEF ListenInv, ListensAgain, AnnouncedWhileListening, Overtaken, TypeOK,
                    Disconnect, NotListening, Closes, HandleClosedSignallingStreams, None
<1>7. ASSUME NEW p \in Peers, OtherLeaves(p)
      PROVE  ListenInv'
  BY <1>1, <1>7 DEF ListenInv, ListensAgain, AnnouncedWhileListening, Overtaken, TypeOK,
                    OtherLeaves, None
<1>8. ASSUME NEW p \in Peers, Forward(p) \/ LoseInput(p) \/ ProcessRequest(p) \/ Response(p)
      PROVE  UNCHANGED peerVars
  BY <1>8 DEF Forward, LoseInput, ProcessRequest, Response
<1>9. ASSUME NEW x \in topic, HandlePubSubMessage(x[1], x[2])
      PROVE  UNCHANGED peerVars
  BY <1>9 DEF HandlePubSubMessage
<1>10. ASSUME NEW d \in Dials, Answer(d) \/ Offer(d) \/ Opens(d) \/ Fail(d)
       PROVE  UNCHANGED peerVars
  BY <1>10 DEF Answer, Offer, Opens, Fail
<1>11. UNCHANGED vars => UNCHANGED peerVars
  BY DEF vars, peerVars
<1>12. QED
  BY <1>1, <1>2, <1>3, <1>4, <1>5, <1>6, <1>7, <1>8, <1>9, <1>10, <1>11, ListenFrame DEF Next

LEMMA ListenInvHolds == Spec => []ListenInv
BY ListenInit, ListenNext, PTL DEF Spec

(* A peer that is connected with its relay and done listening is reachable *)
(* through it, unless its listening failed or lost the relay: AutoSignal   *)
(* (auto-signal.ts) and the relay's streams do not drift apart otherwise.  *)
THEOREM Reachable == Spec => []ListensAgain
<1>1. ListenInv => ListensAgain
  BY DEF ListenInv
<1>2. QED
  BY <1>1, ListenInvHolds, PTL

(* The listener's address and AutoSignal's belief go together, unless the  *)
(* relay was lost during listen or another peer's disconnection has used   *)
(* up the listener's handler: each has a handler of its own.               *)
THEOREM AddressKept == Spec => []AnnouncedWhileListening
<1>1. ListenInv => AnnouncedWhileListening
  BY DEF ListenInv
<1>2. QED
  BY <1>1, ListenInvHolds, PTL

-----------------------------------------------------------------------------
(* Answers *)

(* A dial that has been made stays so. *)
LEMMA MadeGrows ==
  ASSUME TypeOK, [Next]_vars
  PROVE  Made \subseteq Made'
<1>1. ASSUME NEW p \in Peers, Response(p)
      PROVE  Made \subseteq Made'
  BY <1>1 DEF Response, Made
<1>2. ASSUME NEW e \in Dials, Offer(e) \/ Opens(e) \/ Fail(e)
      PROVE  Made \subseteq Made'
  BY <1>2 DEF Offer, Opens, Fail, Made, TypeOK
<1>3. dial' = dial => Made \subseteq Made'
  BY DEF Made
<1>4. ASSUME NEW p \in Peers,
             \/ Connect(p) \/ StreamOpens(p) \/ ListenFails(p) \/ ListenEnds(p) \/ Disconnect(p)
             \/ OtherLeaves(p) \/ Forward(p) \/ LoseInput(p) \/ ProcessRequest(p)
      PROVE  dial' = dial
  BY <1>4 DEF Connect, StreamOpens, ListenFails, ListenEnds, Disconnect, OtherLeaves,
              Forward, LoseInput, ProcessRequest, dialVars
<1>5. ASSUME NEW x \in topic, HandlePubSubMessage(x[1], x[2])
      PROVE  dial' = dial
  BY <1>5 DEF HandlePubSubMessage, dialVars
<1>6. \A e \in Dials : Answer(e) => dial' = dial
  BY DEF Answer, dialVars
<1>7. UNCHANGED vars => dial' = dial
  BY DEF vars
<1>8. QED
  BY <1>1, <1>2, <1>3, <1>4, <1>5, <1>6, <1>7 DEF Next

LEMMA AboutQueue ==
  ASSUME NEW q \in Seq(Message), NEW D, About(q, D)
  PROVE  /\ \A m \in Message : m.dial \in D => About(Append(q, m), D)
         /\ q # <<>> => Head(q).dial \in D /\ About(Tail(q), D)
         /\ About(<<>>, D)
<1>1. ASSUME NEW m \in Message, m.dial \in D
      PROVE  About(Append(q, m), D)
  <2>1. ASSUME NEW i \in DOMAIN Append(q, m)
        PROVE  Append(q, m)[i] = m \/ (i \in DOMAIN q /\ Append(q, m)[i] = q[i])
    OBVIOUS
  <2>2. QED
    BY <1>1, <2>1 DEF About
<1>2. ASSUME q # <<>>
      PROVE  Head(q).dial \in D /\ About(Tail(q), D)
  <2>1. 1 \in DOMAIN q /\ Head(q) = q[1]
    BY <1>2
  <2>2. \A i \in DOMAIN Tail(q) : i + 1 \in DOMAIN q /\ Tail(q)[i] = q[i + 1]
    BY <1>2
  <2>3. QED
    BY <2>1, <2>2 DEF About
<1>3. QED
  BY <1>1, <1>2 DEF About

(* The queues after a step: kept, emptied, shortened or appended to.       *)
QueueGoesOn(q, r, D) ==
  \/ r = q
  \/ r = <<>>
  \/ q # <<>> /\ r = Tail(q)
  \/ \E m \in Message : m.dial \in D /\ r = Append(q, m)

LEMMA AboutNext ==
  ASSUME NEW q \in Seq(Message), NEW r, NEW D, NEW E, About(q, D), D \subseteq E,
         QueueGoesOn(q, r, E)
  PROVE  About(r, E)
<1>1. About(q, E)
  BY DEF About
<1>2. QED
  BY <1>1, AboutQueue DEF QueueGoesOn

Flows ==
  /\ \A p \in Peers : /\ QueueGoesOn(input[p], input'[p], Made')
                       /\ QueueGoesOn(output[p], output'[p], Made')
  /\ \A x \in topic' : x[1].dial \in Made'
  /\ answering' \subseteq Made'

LEMMA PushFlows ==
  ASSUME TypeOK, NEW q \in Peers, NEW m \in Message, NEW D, m.dial \in D, Push(q, m)
  PROVE  \A p \in Peers : QueueGoesOn(output[p], output'[p], D)
<1>1. output'[q] = Append(output[q], m) /\ \A p \in Peers \ {q} : output'[p] = output[p]
  BY DEF TypeOK, Push
<1>2. QED
  BY <1>1 DEF QueueGoesOn

LEMMA ForwardFlows ==
  ASSUME TypeOK, InFlight, [Next]_vars, NEW p \in Peers, Forward(p)
  PROVE  Flows
<1> DEFINE msg == Head(input[p])
<1>1. input[p] \in Seq(Message) /\ input[p] # <<>> /\ Made \subseteq Made'
  BY MadeGrows DEF TypeOK, Forward
<1>2. msg \in Message /\ msg.dial \in Made'
  BY <1>1, QueueType, AboutQueue DEF InFlight
<1>3. \A q \in Peers : QueueGoesOn(input[q], input'[q], Made')
  BY <1>1 DEF TypeOK, Forward, QueueGoesOn
<1>4. \A q \in Peers : QueueGoesOn(output[q], output'[q], Made')
  <2>1. CASE Push(To(msg), msg)
    BY <1>2, <2>1, ToType, PushFlows
  <2>2. CASE output' = output
    BY <2>2 DEF QueueGoesOn
  <2>3. QED
    BY <2>1, <2>2 DEF Forward
<1>5. \A x \in topic' : x[1].dial \in Made'
  BY <1>1, <1>2 DEF Forward, Publish, InFlight
<1>6. answering' \subseteq Made'
  BY <1>1 DEF Forward, InFlight
<1>7. QED
  BY <1>3, <1>4, <1>5, <1>6 DEF Flows

LEMMA NextFlows ==
  ASSUME TypeOK, InFlight, [Next]_vars
  PROVE  Flows
<1>1. Made \subseteq Made' /\ answering \subseteq Made' /\ \A x \in topic : x[1].dial \in Made'
  BY MadeGrows DEF InFlight
<1>2. \A q : QueueGoesOn(q, q, Made')
  BY DEF QueueGoesOn
<1>3. \A p \in Peers : input[p] \in Seq(Message) /\ output[p] \in Seq(Message)
  BY DEF TypeOK
<1>4. ASSUME NEW p \in Peers,
             Connect(p) \/ StreamOpens(p) \/ ListenFails(p) \/ ListenEnds(p) \/ Disconnect(p) \/ OtherLeaves(p)
      PROVE  Flows
  <2>1. topic' = topic /\ answering' = answering
    BY <1>4 DEF Connect, StreamOpens, ListenFails, ListenEnds, Disconnect, OtherLeaves
  <2>2. \A q \in Peers : input'[q] = input[q] \/ input'[q] = <<>>
    BY <1>4 DEF TypeOK, Connect, StreamOpens, PipePeerInputStream, ListenFails, ListenEnds,
                Disconnect, OtherLeaves
  <2>3. \A q \in Peers : output'[q] = output[q] \/ output'[q] = <<>>
    BY <1>4 DEF TypeOK, Connect, StreamOpens, ListenFails, ListenEnds, Disconnect,
                HandleClosedSignallingStreams, OtherLeaves
  <2>4. QED
    BY <1>1, <2>1, <2>2, <2>3 DEF Flows, QueueGoesOn
<1>5. ASSUME NEW p \in Peers, LoseInput(p)
      PROVE  Flows
  BY <1>1, <1>5 DEF TypeOK, LoseInput, Flows, QueueGoesOn
<1>6. ASSUME NEW p \in Peers, ProcessRequest(p)
      PROVE  Flows
  <2>1. Head(output[p]).dial \in Made'
    BY <1>1, <1>3, <1>6, AboutQueue DEF ProcessRequest, InFlight
  <2>2. QED
    BY <1>1, <1>6, <2>1 DEF TypeOK, ProcessRequest, Flows, QueueGoesOn
<1>7. ASSUME NEW p \in Peers, Response(p)
      PROVE  Flows
  BY <1>1, <1>7 DEF TypeOK, Response, Flows, QueueGoesOn
<1>8. ASSUME NEW x \in topic, HandlePubSubMessage(x[1], x[2])
      PROVE  Flows
  <2>1. x[1] \in Message /\ x[1].dial \in Made'
    BY <1>1 DEF TypeOK
  <2>2. \A q \in Peers : QueueGoesOn(output[q], output'[q], Made')
    <3>1. CASE Push(To(x[1]), x[1])
      BY <2>1, <3>1, ToType, PushFlows
    <3>2. CASE output' = output
      BY <1>2, <3>2
    <3>3. QED
      BY <1>8, <3>1, <3>2 DEF HandlePubSubMessage
  <2>3. QED
    BY <1>1, <1>2, <1>8, <2>2 DEF HandlePubSubMessage, Flows
<1>9. ASSUME NEW d \in Dials, Answer(d)
      PROVE  Flows
  <2> DEFINE m == [type |-> "response", dial |-> d]
  <2>1. m \in Message /\ m.dial \in Made'
    BY <1>1, <1>9 DEF Answer, Message
  <2>2. \A q \in Peers : input'[q] = input[q] \/ input'[q] = Append(input[q], m)
    BY <1>9 DEF TypeOK, Answer
  <2> HIDE DEF m
  <2>3. QED
    BY <1>1, <1>9, <2>1, <2>2 DEF Answer, Flows, QueueGoesOn
<1>10. ASSUME NEW d \in Dials, Offer(d)
       PROVE  Flows
  <2> DEFINE m == [type |-> "request", dial |-> d]
  <2>1. m \in Message /\ m.dial \in Made'
    BY <1>10 DEF TypeOK, Offer, Message, Made
  <2>2. \A q \in Peers : input'[q] = input[q] \/ input'[q] = Append(input[q], m)
    BY <1>10 DEF TypeOK, Offer
  <2> HIDE DEF m
  <2>3. QED
    BY <1>1, <1>10, <2>1, <2>2 DEF Offer, Flows, QueueGoesOn
<1>11. ASSUME UNCHANGED <<input, output, topic, answering>>
       PROVE  Flows
  BY <1>1, <1>2, <1>11 DEF Flows
<1>12. \A d \in Dials : Opens(d) \/ Fail(d) => UNCHANGED <<input, output, topic, answering>>
  BY DEF Opens, Fail
<1>13. UNCHANGED vars => UNCHANGED <<input, output, topic, answering>>
  BY DEF vars
<1>14. QED
  BY <1>4, <1>5, <1>6, <1>7, <1>8, <1>9, <1>10, <1>11, <1>12, <1>13, ForwardFlows DEF Next

LEMMA GivenNext ==
  ASSUME TypeOK, InFlight, Given, [Next]_vars
  PROVE  Given'
<1>1. Made \subseteq Made'
  BY MadeGrows
<1>2. CASE gave' = gave
  BY <1>1, <1>2 DEF Given, Answers
<1>3. ASSUME NEW p \in Peers, Response(p)
      PROVE  Given'
  <2> DEFINE e == Head(output[p]).dial
  <2>1. e \in Made'
    BY <1>1, <1>3, AboutQueue DEF TypeOK, Response, InFlight
  <2>2. \A d \in Dials : gave'[d] = gave[d] \/ (gave'[d] = e /\ Answers(d, e))
    BY <1>3 DEF Response, Dispatch
  <2> HIDE DEF e
  <2>3. QED
    BY <1>1, <2>1, <2>2 DEF Given, Answers
<1>4. ASSUME NEW p \in Peers,
             \/ Connect(p) \/ StreamOpens(p) \/ ListenFails(p) \/ ListenEnds(p) \/ Disconnect(p)
             \/ OtherLeaves(p) \/ Forward(p) \/ LoseInput(p) \/ ProcessRequest(p)
      PROVE  gave' = gave
  BY <1>4 DEF Connect, StreamOpens, ListenFails, ListenEnds, Disconnect, OtherLeaves,
              Forward, LoseInput, ProcessRequest, dialVars
<1>5. ASSUME NEW x \in topic, HandlePubSubMessage(x[1], x[2])
      PROVE  gave' = gave
  BY <1>5 DEF HandlePubSubMessage, dialVars
<1>6. \A d \in Dials : Answer(d) \/ Offer(d) \/ Opens(d) \/ Fail(d) => gave' = gave
  BY DEF Answer, Offer, Opens, Fail, dialVars
<1>7. UNCHANGED vars => gave' = gave
  BY DEF vars
<1>8. QED
  BY <1>2, <1>3, <1>4, <1>5, <1>6, <1>7 DEF Next

LEMMA AnswerInit == Init => AnswerInv
<1> SUFFICES ASSUME Init
             PROVE  AnswerInv
  OBVIOUS
<1>1. InFlight /\ Given
  BY DEF Init, InFlight, Given, About
<1>2. QED
  BY <1>1, TypeInit DEF AnswerInv

LEMMA AnswerNext == AnswerInv /\ [Next]_vars => AnswerInv'
<1> SUFFICES ASSUME AnswerInv, [Next]_vars
             PROVE  AnswerInv'
  OBVIOUS
<1>1. TypeOK /\ InFlight /\ Given /\ TypeOK'
  BY TypeNext DEF AnswerInv
<1>2. Made \subseteq Made' /\ Flows /\ Given'
  BY <1>1, MadeGrows, NextFlows, GivenNext
<1>3. \A p \in Peers : About(input'[p], Made') /\ About(output'[p], Made')
  <2> SUFFICES ASSUME NEW p \in Peers
               PROVE  About(input'[p], Made') /\ About(output'[p], Made')
    OBVIOUS
  <2>1. /\ input[p] \in Seq(Message) /\ output[p] \in Seq(Message)
        /\ About(input[p], Made) /\ About(output[p], Made)
        /\ QueueGoesOn(input[p], input'[p], Made') /\ QueueGoesOn(output[p], output'[p], Made')
    BY <1>1, <1>2 DEF TypeOK, InFlight, Flows
  <2>2. QED
    BY <1>2, <2>1, AboutNext
<1>4. QED
  BY <1>1, <1>2, <1>3 DEF AnswerInv, InFlight, Flows, About

(***************************************************************************)
(* The answer a dial gets is its own or that of another dial, made by the  *)
(* same peer to the same one: all that the handlers registered by _connect *)
(* (transport.ts) can tell apart.                                          *)
(***************************************************************************)
THEOREM AnswersMatch == Spec => []OwnAnswer
<1>1. AnswerInv => OwnAnswer
  BY DEF AnswerInv, Given, Made, Answers, OwnAnswer
<1>2. Spec => []AnswerInv
  BY AnswerInit, AnswerNext, PTL DEF Spec
<1>3. QED
  BY <1>1, <1>2, PTL

=============================================================================
