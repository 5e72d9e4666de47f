----------------------------- MODULE WebRTCSignal -----------------------------
(***************************************************************************)
(* The signalling by which two browser nodes set up a WebRTC connection    *)
(* (src/js-libp2p/src/webrtc-signal).  Each node keeps a stream to its     *)
(* primary relay node; a dial sends its offer over the stream, the relay   *)
(* hands it to the destination if that keeps a stream to it, or publishes  *)
(* it on a topic for the other relays, and the answer comes back the same  *)
(* way.                                                                    *)
(*                                                                         *)
(* The exchange of candidates and the data channel are WebRTC's, and what  *)
(* becomes of a connection that is open is the upgrader's; pubsub delivers *)
(* a message to each other relay at most once, in any order.               *)
(***************************************************************************)
EXTENDS Naturals, Sequences, FiniteSets

CONSTANTS Peers, Relays,
          RelayOf,       \* [Peers -> Relays]: the primary relay node
          Dials, Src, Dst, \* calls of the transport's dial: [Dials -> Peers]
          MaxLosses      \* bound: how often a connection with a relay is lost

ASSUME WebRTCSignalAssumption ==
  /\ RelayOf \in [Peers -> Relays] /\ MaxLosses \in Nat
  /\ Src \in [Dials -> Peers] /\ Dst \in [Dials -> Peers]

VARIABLES
  connected,   \* peers connected with their relay
  losses,
  isListening, \* peers whose AutoSignal believes it listens
  task,        \* [Peers -> what its _addListener awaits]
  stream,      \* [Peers -> a pipe takes what is pushed to the relay]
  streams,     \* peerSignallingInputStreams of the relays: the peers they have
  input,       \* [Peers -> peerInputStream]
  output,      \* [Peers -> what the relay has pushed for the peer]
  topic,       \* <<message, relay>>: published, and not yet handled by the relay
  dial,        \* [Dials -> the progress of the dial]
  onResponse,  \* dials whose response handler is registered
  gave,        \* [Dials -> the dial the answer it was given belongs to]
  answering,   \* dials whose offer has opened a channel that has no answer yet
  onClose,     \* peers whose listener has an address, and closes with the relay
  stale,       \* peers with a listener that has an address and no longer closes
  excused      \* peers whose listening failed or was overtaken (history)

vars == <<connected, losses, isListening, task, stream, streams, input, output,
          topic, dial, onResponse, gave, answering, onClose, stale, excused>>

peerVars == <<connected, losses, isListening, task, stream, streams, onClose, stale,
              excused>>
dialVars == <<dial, onResponse, gave>>

None == "none"

Init == /\ connected = {} /\ losses = 0 /\ isListening = {}
        /\ task = [p \in Peers |-> None]
        /\ stream = [p \in Peers |-> FALSE] /\ streams = {}
        /\ input = [p \in Peers |-> <<>>] /\ output = [p \in Peers |-> <<>>]
        /\ topic = {}
        /\ dial = [d \in Dials |-> "idle"]
        /\ onResponse = {} /\ gave = [d \in Dials |-> None]
        /\ answering = {}
        /\ onClose = {} /\ stale = {} /\ excused = {}

(***************************************************************************)
(* AutoSignal and the listener                                             *)
(***************************************************************************)

\* The relay is identified: _handleProtocols, at peer:connect or when its
\* protocols become known.
Listens(p) == IF p \in isListening THEN None ELSE "opening"

Connect(p) ==
  /\ p \notin connected /\ task[p] = None
  /\ connected' = connected \cup {p}
  /\ task' = [task EXCEPT ![p] = Listens(p)]
  /\ excused' = IF p \in isListening THEN excused ELSE excused \ {p}
  /\ UNCHANGED <<losses, isListening, stream, streams, input, output, topic,
                 answering, onClose, stale>> /\ UNCHANGED dialVars

\* The listener pipes what is pushed from now on; what was pushed before goes.
PipePeerInputStream(p) == /\ stream' = [stream EXCEPT ![p] = TRUE]
                          /\ input' = [input EXCEPT ![p] = <<>>]

\* The relay's end of the stream.
HandlePeerSignallingStream(p) == streams' = streams \cup {p}

\* The signalling stream is open at both ends.
StreamOpens(p) ==
  /\ task[p] = "opening" /\ p \in connected
  /\ task' = [task EXCEPT ![p] = "opened"]
  /\ PipePeerInputStream(p) /\ HandlePeerSignallingStream(p)
  /\ UNCHANGED <<connected, losses, isListening, output, topic, answering, onClose,
                 stale, excused>> /\ UNCHANGED dialVars

ListenFails(p) ==
  /\ task[p] = "opening"
  /\ task' = [task EXCEPT ![p] = None] /\ isListening' = isListening \ {p}
  /\ excused' = excused \cup {p}
  /\ UNCHANGED <<connected, losses, stream, streams, input, output, topic, answering,
                 onClose, stale>> /\ UNCHANGED dialVars

\* The end of listen, whether or not the relay is still connected: the listener's
\* handler of peer:disconnect and its address are set, then isListening.
ListenEnds(p) ==
  /\ task[p] = "opened"
  /\ task' = [task EXCEPT ![p] = None] /\ isListening' = isListening \cup {p}
  /\ onClose' = onClose \cup {p}
  /\ UNCHANGED <<connected, losses, stream, streams, input, output, topic, answering,
                 stale, excused>> /\ UNCHANGED dialVars

\* Faulty: AutoSignal does not notice.
StillListening(p) == isListening

NotListening(p) == isListening \ {p}

\* Faulty: the listener keeps its address.
ClosesNot(p) == onClose

Closes(p) == onClose \ {p}

\* The relay forgets the stream, with what it has pushed for the peer.
HandleClosedSignallingStreams(p) == /\ streams' = streams \ {p}
                                    /\ output' = [output EXCEPT ![p] = <<>>]

\* peer:disconnect, at the peer and at its relay.
Disconnect(p) ==
  /\ p \in connected /\ losses < MaxLosses /\ losses' = losses + 1
  /\ connected' = connected \ {p}
  /\ isListening' = NotListening(p)
  /\ onClose' = Closes(p)
  /\ stream' = [stream EXCEPT ![p] = FALSE]
  /\ HandleClosedSignallingStreams(p)
  /\ excused' = IF task[p] = None THEN excused ELSE excused \cup {p}
  /\ UNCHANGED <<task, input, topic, answering, stale>> /\ UNCHANGED dialVars

\* peer:disconnect of a peer that is not the relay: the handler is registered for
\* one event, and this is it.  (Bound: it happens at one peer.)
OtherLeaves(p) ==
  /\ p \in onClose /\ stale = {}
  /\ onClose' = onClose \ {p} /\ stale' = {p}
  /\ UNCHANGED <<connected, losses, isListening, task, stream, streams, input, output,
                 topic, answering, excused>> /\ UNCHANGED dialVars

(***************************************************************************)
(* The relays                                                              *)
(***************************************************************************)
Push(p, msg) == output' = [output EXCEPT ![p] = Append(@, msg)]
To(msg) == IF msg.type = "request" THEN Dst[msg.dial] ELSE Src[msg.dial]
HasStream(r, p) == p \in streams /\ RelayOf[p] = r

\* The relays that have subscribed to the topic.
Subscribers(r) == Relays \ {r}

\* On the topic, when the destination keeps no stream to this relay.
Publish(r, msg) == IF HasStream(r, To(msg)) THEN topic
                   ELSE topic \cup {<<msg, s>> : s \in Subscribers(r)}

Forward(p) ==
  LET msg == Head(input[p]) IN
  /\ stream[p] /\ input[p] # <<>>
  /\ input' = [input EXCEPT ![p] = Tail(@)]
  /\ IF HasStream(RelayOf[p], To(msg)) THEN Push(To(msg), msg) ELSE UNCHANGED output
  /\ topic' = Publish(RelayOf[p], msg)
  /\ UNCHANGED answering /\ UNCHANGED peerVars /\ UNCHANGED dialVars

\* _handlePubSubMessage: handed to the destination, or ignored.
HandlePubSubMessage(msg, r) ==
  /\ <<msg, r>> \in topic /\ topic' = topic \ {<<msg, r>>}
  /\ IF HasStream(r, To(msg)) THEN Push(To(msg), msg) ELSE UNCHANGED output
  /\ UNCHANGED <<input, answering>> /\ UNCHANGED peerVars /\ UNCHANGED dialVars

\* After a stream has been lost, its pipe may still take one that is pushed.
LoseInput(p) ==
  /\ losses > 0 /\ input[p] # <<>> /\ input' = [input EXCEPT ![p] = Tail(@)]
  /\ UNCHANGED <<output, topic, answering>> /\ UNCHANGED peerVars
  /\ UNCHANGED dialVars

(***************************************************************************)
(* The destination: processRequest                                         *)
(***************************************************************************)
ProcessRequest(p) ==
  /\ output[p] # <<>> /\ Head(output[p]).type = "request"
  /\ output' = [output EXCEPT ![p] = Tail(@)]
  /\ answering' = answering \cup {Head(output[p]).dial}
  /\ UNCHANGED <<input, topic>> /\ UNCHANGED peerVars /\ UNCHANGED dialVars

Answer(d) ==
  /\ d \in answering /\ answering' = answering \ {d}
  /\ input' = [input EXCEPT ![Dst[d]] = Append(@, [type |-> "response", dial |-> d])]
  /\ UNCHANGED <<output, topic>> /\ UNCHANGED peerVars /\ UNCHANGED dialVars

(***************************************************************************)
(* The dialer: _connect                                                    *)
(***************************************************************************)
\* Its response is waited for before the offer is pushed.
AwaitResponse(d) == onResponse' = onResponse \cup {d}

Offer(d) ==
  /\ dial[d] = "idle" /\ dial' = [dial EXCEPT ![d] = "offered"]
  /\ AwaitResponse(d)
  /\ input' = [input EXCEPT ![Src[d]] = Append(@, [type |-> "request", dial |-> d])]
  /\ UNCHANGED <<gave, output, topic, answering>> /\ UNCHANGED peerVars

\* Faulty: who has answered is not looked at.
AnswersAny(d, e) == Src[e] = Src[d]

\* Only the two peers are compared.
Answers(d, e) == Src[e] = Src[d] /\ Dst[e] = Dst[d]

\* The DialResponseListener gives the response to every handler that is registered.
Dispatch(e) == {d \in onResponse : Answers(d, e)}

Response(p) ==
  /\ output[p] # <<>> /\ Head(output[p]).type = "response"
  /\ output' = [output EXCEPT ![p] = Tail(@)]
  /\ LET e   == Head(output[p]).dial
         for == Dispatch(e)
     IN  /\ onResponse' = onResponse \ for
         /\ gave' = [d \in Dials |-> IF d \in for /\ dial[d] = "offered" THEN e
                                     ELSE gave[d]]
         /\ dial' = [d \in Dials |-> IF d \in for /\ dial[d] = "offered"
                                     THEN "answered" ELSE dial[d]]
  /\ UNCHANGED <<input, topic, answering>> /\ UNCHANGED peerVars

\* The channels of an offer and its own answer are ready.  The destination goes
\* on only if its listener has an address by then: otherwise its handler throws,
\* and what the dialer upgrades is answered by nobody.
ReadyInbound(p) == p \in onClose \cup stale

\* (Both upgrades at once: they need each other's messages.)
Opens(d) == /\ dial[d] = "answered" /\ gave[d] = d /\ ReadyInbound(Dst[d])
            /\ dial' = [dial EXCEPT ![d] = "open"]
            /\ UNCHANGED <<onResponse, gave, input, output, topic, answering>>
            /\ UNCHANGED peerVars

\* The signal of the dial is aborted, its channel fails or the upgrade does: the
\* response handler, if there still is one, stays where it is.
Fail(d) == /\ dial[d] \in {"offered", "answered"}
           /\ dial' = [dial EXCEPT ![d] = "failed"]
           /\ UNCHANGED <<onResponse, gave, input, output, topic, answering>>
           /\ UNCHANGED peerVars

Next == \/ \E p \in Peers :
             \/ Connect(p) \/ StreamOpens(p) \/ ListenFails(p)
             \/ ListenEnds(p) \/ Disconnect(p) \/ OtherLeaves(p) \/ Forward(p) \/ LoseInput(p)
             \/ ProcessRequest(p) \/ Response(p)
        \/ \E x \in topic : HandlePubSubMessage(x[1], x[2])
        \/ \E d \in Dials : Answer(d) \/ Offer(d) \/ Opens(d) \/ Fail(d)

Spec == Init /\ [][Next]_vars

(***************************************************************************)
(* Properties                                                              *)
(***************************************************************************)

\* A dial is given the answer to its own offer, unless the same peer dialled the
\* same destination another time: nothing in a response says which of them it
\* belongs to.
OwnAnswer == \A d \in Dials : gave[d] \notin {None, d} =>
  \E e \in Dials \ {d} : dial[e] # "idle" /\ Src[e] = Src[d] /\ Dst[e] = Dst[d]
                           /\ gave[d] = e

\* A peer connected with its relay can be reached through it once it is done
\* listening, unless listening failed or the connection was lost during it: in
\* both cases AutoSignal tries again only when something else happens.
ListensAgain == \A p \in connected :
  task[p] = None => p \in streams \/ p \in excused

\* A peer whose AutoSignal believes it listens announces the address at which it
\* is dialled through its relay, and the other way round: the two keep track of
\* the relay with handlers of their own.  It fails when the relay is lost during
\* listen, and when another peer's disconnection has used up the listener's.
AnnouncedWhileListening == \A p \in Peers :
  task[p] = None => \/ p \in isListening <=> p \in onClose
                    \/ p \in excused \cup stale

===============================================================================
