------------------------------- MODULE Identify -------------------------------
(***************************************************************************)
(* What two connected js-libp2p nodes know of each other's protocols       *)
(* (src/js-libp2p/src): the identify service asks on every new connection  *)
(* and pushes what changes, each over a stream of its own; the upgrader     *)
(* negotiates the streams and holds them to the limits of their protocol;   *)
(* the registrar tells the topologies of the peers that speak theirs.  The *)
(* ping and fetch services use streams in the same way.                    *)
(*                                                                         *)
(* A stream has two ends that do not change at the same time.  The ends of *)
(* a message, the verification of a record and the registrar's reading of  *)
(* the protocol book are awaited: anything may happen before them.         *)
(***************************************************************************)
EXTENDS Naturals, Sequences, FiniteSets

CONSTANTS Nodes,       \* two
          Slots,       \* bounds the streams that exist at a time
          Protos,      \* the protocols whose handlers come and go
          Topologies,  \* those of them a topology of each node is registered for
          MaxInbound, MaxOutbound, \* [Kinds -> Nat]: the limits of the handlers
          Requesters,  \* the nodes whose user pings and fetches
          MaxVersion, MaxLinks     \* bounds: [Nodes -> changes, plus one], connections

Kinds == {"identify", "push", "ping", "fetch"}

ASSUME IdentifyAssumption ==
  /\ IsFiniteSet(Nodes) /\ Cardinality(Nodes) = 2 /\ IsFiniteSet(Slots)
  /\ Topologies \subseteq Protos
  /\ MaxInbound \in [Kinds -> Nat \ {0}] /\ MaxOutbound \in [Kinds -> Nat \ {0}]

VARIABLES link,   \* the connection between the two, and how many there were
          self,   \* [Nodes -> what it tells of itself]: its protocols, with the
                  \* number of changes so far (history)
          book,   \* [Nodes -> what its peer store says of the other node]
          stream, \* [Slots -> the stream of the slot]
          due,    \* [Nodes -> what its identify service is about to open]
          events, \* [Nodes -> the connection events its registrar has not handled]
          told,   \* [Nodes -> the topologies told that the other is connected]
          missed  \* nodes of which the other was not told all (history)

vars == <<link, self, book, stream, due, events, told, missed>>

Other(n) == CHOOSE m \in Nodes : m # n
Unknown == [version |-> 0, protos |-> {}, known |-> FALSE]
NoStream == [kind |-> "none", from |-> "none", out |-> "closed", in |-> "closed",
             news |-> Unknown]

Init == /\ link = [open |-> FALSE, count |-> 0]
        /\ self = [n \in Nodes |-> [version |-> 1, protos |-> {}, known |-> TRUE]]
        /\ book = [n \in Nodes |-> Unknown]
        /\ stream = [s \in Slots |-> NoStream]
        /\ due = [n \in Nodes |-> [identify |-> 0, push |-> 0]]
        /\ events = [n \in Nodes |-> <<>>]
        /\ told = [n \in Nodes |-> {}]
        /\ missed = {}

(***************************************************************************)
(* Streams: Connection.newStream at one end, onIncomingStream at the other *)
(***************************************************************************)

\* The node whose protocols the stream carries.
Teller(r) == IF r.kind = "push" THEN {r.from}
             ELSE IF r.kind = "identify" THEN {Other(r.from)} ELSE {}

OpenStream(n, k, s, news) ==
  /\ link.open /\ stream[s] = NoStream
  /\ stream' = [stream EXCEPT ![s] = [kind |-> k, from |-> n, out |-> "opening",
                                      in |-> "opening", news |-> news]]

\* countStreams.
Outbound(n, k) == {s \in Slots : stream[s].from = n /\ stream[s].kind = k
                                   /\ stream[s].out = "open"}
Inbound(n, k) == {s \in Slots : stream[s].from = Other(n) /\ stream[s].kind = k
                                  /\ stream[s].in = "open"}

\* Faulty: the directions are mixed up.
FullSwapped(n, k, incoming) ==
  IF incoming THEN Cardinality(Outbound(n, k)) = MaxInbound[k]
              ELSE Cardinality(Inbound(n, k)) = MaxOutbound[k]

Full(n, k, incoming) ==
  IF incoming THEN Cardinality(Inbound(n, k)) = MaxInbound[k]
              ELSE Cardinality(Outbound(n, k)) = MaxOutbound[k]

\* Aborted, timed out or refused: neither end gets any further.
Broken(s) == /\ stream' = [stream EXCEPT ![s] = NoStream]
             /\ missed' = missed \cup Teller(stream[s])

StreamFails(s) ==
  /\ stream[s].out \in {"opening", "open"} /\ Broken(s)
  /\ UNCHANGED <<link, self, book, due, events, told>>

\* The handler of the protocol is given the stream.
OnStream(s) == stream' = [stream EXCEPT ![s].in = "open"]

\* The responder has negotiated the protocol, and now knows that the peer speaks
\* it.
Accept(s) ==
  LET r == stream[s]
      n == Other(r.from)
  IN  /\ r.in = "opening"
      /\ IF Full(n, r.kind, TRUE) THEN Broken(s) /\ UNCHANGED book
         ELSE /\ OnStream(s)
              /\ book' = [book EXCEPT ![n].known = @ \/ r.kind = "push"]
              /\ UNCHANGED missed
      /\ UNCHANGED <<link, self, due, events, told>>

\* And so has, after it, the node that opened the stream.
Select(s) ==
  LET r == stream[s] IN
  /\ r.out = "opening" /\ r.in # "opening"
  /\ IF Full(r.from, r.kind, FALSE) THEN Broken(s)
     ELSE stream' = [stream EXCEPT ![s].out = "open"] /\ UNCHANGED missed
  /\ UNCHANGED <<link, self, book, due, events, told>>

(***************************************************************************)
(* Changes of a node's own record                                          *)
(***************************************************************************)

\* Faulty: only a new protocol is pushed.
PushDueAdded(n, protos) == IF self[n].protos \subseteq protos /\ protos # self[n].protos
                           THEN [due EXCEPT ![n].push = @ + 1] ELSE due

\* change:protocols or change:multiaddrs of the node itself.
PushDue(n, protos) == [due EXCEPT ![n].push = @ + 1]

Tells(n, protos) ==
  /\ self[n].version < MaxVersion[n]
  /\ self' = [self EXCEPT ![n] = [self[n] EXCEPT !.version = @ + 1, !.protos = protos]]
  /\ due' = PushDue(n, protos)
  /\ UNCHANGED <<link, book, stream, events, told, missed>>

RegistrarHandle(n, p) ==
  p \notin self[n].protos /\ Tells(n, self[n].protos \cup {p})
RegistrarUnhandle(n, p) ==
  p \in self[n].protos /\ Tells(n, self[n].protos \ {p})

\* The node handles several protocols at a time, each of which is stored by itself.
Handle(n) == \E p \in Protos : RegistrarHandle(n, p)
Unhandle(n) == \E p \in Protos : RegistrarUnhandle(n, p)

\* The peer record updater seals a record with other addresses.
UpdatePeerRecord(n) == Tells(n, self[n].protos)

(***************************************************************************)
(* Identify and identify push                                              *)
(***************************************************************************)
OpenIdentify(n, s) ==
  /\ due[n].identify > 0 /\ OpenStream(n, "identify", s, Unknown)
  /\ due' = [due EXCEPT ![n].identify = 0]
  /\ UNCHANGED <<link, self, book, events, told, missed>>

\* pushToPeerStore leaves out a peer it does not know to speak identify push.
SkipPush(n) ==
  /\ due[n].push > 0 /\ (~link.open \/ ~book[n].known)
  /\ due' = [due EXCEPT ![n].push = @ - 1]
  /\ missed' = missed \cup {n}
  /\ UNCHANGED <<link, self, book, stream, events, told>>

\* push reads what it sends before it opens the stream.
OpenPush(n, s) ==
  /\ due[n].push > 0 /\ book[n].known /\ OpenStream(n, "push", s, self[n])
  /\ due' = [due EXCEPT ![n].push = @ - 1]
  /\ UNCHANGED <<link, self, book, events, told, missed>>

\* The push is sent and its stream closed.
SendPush(s) ==
  /\ stream[s].kind = "push" /\ stream[s].out = "open"
  /\ stream' = [stream EXCEPT ![s].out = "closed"]
  /\ UNCHANGED <<link, self, book, due, events, told, missed>>

\* _handlePush has read it, and closes its end before the record is verified.
ReadPush(s) ==
  /\ stream[s].kind = "push" /\ stream[s].out = "closed" /\ stream[s].in = "open"
  /\ stream' = [stream EXCEPT ![s].in = "verifying"]
  /\ UNCHANGED <<link, self, book, due, events, told, missed>>

\* _handleIdentify needs no request.
AnswerIdentify(s) ==
  LET r == stream[s] IN
  /\ r.kind = "identify" /\ r.in = "open"
  /\ stream' = [stream EXCEPT ![s].in = "closed", ![s].news = self[Other(r.from)]]
  /\ UNCHANGED <<link, self, book, due, events, told, missed>>

ReceiveIdentify(s) ==
  /\ stream[s].kind = "identify" /\ stream[s].out = "open" /\ stream[s].in = "closed"
  /\ stream' = [stream EXCEPT ![s].out = "verifying"]
  /\ UNCHANGED <<link, self, book, due, events, told, missed>>

(***************************************************************************)
(* The protocol book changes: the registrar's _onProtocolChange            *)
(***************************************************************************)

\* Faulty: what the peer no longer speaks is not looked at.
ToldAdded(n, protos) ==
  told[n] \cup (IF link.open THEN (protos \ book[n].protos) \cap Topologies ELSE {})

ToldOf(n, protos) ==
  (told[n] \ (book[n].protos \ protos))
     \cup (IF link.open THEN (protos \ book[n].protos) \cap Topologies ELSE {})

\* The record is verified, and consumed or not: the protocols are stored.
Store(n, s) ==
  LET news == stream[s].news
      m == Other(n)
  IN  /\ stream' = [stream EXCEPT ![s] = NoStream]
      /\ book' = [book EXCEPT ![n] = news]
      /\ told' = [told EXCEPT ![n] = ToldOf(n, news.protos)]
      /\ missed' = IF news = self[m] THEN missed \ {m}
                   ELSE IF news.version < book[n].version THEN missed \cup {m}
                   ELSE missed
      /\ UNCHANGED <<link, self, due, events>>

StoreIdentify(s) ==
  stream[s].kind = "identify" /\ stream[s].out = "verifying" /\ Store(stream[s].from, s)

StorePush(s) ==
  stream[s].kind = "push" /\ stream[s].in = "verifying" /\ Store(Other(stream[s].from), s)

(***************************************************************************)
(* Ping and fetch                                                          *)
(***************************************************************************)
\* (Bound: on the first connection; streams and their limits do not outlive it.)
Request(n, k, s) ==
  /\ link.count = 1 /\ n \in Requesters /\ OpenStream(n, k, s, Unknown)
  /\ UNCHANGED <<link, self, book, due, events, told, missed>>

Fetch(n, s) == Request(n, "fetch", s)
Ping(n, s) == Request(n, "ping", s)

\* fetch: the handler closes the stream once it has answered, whether it found
\* the value, did not or has no lookup function for the key.
AnswerFetch(s) ==
  /\ stream[s].kind = "fetch" /\ stream[s].out = "open" /\ stream[s].in = "open"
  /\ stream' = [stream EXCEPT ![s].in = "closed"]
  /\ UNCHANGED <<link, self, book, due, events, told, missed>>

\* The node that asked has its answer, and closes its end.
Answered(s, k) ==
  /\ stream[s].kind = k /\ stream[s].out = "open"
  /\ stream' = [stream EXCEPT ![s] = NoStream]
  /\ UNCHANGED <<link, self, book, due, events, told, missed>>

FetchAnswered(s) == stream[s].in = "closed" /\ Answered(s, "fetch")

\* ping's handler echoes for as long as it is sent anything.
Echoes(s) == stream[s].in = "open"

PingAnswered(s) == Echoes(s) /\ Answered(s, "ping")

(***************************************************************************)
(* The connection, and the registrar's _onConnect and _onDisconnect        *)
(***************************************************************************)
Opens ==
  /\ ~link.open /\ link.count < MaxLinks
  /\ link' = [open |-> TRUE, count |-> link.count + 1]
  /\ due' = [n \in Nodes |-> [due[n] EXCEPT !.identify = 1]]
  /\ events' = [n \in Nodes |-> Append(events[n], "connect")]
  /\ UNCHANGED <<self, book, stream, told, missed>>

\* Every stream ends, except that what was read of it is still verified.
Closes ==
  /\ link.open /\ link' = [link EXCEPT !.open = FALSE]
  /\ stream' = [s \in Slots |->
        IF "verifying" \in {stream[s].in, stream[s].out} THEN stream[s] ELSE NoStream]
  /\ missed' = missed \cup UNION {Teller(stream[s]) : s \in
                  {t \in Slots : stream[t] # NoStream
                     /\ "verifying" \notin {stream[t].in, stream[t].out}}}
                 \cup {Other(n) : n \in {m \in Nodes : due[m].identify > 0}}
  /\ due' = [n \in Nodes |-> [due[n] EXCEPT !.identify = 0]]
  /\ events' = [n \in Nodes |-> Append(events[n], "disconnect")]
  /\ UNCHANGED <<self, book, told>>

\* The peer's protocols have been read from the book.
TellTopologies(n) ==
  /\ events[n] # <<>> /\ events' = [events EXCEPT ![n] = Tail(@)]
  /\ told' = [told EXCEPT ![n] = IF Head(events[n]) = "connect"
                THEN @ \cup (book[n].protos \cap Topologies)
                ELSE @ \ book[n].protos]
  /\ UNCHANGED <<link, self, book, stream, due, missed>>

StreamStep(s) == \/ StreamFails(s) \/ Accept(s) \/ Select(s)
                 \/ SendPush(s) \/ ReadPush(s) \/ AnswerIdentify(s)
                 \/ ReceiveIdentify(s) \/ StoreIdentify(s) \/ StorePush(s)
                 \/ AnswerFetch(s) \/ FetchAnswered(s) \/ PingAnswered(s)

Next == \/ \E s \in Slots : StreamStep(s)
        \/ \E n \in Nodes, s \in Slots :
             OpenIdentify(n, s) \/ OpenPush(n, s) \/ Fetch(n, s) \/ Ping(n, s)
        \/ \E n \in Nodes : \/ SkipPush(n) \/ UpdatePeerRecord(n) \/ TellTopologies(n)
                            \/ Handle(n) \/ Unhandle(n)
        \/ Opens \/ Closes

Spec == Init /\ [][Next]_vars

(***************************************************************************)
(* Properties                                                              *)
(***************************************************************************)

\* Though the limit is looked at only after a stream has been negotiated, while
\* others are being negotiated, and with an equality, neither node ever has more
\* streams of a protocol in use than its handler allows.
WithinStreamLimits == \A n \in Nodes, k \in Kinds :
  /\ Cardinality(Inbound(n, k)) <= MaxInbound[k]
  /\ Cardinality(Outbound(n, k)) <= MaxOutbound[k]

\* Once the registrar has handled the connection events, the topologies that
\* were told of the peer are those of the protocols it is known to speak, if it
\* is connected, whichever of the protocol change, the connection and its end
\* was learnt of first.
ToldAgrees == \A n \in Nodes : events[n] = <<>> =>
  told[n] = IF link.open THEN book[n].protos \cap Topologies ELSE {}

\* When no stream and no push is left, a node knows what the connected peer now
\* tells of itself, unless an exchange failed, was refused by a limit, was left
\* out because the peer was not identified yet, or was stored after a later one.
UpToDate ==
  link.open /\ (\A s \in Slots : stream[s] = NoStream)
    /\ (\A n \in Nodes : due[n] = [identify |-> 0, push |-> 0])
  => \A n \in Nodes : book[Other(n)] = self[n] \/ n \in missed
===============================================================================
