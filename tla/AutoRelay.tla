------------------------------ MODULE AutoRelay -------------------------------
(***************************************************************************)
(* How a js-libp2p node chooses the relays it can be reached through       *)
(* (src/js-libp2p/src/circuit): a peer that speaks the relay protocol is   *)
(* asked whether it hops; the node then listens on the peer's circuit      *)
(* address, which the circuit listener announces for as long as the relay  *)
(* is connected; when a relay is lost, another is looked for among the     *)
(* peers known to hop.                                                     *)
(*                                                                         *)
(* Two kinds of asynchronous functions do this for a peer: _handleProtocols*)
(* of the peer ("own") and the search started when the peer was lost       *)
(* ("search"), which goes through the known peers, dials those there is no *)
(* connection with, and at last asks the content routers, with whom relays *)
(* advertise.                                                              *)
(***************************************************************************)
EXTENDS Naturals, FiniteSets

CONSTANTS Peers, Hops,      \* the peers, and those that can hop
          MaxListeners,     \* relays to listen on
          Routers           \* there is a content router, such as a DHT

VARIABLES connected,     \* peers there is a direct connection with
          speaks,        \* peers whose protocols in the book include the relay codec
          hopKnown,      \* peers whose metadata says they hop
          listenRelays,  \* of AutoRelay
          announced,     \* listeningAddrs: relays the circuit listeners announce
          task,          \* [{"own", "search"} \X Peers -> what the function awaits]
          updates,       \* the node's peer record is to be updated
          record,        \* relays whose circuit address the peer record has
          advertising,   \* peers with a timer that advertises their relay service
          provided       \* peers the content routers name as relays

vars == <<connected, speaks, hopKnown, listenRelays, announced, task,
          updates, record, advertising, provided>>
routing == <<record, advertising, provided>>
quiet == <<announced, updates>>

Tasks == {"own", "search"} \X Peers

\* What is awaited, for which relay; the loop of the search it belongs to; the
\* peers that are still to be looked at, to be dialled, and not to be tried.
NoTask == [at |-> "none", relay |-> {}, loop |-> "none",
           known |-> {}, toDial |-> {}, tried |-> {}]

Init == /\ connected = {} /\ speaks = {} /\ hopKnown = {}
        /\ listenRelays = {} /\ announced = {}
        /\ task = [k \in Tasks |-> NoTask]
        /\ updates = FALSE /\ record = {}
        /\ advertising = {} /\ provided = {}

Waits(k, at, p) == task' = [task EXCEPT ![k] = [@ EXCEPT !.at = at, !.relay = {p}]]

(***************************************************************************)
(* The peers                                                               *)
(***************************************************************************)

\* peer:connect starts _onPeerConnected, change:protocols _onProtocolChange.
\* (Bound: one _handleProtocols of a peer at a time.)
Connect(p) ==
  /\ p \notin connected /\ connected' = connected \cup {p}
  /\ task' = IF task[<<"own", p>>] = NoTask
             THEN [task EXCEPT ![<<"own", p>>].at = "protocols"] ELSE task
  /\ UNCHANGED <<speaks, hopKnown, listenRelays, quiet, routing>>

ProtocolChange(p) ==
  /\ task[<<"own", p>>] = NoTask
  /\ speaks' = IF p \in speaks THEN speaks \ {p} ELSE speaks \cup {p}
  /\ task' = [task EXCEPT ![<<"own", p>>].at = "protocols"]
  /\ UNCHANGED <<connected, hopKnown, listenRelays, quiet, routing>>

Enough(relays) == Cardinality(relays) >= MaxListeners

\* _removeListenRelay: another relay is looked for, but not the one just lost.
\* (Bound: one search for each peer lost, the last.)
Lost(p, tasks) ==
  /\ listenRelays' = listenRelays \ {p}
  /\ task' = IF p \in listenRelays /\ ~Enough(listenRelays \ {p})
             THEN [tasks EXCEPT ![<<"search", p>>] =
                     [NoTask EXCEPT !.at = "listing", !.tried = {p}]]
             ELSE tasks

\* A listener's event.  However many there are, each update reads the addresses
\* of its moment.
Announces(relays) == announced' = relays /\ updates' = TRUE

\* The circuit listener no longer announces the relay.
ListenerDisconnected(p) ==
  IF p \in announced THEN Announces(announced \ {p}) ELSE UNCHANGED quiet

\* AutoRelay, if it had the relay, looks for another.
Disconnect(p) ==
  /\ p \in connected /\ connected' = connected \ {p}
  /\ ListenerDisconnected(p) /\ Lost(p, task)
  /\ UNCHANGED <<speaks, hopKnown, routing>>

(***************************************************************************)
(* _handleProtocols                                                        *)
(***************************************************************************)
HandleProtocols(p) ==
  LET k == <<"own", p>> IN
  /\ task[k].at = "protocols"
  /\ IF p \notin speaks THEN Lost(p, [task EXCEPT ![k] = NoTask])
     ELSE /\ UNCHANGED listenRelays
          /\ IF p \in listenRelays \/ p \notin connected
             THEN task' = [task EXCEPT ![k] = NoTask]
             ELSE Waits(k, "asking", p)
  /\ UNCHANGED <<connected, speaks, hopKnown, quiet, routing>>

\* What a peer answers: one that runs this code says it hops, others need not.
HandleCanHop(p) == p \in Hops

CanHop(p, ok) ==
  LET k == <<"own", p>> IN
  /\ task[k].at = "asking"
  /\ ok => HandleCanHop(p) /\ p \in connected
  /\ IF ok THEN Waits(k, "hops", p) ELSE task' = [task EXCEPT ![k] = NoTask]
  /\ UNCHANGED <<connected, speaks, hopKnown, listenRelays, quiet, routing>>

\* That the peer hops is kept.
SupportsHop(p) ==
  LET k == <<"own", p>> IN
  /\ task[k].at = "hops" /\ hopKnown' = hopKnown \cup {p}
  /\ Waits(k, "checking", p)
  /\ UNCHANGED <<connected, speaks, listenRelays, quiet, routing>>

(***************************************************************************)
(* _addListenRelay                                                         *)
(***************************************************************************)

\* What the function that called it does next: a loop of the search ends as soon
\* as there are enough relays.
GoesOn(k, relays) == task' = [task EXCEPT ![k] =
  IF task[k].loop = "none" \/ Enough(relays) THEN NoTask
  ELSE [task[k] EXCEPT !.at = task[k].loop, !.relay = {}]]

CheckRelays(k) ==
  /\ task[k].at = "checking"
  /\ IF Enough(listenRelays) THEN GoesOn(k, listenRelays)
     ELSE task' = [task EXCEPT ![k].at = "listening"]
  /\ UNCHANGED <<connected, speaks, hopKnown, listenRelays, quiet, routing>>

\* The circuit listener opens a connection with the relay if there is none any
\* more, and announces the relay.
CircuitListen(p) == connected' = connected \cup {p} /\ Announces(announced \cup {p})

\* Every address is tried at once: one is listened on, or none.
Listen(k, p, ok) ==
  /\ task[k].at = "listening" /\ p \in task[k].relay
  /\ IF ok THEN /\ CircuitListen(p) /\ task' = [task EXCEPT ![k].at = "settling"]
           ELSE /\ GoesOn(k, listenRelays) /\ UNCHANGED <<connected, quiet>>
  /\ UNCHANGED <<speaks, hopKnown, listenRelays, routing>>

\* Every address has been tried.
AddListenRelay(k, p) ==
  /\ task[k].at = "settling" /\ p \in task[k].relay
  /\ listenRelays' = listenRelays \cup {p}
  /\ GoesOn(k, listenRelays')
  /\ UNCHANGED <<connected, speaks, hopKnown, quiet, routing>>

(***************************************************************************)
(* _listenOnAvailableHopRelays                                             *)
(***************************************************************************)
SearchKeeps == UNCHANGED <<speaks, hopKnown, listenRelays, quiet, routing>>

KnownHops(k) ==
  /\ task[k].at = "listing"
  /\ task' = [task EXCEPT ![k] = [@ EXCEPT !.at = "known", !.known = hopKnown \ task[k].tried]]
  /\ UNCHANGED connected /\ SearchKeeps

Usable(k) == (task[k].known \ listenRelays) \cap connected

\* The peers that are not connected are passed over, to be dialled afterwards.
TryConnected(k, p, passed) ==
  /\ task[k].at = "known" /\ p \in Usable(k)
  /\ passed \subseteq task[k].known \ Usable(k)
  /\ task' = [task EXCEPT ![k] =
       [@ EXCEPT !.at = "checking", !.loop = "known", !.relay = {p},
                 !.known = @ \ (passed \cup {p}),
                 !.toDial = @ \cup (passed \ listenRelays)]]
  /\ UNCHANGED connected /\ SearchKeeps

NoneConnected(k) ==
  /\ task[k].at = "known" /\ Usable(k) = {}
  /\ task' = [task EXCEPT ![k] =
       [@ EXCEPT !.at = "dialling", !.known = {},
                 !.toDial = @ \cup (task[k].known \ listenRelays)]]
  /\ UNCHANGED connected /\ SearchKeeps

\* _tryToListenOnRelay, from the loop the search is in.
TryRelay(k, p, ok, rest) ==
  /\ p \in connected => ok
  /\ IF ok THEN /\ connected' = connected \cup {p}
                /\ task' = [task EXCEPT ![k] =
                     [rest EXCEPT !.at = "checking", !.loop = rest.at, !.relay = {p}]]
           ELSE /\ UNCHANGED connected
                /\ task' = [task EXCEPT ![k] =
                     IF Enough(listenRelays) THEN NoTask ELSE rest]
  /\ SearchKeeps

DialKnown(k, p, ok) ==
  /\ task[k].at = "dialling" /\ p \in task[k].toDial
  /\ TryRelay(k, p, ok, [task[k] EXCEPT !.toDial = @ \ {p}])

(***************************************************************************)
(* The addresses of the node                                               *)
(***************************************************************************)

\* What the circuit listeners, the transport manager and the address manager say.
CircuitAddrs == announced
TransportAddrs == CircuitAddrs
GetAddresses == TransportAddrs

UpdatePeerRecord == /\ updates /\ updates' = FALSE
                    /\ record' = GetAddresses
                    /\ UNCHANGED <<connected, speaks, hopKnown, listenRelays, announced>>
                    /\ UNCHANGED <<task, advertising, provided>>

(***************************************************************************)
(* The content routers                                                     *)
(***************************************************************************)

\* findProviders fails when there is no router.
FindProviders(k) ==
  /\ task[k].at = "dialling" /\ task[k].toDial = {}
  /\ task' = [task EXCEPT ![k] =
       IF Routers THEN [NoTask EXCEPT !.at = "searching"] ELSE NoTask]
  /\ UNCHANGED connected /\ SearchKeeps

\* uniquePeers: each provider once.
UniquePeers(k) == provided \ task[k].tried

TryProvider(k, p, ok) ==
  /\ task[k].at = "searching" /\ p \in UniquePeers(k)
  /\ TryRelay(k, p, ok, [task[k] EXCEPT !.tried = @ \cup {p}])

\* The routers have no more providers, or had none: requirePeers fails.
SearchEnds(k) ==
  /\ task[k].at = "searching"
  /\ task' = [task EXCEPT ![k] = NoTask]
  /\ UNCHANGED connected /\ SearchKeeps

RelayKeeps == /\ UNCHANGED <<connected, speaks, hopKnown, listenRelays, task>>
              /\ UNCHANGED <<quiet, record>>

\* A peer that hops starts and stops its relay service.
RelayStart(p) ==
  /\ p \in Hops \ advertising /\ advertising' = advertising \cup {p}
  /\ UNCHANGED provided /\ RelayKeeps

RelayStop(p) ==
  /\ p \in advertising /\ advertising' = advertising \ {p}
  /\ UNCHANGED provided /\ RelayKeeps

\* The timer: with no router the service stops.
AdvertiseService(p) ==
  /\ p \in advertising
  /\ IF Routers THEN provided' = provided \cup {p} /\ UNCHANGED advertising
                 ELSE advertising' = advertising \ {p} /\ UNCHANGED provided
  /\ RelayKeeps

Next == \/ \E p \in Peers : \/ Connect(p) \/ Disconnect(p) \/ ProtocolChange(p)
                            \/ HandleProtocols(p) \/ SupportsHop(p)
                            \/ \E ok \in BOOLEAN : CanHop(p, ok)
                            \/ RelayStart(p) \/ RelayStop(p) \/ AdvertiseService(p)
        \/ UpdatePeerRecord
        \/ \E k \in Tasks : \/ CheckRelays(k) \/ KnownHops(k) \/ NoneConnected(k)
                            \/ FindProviders(k) \/ SearchEnds(k)
                            \/ \E p \in Peers : AddListenRelay(k, p)
                            \/ \E p \in Peers, passed \in SUBSET Peers :
                                 TryConnected(k, p, passed)
                            \/ \E p \in Peers, ok \in BOOLEAN :
                                 \/ Listen(k, p, ok) \/ DialKnown(k, p, ok)
                                 \/ TryProvider(k, p, ok)

Spec == Init /\ [][Next]_vars

(***************************************************************************)
(* Properties                                                              *)
(***************************************************************************)

\* "maximum number of relays to listen" (circuit/index.ts:46): the node is never
\* reachable through more relays than maxListeners.
WithinMaxListeners == Cardinality(listenRelays) <= MaxListeners
===============================================================================
