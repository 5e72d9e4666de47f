----------------------------- MODULE Connections -----------------------------
(***************************************************************************)
(* The connections of one js-libp2p node, from the socket to the table the *)
(* rest of the node asks: the connection manager, with the parts of the    *)
(* upgrader, the connection and the auto dialler that change what it       *)
(* tracks, and the latency monitor that makes it prune, through the stages *)
(* of the node's life (src/js-libp2p/src).                                 *)
(*                                                                         *)
(* Every await is a point where anything else may happen: between the      *)
(* event `connection' and the end of its handler lie the writing of the    *)
(* peer's key, the reading of the tags and the closing of what is pruned.  *)
(* `task' holds what each such handler still has to do.                    *)
(***************************************************************************)
EXTENDS Naturals, FiniteSets

CONSTANTS Peers,
          Conns,          \* every connection that may ever be made
          PeerOf,         \* [Conns -> Peers]
          Inbound,        \* the connections remote peers make
          Rated,          \* those from an address whose host is rate limited
          AllowListed, DenyListed,
          Value,          \* [Peers -> Nat]: the sum of the peer's tags
          MaxConnections, MinConnections, MaxPending

ASSUME ConnectionsAssumption ==
  /\ IsFiniteSet(Conns) /\ "latency" \notin Conns /\ "stop" \notin Conns
  /\ PeerOf \in [Conns -> Peers] /\ Inbound \subseteq Conns
  /\ Value \in [Peers -> Nat]
  /\ MaxConnections \in Nat /\ MinConnections \in Nat /\ MaxPending \in Nat

VARIABLES stage,    \* of the node: down, starting, up, stopping or closing
          conn,     \* [Conns -> what has become of the connection]: gone, once it
                    \* has been refused, has failed or is closed
          connections, \* [Peers -> SUBSET Conns]: the manager's table
          pending,  \* incomingPendingConnections
          task,     \* [Tasks -> a handler that has not ended]
          view,     \* [Peers -> the last event dispatched about the peer]
          strays,   \* peers a connection of which was reported to have ended
                    \* while the table did not have it (history)
          auto,     \* the auto dialler: off, or it waits for its timer or for the
                    \* connection it dials
          listening, \* the transports' listeners are open
          timers    \* the latency monitor's timers run

node == <<stage, auto, listening, timers>>

vars == <<stage, conn, connections, pending, task, view, strays, auto, listening,
          timers>>

Tasks == Conns \cup {"latency", "stop"}
NoTask == [at |-> "none", some |-> {}, wait |-> {}, n |-> 0]
Ended == [NoTask EXCEPT !.at = "done"]

Init == /\ stage = "down"
        /\ conn = [c \in Conns |-> "none"]
        /\ connections = [p \in Peers |-> {}]
        /\ pending = 0
        /\ task = [k \in Tasks |-> NoTask]
        /\ view = [p \in Peers |-> "none"]
        /\ strays = {}
        /\ auto = "off"
        /\ listening = FALSE /\ timers = FALSE

\* The manager is `started' from start() to stop(); it listens to the upgrader
\* from afterStart() to beforeStop().
Started == stage \in {"starting", "up", "stopping"}
Listening == stage = "up"

Tracked == UNION {connections[p] : p \in Peers}
GetConnections == Cardinality(Tracked)

\* Faulty: the connection replaces the peer's others.
PushAlone(tbl, c) == [tbl EXCEPT ![PeerOf[c]] = {c}]

Push(tbl, c) == [tbl EXCEPT ![PeerOf[c]] = @ \cup {c}]

(***************************************************************************)
(* onDisconnect                                                            *)
(***************************************************************************)

\* Faulty: the peer is kept with its last connection.
ForgetOthers(tbl, c) == [tbl EXCEPT ![PeerOf[c]] =
  IF Cardinality(@) > 1 THEN @ \ {c} ELSE @]

\* With one connection left the entry goes, whichever connection it is.
Forget(tbl, c) == [tbl EXCEPT ![PeerOf[c]] =
  IF Cardinality(@) > 1 THEN @ \ {c} ELSE {}]

\* Faulty: also when other connections are left.
DisconnectAlways(c) == connections[PeerOf[c]] # {}

Disconnects(c) == Cardinality(connections[PeerOf[c]]) = 1

OnDisconnect(c) ==
  IF Started
  THEN /\ connections' = Forget(connections, c)
       /\ strays' = IF c \in Tracked THEN strays ELSE strays \cup {PeerOf[c]}
       /\ view' = IF Disconnects(c)
                  THEN [view EXCEPT ![PeerOf[c]] = "disconnect"] ELSE view
  ELSE UNCHANGED <<connections, view, strays>>

(***************************************************************************)
(* Connection.close, and what closes a connection                          *)
(***************************************************************************)

\* The state of all connections once those of S have been told to close.
Closing(S) == [c \in Conns |-> IF c \in S /\ conn[c] = "open" THEN "closing"
                               ELSE conn[c]]

RemoteClose(c) == /\ conn[c] = "open" /\ conn' = Closing({c})
                  /\ UNCHANGED <<connections, pending, task, view, strays>>
                  /\ UNCHANGED node

CloseConnections(p) == conn' = Closing(connections[p])

HangUp(p) == /\ \E c \in connections[p] : conn[c] = "open"
             /\ CloseConnections(p)
             /\ UNCHANGED <<connections, pending, task, view, strays>>
             /\ UNCHANGED node

\* The socket is closed: the upgrader dispatches connectionEnd.
CloseEnds(c) ==
  /\ conn[c] = "closing" /\ conn' = [conn EXCEPT ![c] = "gone"]
  /\ IF Listening THEN OnDisconnect(c) ELSE UNCHANGED <<connections, view, strays>>
  /\ UNCHANGED <<pending, task>> /\ UNCHANGED node

(***************************************************************************)
(* Inbound connections                                                     *)
(***************************************************************************)

\* acceptIncomingConnection, up to the rate limiter.
Incoming(c) ==
  /\ c \in Inbound /\ conn[c] = "none" /\ listening
  /\ LET next == IF c \in DenyListed THEN "gone"
                 ELSE IF c \in AllowListed THEN "upgrading"
                 ELSE IF pending = MaxPending THEN "gone"
                 ELSE IF c \in Rated THEN "rating"
                 ELSE IF GetConnections < MaxConnections THEN "upgrading"
                 ELSE "gone"
     IN  /\ conn' = [conn EXCEPT ![c] = next]
         /\ pending' = IF next = "upgrading" THEN pending + 1 ELSE pending
  /\ UNCHANGED <<connections, task, view, strays>> /\ UNCHANGED node

\* The limiter has answered; the connections are counted after it.
Consumed(c, ok) ==
  /\ conn[c] = "rating"
  /\ IF ok /\ GetConnections < MaxConnections
     THEN conn' = [conn EXCEPT ![c] = "upgrading"] /\ pending' = pending + 1
     ELSE conn' = [conn EXCEPT ![c] = "gone"] /\ UNCHANGED pending
  /\ UNCHANGED <<connections, task, view, strays>> /\ UNCHANGED node

\* Faulty: afterUpgradeInbound is called only when the upgrade succeeds.
OnSuccess(c, ok) == IF c \in Inbound /\ ok THEN pending - 1 ELSE pending

AfterUpgradeInbound(c, ok) == IF c \in Inbound THEN pending - 1 ELSE pending

(***************************************************************************)
(* Outbound connections                                                    *)
(***************************************************************************)

\* openConnection returns a connection it has, or dials; the dialer has
\* one dial to a peer under way at a time.
Dials(p, c) ==
  /\ connections[p] = {}
  /\ c \notin Inbound /\ PeerOf[c] = p /\ conn[c] = "none"
  /\ \A d \in Conns \ Inbound : PeerOf[d] = p => conn[d] # "upgrading"

OpenConnection(p, c) ==
  /\ stage \in {"starting", "up"} /\ Dials(p, c)
  /\ conn' = [conn EXCEPT ![c] = "upgrading"]
  /\ UNCHANGED <<connections, pending, task, view, strays>> /\ UNCHANGED node

AfterDial(c) == auto' = IF auto = c THEN "waits" ELSE auto

\* The dial fails, the gater denies the connection, a handshake fails, or the
\* inbound upgrade times out.
UpgradeFails(c) ==
  /\ conn[c] = "upgrading" /\ conn' = [conn EXCEPT ![c] = "gone"]
  /\ pending' = AfterUpgradeInbound(c, FALSE)
  /\ AfterDial(c)
  /\ UNCHANGED <<stage, connections, task, view, strays, listening, timers>>

\* _createConnection dispatches `connection', which starts _onConnect.
Created(c) ==
  /\ conn[c] = "upgrading"
  /\ conn' = [conn EXCEPT ![c] = "open"]
  /\ task' = IF Listening THEN [task EXCEPT ![c].at = "keys"] ELSE task
  /\ UNCHANGED <<stage, view, strays, listening, timers>>

UpgradedInbound(c) ==
  /\ c \in Inbound /\ Created(c)
  /\ pending' = AfterUpgradeInbound(c, TRUE)
  /\ connections' = IF Listening THEN Push(connections, c) ELSE connections
  /\ UNCHANGED auto

\* A connection that was dialled is stored by openConnection where _onConnect
\* has not done it.
UpgradedOutbound(c) ==
  /\ c \notin Inbound /\ Created(c)
  /\ connections' = Push(connections, c)
  /\ AfterDial(c)
  /\ UNCHANGED pending

(***************************************************************************)
(* The rest of _onConnect: the limit, and pruning                          *)
(***************************************************************************)

Quiet == \A k \in Tasks : task[k].at \in {"none", "done"}

\* Faulty: leaves one too many.
ToPruneLess == IF GetConnections > MaxConnections + 1
               THEN GetConnections - MaxConnections - 1 ELSE 0

ToPrune == IF GetConnections > MaxConnections THEN GetConnections - MaxConnections
           ELSE 0

Connected(c) == [view EXCEPT ![PeerOf[c]] = "connect"]

\* The key is stored: count the connections, and take those of the moment to
\* choose from.
KeyStored(c) ==
  /\ task[c].at = "keys"
  /\ IF ToPrune = 0
     THEN task' = [task EXCEPT ![c] = Ended] /\ view' = Connected(c)
     ELSE /\ task' = [task EXCEPT ![c] =
                [NoTask EXCEPT !.at = "tags", !.some = Tracked, !.n = ToPrune]]
          /\ UNCHANGED view
  /\ UNCHANGED <<conn, connections, pending, strays>> /\ UNCHANGED node

\* The n connections with the peers of least value.  Between peers of the same
\* value the age decides, which is left open.
Lowest(S, n) ==
  {T \in SUBSET S : /\ Cardinality(T) = IF n < Cardinality(S) THEN n ELSE Cardinality(S)
                    /\ \A c \in T, d \in S \ T : Value[PeerOf[c]] <= Value[PeerOf[d]]}

\* The tags are read: close some.  Closing a connection that another close is
\* at work on returns at once.
PruneConnections(k) ==
  /\ task[k].at = "tags"
  /\ \E T \in Lowest(task[k].some, task[k].n) :
       /\ task' = [task EXCEPT ![k] =
            [NoTask EXCEPT !.at = "closing", !.some = T,
                           !.wait = {c \in T : conn[c] = "open"}]]
       /\ conn' = Closing(T)
  /\ UNCHANGED <<connections, pending, view, strays>> /\ UNCHANGED node

\* onDisconnect is invoked manually for each of them.
Pruned(k, c) ==
  /\ task[k].at = "closing" /\ k # "stop" /\ c \in task[k].some
  /\ conn[c] = "gone" \/ c \notin task[k].wait
  /\ task' = [task EXCEPT ![k].some = @ \ {c}]
  /\ OnDisconnect(c)
  /\ UNCHANGED <<conn, pending>> /\ UNCHANGED node

PruningEnds(k) ==
  /\ task[k].at = "closing" /\ k # "stop" /\ task[k].some = {}
  /\ task' = [task EXCEPT ![k] = IF k \in Conns THEN Ended ELSE NoTask]
  /\ view' = IF k \in Conns THEN Connected(k) ELSE view
  /\ UNCHANGED <<conn, connections, pending, strays>> /\ UNCHANGED node

(***************************************************************************)
(* The latency monitor.  Its timers start only when a page that was hidden *)
(* is shown: start() asks isVisible(), which no browser answers with true, *)
(* and outside a browser there is no page.  stop() stops the timers but    *)
(* keeps the page's listener.                                              *)
(***************************************************************************)
\* The event loop is slow: one connection is closed.  (Bound: measured while no
\* handler is at work, though others may begin before the tags are read.)
OnLatencyMeasure ==
  /\ timers /\ Started /\ Listening /\ Quiet /\ Tracked # {}
  /\ task' = [task EXCEPT !["latency"] =
                [NoTask EXCEPT !.at = "tags", !.some = Tracked, !.n = 1]]
  /\ UNCHANGED <<conn, connections, pending, view, strays>>

\* The summary of an interval is emitted.
EmitSummary == OnLatencyMeasure /\ UNCHANGED node

\* (Bound: only where a summary can have an effect.)
PageShown == /\ Listening /\ timers' = TRUE
             /\ UNCHANGED <<stage, conn, connections, pending, task, view, strays,
                            auto, listening>>

StopTimers == timers' = FALSE

PageHidden ==
  /\ timers /\ StopTimers
  /\ OnLatencyMeasure \/ UNCHANGED <<conn, connections, pending, task, view, strays>>
  /\ UNCHANGED <<stage, auto, listening>>

(***************************************************************************)
(* The auto dialler                                                        *)
(***************************************************************************)
\* _autoDial, started by its timer: peers are tried one after the other, in any
\* order, while there are too few connections.
AutoDial(p, c) ==
  /\ auto = "waits" /\ GetConnections < MinConnections
  /\ Dials(p, c)
  /\ conn' = [conn EXCEPT ![c] = "upgrading"]
  /\ auto' = c
  /\ UNCHANGED <<stage, connections, pending, task, view, strays, listening,
                 timers>>

(***************************************************************************)
(* The stages of the node: in each, every service does its part before the *)
(* next stage begins.  One life of the node is enough for the properties.  *)
(***************************************************************************)
Stage(from, to) == stage = from /\ stage' = to

AutoDialStarts == auto' = "waits"

Start == /\ Stage("down", "starting") /\ task["stop"] = NoTask
         /\ AutoDialStarts
         /\ UNCHANGED <<conn, connections, pending, task, view, strays, listening,
                        timers>>

\* The transport manager's start().
Listen == /\ stage = "starting" /\ listening' = TRUE
          /\ UNCHANGED <<stage, conn, connections, pending, task, view, strays,
                         auto, timers>>

AfterStart == /\ Stage("starting", "up") /\ listening
              /\ UNCHANGED <<conn, connections, pending, task, view, strays, auto,
                             listening, timers>>

\* A transport cannot listen, while others do: the node is stopped.
StartFails == /\ Stage("starting", "stopping")
              /\ UNCHANGED <<conn, connections, pending, task, view, strays, auto,
                             listening, timers>>

\* (Bound: the node is stopped when no handler of a connection is at work.)
BeforeStop == /\ Stage("up", "stopping") /\ Quiet
              /\ UNCHANGED <<conn, connections, pending, task, view, strays, auto,
                             listening, timers>>

CloseListeners == listening' = FALSE

AutoDialStops == auto' = "off"

\* stop(): the connections in the table are closed.
Stop == /\ Stage("stopping", "closing")
        /\ task' = [task EXCEPT !["stop"] =
             [NoTask EXCEPT !.at = "closing",
                            !.wait = {c \in Tracked : conn[c] = "open"}]]
        /\ conn' = Closing(Tracked)
        /\ CloseListeners /\ AutoDialStops /\ StopTimers
        /\ UNCHANGED <<connections, pending, view, strays>>

\* _close() has waited for them.
Closed == /\ task["stop"].at = "closing"
          /\ \A c \in task["stop"].wait : conn[c] = "gone"
          /\ task' = [task EXCEPT !["stop"] = Ended]
          /\ connections' = [p \in Peers |-> {}]
          /\ UNCHANGED <<conn, pending, view, strays>> /\ UNCHANGED node

Down == /\ Stage("closing", "down") /\ task["stop"] = Ended
        /\ UNCHANGED <<conn, connections, pending, task, view, strays, auto,
                       listening, timers>>

Handlers == \/ \E c \in Conns : KeyStored(c) \/ CloseEnds(c)
            \/ \E k \in Tasks : PruneConnections(k) \/ PruningEnds(k)
            \/ \E k \in Tasks, c \in Conns : Pruned(k, c)

Next == \/ Handlers
        \/ \E c \in Conns : \/ RemoteClose(c) \/ Incoming(c)
                            \/ \E ok \in BOOLEAN : Consumed(c, ok)
                            \/ UpgradeFails(c)
                            \/ UpgradedInbound(c) \/ UpgradedOutbound(c)
        \/ \E p \in Peers : HangUp(p)
        \/ \E p \in Peers, c \in Conns : OpenConnection(p, c) \/ AutoDial(p, c)
        \/ EmitSummary \/ PageShown \/ PageHidden
        \/ Start \/ Listen \/ AfterStart \/ StartFails
        \/ BeforeStop \/ Stop \/ Closed \/ Down

Spec == Init /\ [][Next]_vars

(***************************************************************************)
(* Properties                                                              *)
(***************************************************************************)

\* The connections the manager was told about and that are still open.
Heard == {c \in Conns : task[c].at # "none" /\ conn[c] = "open"}

\* getConnections(): while the node is up the table has every open connection
\* the upgrader reported, whatever is accepted, dialled, closed and pruned at
\* the same time; the manager loses sight of an open connection only once it is
\* told of the end of another one of the same peer that it does not track.
AllTracked == Listening =>
  \A c \in Heard : c \in Tracked \/ PeerOf[c] \in strays

\* However many connections arrive while others are being stored and pruned,
\* the manager is back within maxConnections once the handlers have ended.
WithinLimit == Listening /\ Quiet /\ (\E c \in Conns : task[c].at = "done")
                 => GetConnections <= MaxConnections

\* Who listens to the manager's events has been told of every peer it has a
\* connection with, and not been told since that the peer left.
ConnectedIsAnnounced == Listening =>
  \A c \in Heard : task[c].at = "done" /\ PeerOf[c] \notin strays
                      => view[PeerOf[c]] = "connect"

\* incomingPendingConnections counts the inbound upgrades under way, whichever
\* way an upgrade ends; were one not counted off, no connection would be
\* accepted any more.
PendingCounted ==
  pending = Cardinality({c \in Inbound : conn[c] = "upgrading"})

\* A connection the manager was told about does not stay in the table once it
\* is gone: openConnection would return it in place of dialling.
GoneIsForgotten == Listening =>
  \A c \in Tracked : task[c].at # "none" => conn[c] # "gone"
===============================================================================
