-------------------------- MODULE ConnectionsProofs --------------------------
(***************************************************************************)
(* Proofs about Connections, for any peers, connections and limits.        *)
(* PendingCounted needs nothing but the types: every step that begins or   *)
(* ends an inbound upgrade counts it.  GoneIsForgotten needs that a        *)
(* connection is in the table of its own peer, that what was reported has  *)
(* been open, and that the node does not start a second time with handlers *)
(* of its first life.                                                      *)
(* AllTracked and ConnectedIsAnnounced hold each other up, and WithinLimit *)
(* needs what a handler that has counted is still to close.                *)
(***************************************************************************)
EXTENDS Connections, FiniteSetTheorems, TLAPS

Stages == {"down", "starting", "up", "stopping", "closing"}
Reportable == {"open", "closing", "gone"}
ConnStates == Reportable \cup {"none", "rating", "upgrading"}
TaskRecord == [at: {"none", "keys", "tags", "closing", "done"},
               some: SUBSET Conns, wait: SUBSET Conns, n: Nat]

TypeOK == /\ stage \in Stages
          /\ conn \in [Conns -> ConnStates]
          /\ connections \in [Peers -> SUBSET Conns]
          /\ task \in [Tasks -> TaskRecord]

(* A connection is in the table as one of its own peer. *)
OwnPeer == \A p \in Peers : \A c \in connections[p] : PeerOf[c] = p

(* The manager is told only of connections that are upgraded. *)
Reported == \A c \in Conns : task[c].at # "none" => conn[c] \in Reportable

(* The manager has been told of none before it listens, and the node does *)
(* not start again.                                                       *)
OneLife == /\ stage \in {"starting", "up"} => task["stop"] = NoTask
           /\ stage \in {"down", "starting"} /\ task["stop"] = NoTask
                => \A c \in Conns : task[c].at = "none"

(* Only what others dial is rate limited. *)
RatedInbound == \A c \in Conns : conn[c] = "rating" => c \in Inbound

ConnectionsInv == /\ TypeOK /\ OwnPeer /\ Reported /\ OneLife /\ RatedInbound
                  /\ PendingCounted /\ GoneIsForgotten

-----------------------------------------------------------------------------
(* What the parts of a step do *)

LEMMA TrackedConns ==
  ASSUME TypeOK, ConnectionsAssumption
  PROVE  Tracked \in SUBSET Conns /\ GetConnections \in Nat /\ ToPrune \in Nat
<1>1. Tracked \in SUBSET Conns
  BY DEF Tracked, TypeOK
<1>2. IsFiniteSet(Tracked)
  BY <1>1, FS_Subset DEF ConnectionsAssumption
<1>3. GetConnections \in Nat
  BY <1>2, FS_CardinalityType DEF GetConnections
<1>4. MaxConnections \in Nat
  BY DEF ConnectionsAssumption
<1> QED
  BY <1>1, <1>3, <1>4 DEF ToPrune

LEMMA ClosingKeeps ==
  ASSUME TypeOK, NEW S
  PROVE  /\ Closing(S) \in [Conns -> ConnStates]
         /\ \A d \in Conns : /\ Closing(S)[d] = "gone" => conn[d] = "gone"
                             /\ conn[d] \in Reportable => Closing(S)[d] \in Reportable
                             /\ Closing(S)[d] = "upgrading" <=> conn[d] = "upgrading"
BY DEF Closing, TypeOK, ConnStates, Reportable

(* Taking a connection from the table leaves nothing of it. *)
LEMMA ForgetRemoves ==
  ASSUME TypeOK, OwnPeer, ConnectionsAssumption, NEW c \in Conns
  PROVE  /\ Forget(connections, c) \in [Peers -> SUBSET Conns]
         /\ \A p \in Peers : /\ Forget(connections, c)[p] \subseteq connections[p]
                             /\ c \notin Forget(connections, c)[p]
<1> DEFINE q == PeerOf[c]
           rest == IF Cardinality(connections[q]) > 1 THEN connections[q] \ {c} ELSE {}
           f == Forget(connections, c)
<1>1. q \in Peers
  BY DEF ConnectionsAssumption
<1>2. rest \subseteq connections[q] /\ c \notin rest
  OBVIOUS
<1>3. f = [connections EXCEPT ![q] = rest]
  BY DEF Forget
<1> HIDE DEF q, rest, f
<1>4. \A p \in Peers : f[p] = IF p = q THEN rest ELSE connections[p]
  BY <1>1, <1>3 DEF TypeOK
<1>5. f \in [Peers -> SUBSET Conns]
  BY <1>1, <1>2, <1>3 DEF TypeOK
<1>6. \A p \in Peers : p # q => c \notin connections[p]
  BY DEF OwnPeer, q
<1> QED
  BY <1>2, <1>4, <1>5, <1>6 DEF f

LEMMA PushAdds ==
  ASSUME TypeOK, OwnPeer, ConnectionsAssumption, NEW c \in Conns
  PROVE  /\ Push(connections, c) \in [Peers -> SUBSET Conns]
         /\ \A p \in Peers : \A d \in Push(connections, c)[p] :
              \/ d \in connections[p]
              \/ d = c /\ p = PeerOf[c]
BY DEF Push, TypeOK, ConnectionsAssumption

(* OnDisconnect only takes away. *)
LEMMA DisconnectRemoves ==
  ASSUME TypeOK, OwnPeer, ConnectionsAssumption, NEW c \in Conns, OnDisconnect(c)
  PROVE  /\ connections' \in [Peers -> SUBSET Conns]
         /\ \A p \in Peers : connections'[p] \subseteq connections[p]
         /\ Started => \A p \in Peers : c \notin connections'[p]
BY ForgetRemoves DEF OnDisconnect, TypeOK

-----------------------------------------------------------------------------
(* What every step does to a connection d, to the table and to d's handler *)

Effect(d) ==
  /\ conn'[d] = "gone" => \/ conn[d] = "gone" \/ task[d].at = "none"
                          \/ Listening => d \notin Tracked'
  /\ conn[d] \in Reportable => conn'[d] \in Reportable
  /\ d \in Tracked' => d \in Tracked \/ conn'[d] = "open"
  /\ task'[d].at # "none" => \/ task[d].at # "none"
                             \/ Listening /\ conn'[d] = "open"

Kept == TypeOK' /\ OwnPeer' /\ \A d \in Conns : Effect(d)

(* Parts of a step: what a step leaves alone has the effect. *)
GoneKept == \A d \in Conns : conn'[d] = "gone" => conn[d] = "gone" \/ task[d].at = "none"
ConnKept == /\ conn' \in [Conns -> ConnStates]
            /\ \A d \in Conns : conn[d] \in Reportable => conn'[d] \in Reportable
TableKept == /\ connections' \in [Peers -> SUBSET Conns]
             /\ \A p \in Peers : connections'[p] \subseteq connections[p]
TaskKept == /\ task' \in [Tasks -> TaskRecord]
            /\ \A d \in Conns : task'[d].at # "none" => task[d].at # "none"

LEMMA KeptParts ==
  ASSUME TypeOK, OwnPeer, stage' \in Stages, GoneKept, ConnKept, TableKept, TaskKept
  PROVE  Kept
<1>1. Tracked' \subseteq Tracked
  BY DEF Tracked, TableKept
<1> QED
  BY <1>1 DEF Kept, TypeOK, OwnPeer, Effect, GoneKept, ConnKept, TableKept, TaskKept

LEMMA Unchanged ==
  ASSUME TypeOK
  PROVE  /\ UNCHANGED conn => GoneKept /\ ConnKept
         /\ UNCHANGED connections => TableKept
         /\ UNCHANGED task => TaskKept
         /\ \A S : conn' = Closing(S) => GoneKept /\ ConnKept
<1>1. UNCHANGED conn => GoneKept /\ ConnKept
  BY DEF TypeOK, GoneKept, ConnKept
<1>2. UNCHANGED connections => TableKept
  BY DEF TypeOK, TableKept
<1>3. UNCHANGED task => TaskKept
  BY DEF TypeOK, TaskKept
<1>4. ASSUME NEW S, conn' = Closing(S) PROVE GoneKept /\ ConnKept
  BY <1>4, ClosingKeeps DEF GoneKept, ConnKept
<1> QED
  BY <1>1, <1>2, <1>3, <1>4

(* One handler goes on. *)
LEMMA TaskGoesOn ==
  ASSUME TypeOK, NEW k \in Tasks, NEW r \in TaskRecord,
         task' = [task EXCEPT ![k] = r],
         k \in Conns => task[k].at # "none"
  PROVE  TaskKept
<1>1. task' \in [Tasks -> TaskRecord]
  BY DEF TypeOK
<1>2. \A d \in Conns : d \in Tasks /\ (d # k => task'[d] = task[d])
  BY DEF TypeOK, Tasks
<1> QED
  BY <1>1, <1>2 DEF TaskKept

(* One connection that has not been reported changes. *)
LEMMA ConnGoesOn ==
  ASSUME TypeOK, Reported, NEW c \in Conns, NEW s \in ConnStates,
         conn' = [conn EXCEPT ![c] = s], conn[c] \notin Reportable
  PROVE  GoneKept /\ ConnKept
<1>1. conn' \in [Conns -> ConnStates]
  BY DEF TypeOK
<1>2. \A d \in Conns : d # c => conn'[d] = conn[d]
  BY DEF TypeOK
<1>3. task[c].at = "none"
  BY DEF Reported
<1> QED
  BY <1>1, <1>2, <1>3 DEF GoneKept, ConnKept

-----------------------------------------------------------------------------
(* The steps of the node *)

LEMMA StageSteps ==
  ASSUME TypeOK, OwnPeer,
         Start \/ Listen \/ AfterStart \/ StartFails \/ BeforeStop \/ Down \/ PageShown
  PROVE  Kept
<1>1. UNCHANGED <<conn, connections, task>>
  BY DEF Start, Listen, AfterStart, StartFails, BeforeStop, Down, PageShown
<1>2. stage' \in Stages
  BY DEF Start, Listen, AfterStart, StartFails, BeforeStop, Down, PageShown, Stage, Stages,
         TypeOK
<1> QED
  BY <1>1, <1>2, Unchanged, KeptParts

LEMMA StopSteps ==
  ASSUME TypeOK, OwnPeer, ConnectionsAssumption, Stop \/ Closed
  PROVE  Kept
<1>1. "stop" \in Tasks /\ "stop" \notin Conns
  BY DEF Tasks, ConnectionsAssumption
<1>2. CASE Stop
  <2> DEFINE r == [NoTask EXCEPT !.at = "closing",
                                 !.wait = {c \in Tracked : conn[c] = "open"}]
  <2>1. Tracked \in SUBSET Conns
    BY TrackedConns
  <2>2. r \in TaskRecord
    BY <2>1 DEF NoTask, TaskRecord
  <2>3. /\ task' = [task EXCEPT !["stop"] = r]
        /\ conn' = Closing(Tracked) /\ UNCHANGED connections /\ stage' = "closing"
    BY <1>2 DEF Stop, Stage
  <2> HIDE DEF r
  <2>4. TaskKept
    BY <1>1, <2>2, <2>3, TaskGoesOn
  <2> QED
    BY <2>3, <2>4, Unchanged, KeptParts DEF Stages
<1>3. CASE Closed
  <2>1. Ended \in TaskRecord
    BY DEF Ended, NoTask, TaskRecord
  <2>2. /\ task' = [task EXCEPT !["stop"] = Ended]
        /\ connections' = [p \in Peers |-> {}] /\ UNCHANGED <<conn, stage>>
    BY <1>3 DEF Closed, node
  <2>3. TaskKept
    BY <1>1, <2>1, <2>2, TaskGoesOn
  <2>4. TableKept
    BY <2>2 DEF TableKept
  <2> QED
    BY <2>2, <2>3, <2>4, Unchanged, KeptParts DEF TypeOK
<1> QED
  BY <1>2, <1>3

-----------------------------------------------------------------------------
(* The steps of handlers *)

LEMMA HandlerSteps ==
  ASSUME TypeOK, OwnPeer, ConnectionsAssumption,
         NEW k \in Tasks, PruneConnections(k) \/ PruningEnds(k)
  PROVE  Kept
<1>1. UNCHANGED <<stage, connections>>
  BY DEF PruneConnections, PruningEnds, node
<1>2. task[k] \in TaskRecord
  BY DEF TypeOK
<1>3. CASE PruneConnections(k)
  <2>1. PICK T \in Lowest(task[k].some, task[k].n) :
          /\ task' = [task EXCEPT ![k] =
               [NoTask EXCEPT !.at = "closing", !.some = T,
                              !.wait = {c \in T : conn[c] = "open"}]]
          /\ conn' = Closing(T)
    BY <1>3 DEF PruneConnections
  <2> DEFINE r == [NoTask EXCEPT !.at = "closing", !.some = T,
                                 !.wait = {c \in T : conn[c] = "open"}]
  <2>2. T \in SUBSET Conns
    <3>1. T \in SUBSET task[k].some
      BY <2>1 DEF Lowest
    <3> QED
      BY <1>2, <3>1 DEF TaskRecord
  <2>3. r \in TaskRecord
    BY <2>2 DEF NoTask, TaskRecord
  <2>4. task' = [task EXCEPT ![k] = r]
    BY <2>1
  <2> HIDE DEF r
  <2>5. task[k].at # "none"
    BY <1>3 DEF PruneConnections
  <2>6. TaskKept
    BY <2>3, <2>4, <2>5, TaskGoesOn
  <2> QED
    BY <1>1, <2>1, <2>6, Unchanged, KeptParts DEF TypeOK
<1>4. CASE PruningEnds(k)
  <2> DEFINE r == IF k \in Conns THEN Ended ELSE NoTask
  <2>1. r \in TaskRecord
    BY DEF Ended, NoTask, TaskRecord
  <2>2. /\ task' = [task EXCEPT ![k] = r] /\ UNCHANGED conn
        /\ task[k].at # "none"
    BY <1>4 DEF PruningEnds
  <2> HIDE DEF r
  <2>3. TaskKept
    BY <2>1, <2>2, TaskGoesOn
  <2> QED
    BY <1>1, <2>2, <2>3, Unchanged, KeptParts DEF TypeOK
<1> QED
  BY <1>3, <1>4

LEMMA KeyStoredStep ==
  ASSUME TypeOK, OwnPeer, ConnectionsAssumption, NEW c \in Conns, KeyStored(c)
  PROVE  Kept
<1>1. UNCHANGED <<stage, conn, connections>> /\ task[c].at # "none" /\ c \in Tasks
  BY DEF KeyStored, node, Tasks
<1> DEFINE r == [NoTask EXCEPT !.at = "tags", !.some = Tracked, !.n = ToPrune]
<1>2. r \in TaskRecord /\ Ended \in TaskRecord
  BY TrackedConns DEF Ended, NoTask, TaskRecord
<1>3. task' = [task EXCEPT ![c] = r] \/ task' = [task EXCEPT ![c] = Ended]
  BY DEF KeyStored
<1> HIDE DEF r
<1>4. TaskKept
  BY <1>1, <1>2, <1>3, TaskGoesOn
<1> QED
  BY <1>1, <1>4, Unchanged, KeptParts DEF TypeOK

LEMMA PrunedStep ==
  ASSUME TypeOK, OwnPeer, ConnectionsAssumption,
         NEW k \in Tasks, NEW c \in Conns, Pruned(k, c)
  PROVE  Kept
<1>1. UNCHANGED <<stage, conn>> /\ OnDisconnect(c) /\ task[k].at # "none"
  BY DEF Pruned, node
<1> DEFINE r == [task[k] EXCEPT !.some = task[k].some \ {c}]
<1>2. r \in TaskRecord
  BY DEF TypeOK, TaskRecord
<1>3. task' = [task EXCEPT ![k] = r]
  BY DEF Pruned
<1> HIDE DEF r
<1>4. TaskKept
  BY <1>1, <1>2, <1>3, TaskGoesOn
<1>5. TableKept
  BY <1>1, DisconnectRemoves DEF TableKept
<1> QED
  BY <1>1, <1>4, <1>5, Unchanged, KeptParts DEF TypeOK

LEMMA LatencySteps ==
  ASSUME TypeOK, OwnPeer, ConnectionsAssumption, EmitSummary \/ PageHidden
  PROVE  Kept
<1>1. UNCHANGED <<stage, conn, connections>>
  BY DEF EmitSummary, PageHidden, OnLatencyMeasure, node
<1>2. CASE OnLatencyMeasure
  <2> DEFINE r == [NoTask EXCEPT !.at = "tags", !.some = Tracked, !.n = 1]
  <2>1. r \in TaskRecord
    BY TrackedConns DEF NoTask, TaskRecord
  <2>2. task' = [task EXCEPT !["latency"] = r]
    BY <1>2 DEF OnLatencyMeasure
  <2>3. "latency" \in Tasks /\ "latency" \notin Conns
    BY DEF Tasks, ConnectionsAssumption
  <2> HIDE DEF r
  <2>4. TaskKept
    BY <2>1, <2>2, <2>3, TaskGoesOn
  <2> QED
    BY <1>1, <2>4, Unchanged, KeptParts DEF TypeOK
<1>3. CASE UNCHANGED task
  BY <1>1, <1>3, Unchanged, KeptParts DEF TypeOK
<1> QED
  BY <1>2, <1>3 DEF EmitSummary, PageHidden

-----------------------------------------------------------------------------
(* The steps of connections *)

LEMMA HangUpSteps ==
  ASSUME TypeOK, OwnPeer,
         (\E c \in Conns : RemoteClose(c)) \/ (\E p \in Peers : HangUp(p))
  PROVE  Kept
<1>1. UNCHANGED <<stage, connections, task>>
  BY DEF RemoteClose, HangUp, node
<1>2. \E S : conn' = Closing(S)
  BY DEF RemoteClose, HangUp, CloseConnections
<1> QED
  BY <1>1, <1>2, Unchanged, KeptParts DEF TypeOK

LEMMA OpeningSteps ==
  ASSUME TypeOK, OwnPeer, Reported, NEW c \in Conns,
         \/ Incoming(c) \/ (\E ok \in BOOLEAN : Consumed(c, ok)) \/ UpgradeFails(c)
         \/ (\E p \in Peers : OpenConnection(p, c) \/ AutoDial(p, c))
  PROVE  Kept
<1>1. UNCHANGED <<stage, connections, task>>
  BY DEF Incoming, Consumed, UpgradeFails, OpenConnection, AutoDial, node
<1>2. conn[c] \notin Reportable
  BY DEF Incoming, Consumed, UpgradeFails, OpenConnection, AutoDial, Dials, Reportable
<1>3. \E s \in ConnStates : conn' = [conn EXCEPT ![c] = s]
  BY DEF Incoming, Consumed, UpgradeFails, OpenConnection, AutoDial, ConnStates, Reportable
<1> QED
  BY <1>1, <1>2, <1>3, ConnGoesOn, Unchanged, KeptParts DEF TypeOK

LEMMA CloseEndsStep ==
  ASSUME TypeOK, OwnPeer, ConnectionsAssumption, NEW c \in Conns, CloseEnds(c)
  PROVE  Kept
<1>1. /\ conn' = [conn EXCEPT ![c] = "gone"]
      /\ UNCHANGED <<stage, task>>
  BY DEF CloseEnds, node
<1>2. TableKept
  BY DisconnectRemoves, Unchanged DEF CloseEnds, TableKept
<1>3. Listening => c \notin Tracked'
  <2>1. ASSUME Listening PROVE \A p \in Peers : c \notin connections'[p]
    BY <2>1, DisconnectRemoves DEF CloseEnds, Listening, Started
  <2> QED
    BY <2>1 DEF Tracked
<1>4. Tracked' \subseteq Tracked
  BY <1>2 DEF Tracked, TableKept
<1>5. /\ conn' \in [Conns -> ConnStates]
      /\ \A d \in Conns : IF d = c THEN conn'[d] = "gone" ELSE conn'[d] = conn[d]
  BY <1>1 DEF TypeOK, ConnStates, Reportable
<1>6. TypeOK' /\ OwnPeer'
  BY <1>1, <1>2, <1>5 DEF TypeOK, OwnPeer, TableKept
<1>7. \A d \in Conns : Effect(d)
  BY <1>1, <1>3, <1>4, <1>5 DEF Effect, Reportable
<1> QED
  BY <1>6, <1>7 DEF Kept

LEMMA UpgradedSteps ==
  ASSUME TypeOK, OwnPeer, ConnectionsAssumption, NEW c \in Conns,
         UpgradedInbound(c) \/ UpgradedOutbound(c)
  PROVE  Kept
<1>1. /\ conn' = [conn EXCEPT ![c] = "open"]
      /\ task' = IF Listening THEN [task EXCEPT ![c].at = "keys"] ELSE task
      /\ UNCHANGED stage /\ conn[c] = "upgrading"
  BY DEF UpgradedInbound, UpgradedOutbound, Created
<1>2. connections' = connections \/ connections' = Push(connections, c)
  BY DEF UpgradedInbound, UpgradedOutbound
<1>3. /\ conn' \in [Conns -> ConnStates]
      /\ \A d \in Conns : IF d = c THEN conn'[d] = "open" ELSE conn'[d] = conn[d]
  BY <1>1 DEF TypeOK, ConnStates, Reportable
<1>4. /\ connections' \in [Peers -> SUBSET Conns]
      /\ \A p \in Peers : \A d \in connections'[p] :
           \/ d \in connections[p]
           \/ d = c /\ p = PeerOf[c]
  BY <1>2, PushAdds DEF TypeOK
<1>5. /\ task' \in [Tasks -> TaskRecord]
      /\ \A d \in Conns : task'[d].at # "none" => \/ task[d].at # "none"
                                                  \/ Listening /\ d = c
  <2>1. CASE ~Listening
    BY <1>1, <2>1 DEF TypeOK
  <2>2. CASE Listening
    <3> DEFINE r == [task[c] EXCEPT !.at = "keys"]
    <3>1. c \in Tasks /\ \A d \in Conns : d \in Tasks
      BY DEF Tasks
    <3>2. r \in TaskRecord
      BY <3>1 DEF TypeOK, TaskRecord
    <3>3. task' = [task EXCEPT ![c] = r]
      BY <1>1, <2>2
    <3> HIDE DEF r
    <3>4. task' \in [Tasks -> TaskRecord]
      BY <3>2, <3>3 DEF TypeOK
    <3>5. \A d \in Conns : d # c => task'[d] = task[d]
      BY <3>1, <3>3 DEF TypeOK
    <3> QED
      BY <2>2, <3>4, <3>5
  <2> QED
    BY <2>1, <2>2
<1>6. \A d \in Tracked' : d \in Tracked \/ d = c
  BY <1>4 DEF Tracked
<1>7. TypeOK' /\ OwnPeer'
  BY <1>1, <1>3, <1>4, <1>5 DEF TypeOK, OwnPeer
<1>8. \A d \in Conns : Effect(d)
  BY <1>3, <1>5, <1>6 DEF Effect, Reportable
<1> QED
  BY <1>7, <1>8 DEF Kept

LEMMA NextKept ==
  ASSUME TypeOK, OwnPeer, Reported, ConnectionsAssumption, Next
  PROVE  Kept
<1>1. CASE Handlers
  <2>1. \A c \in Conns : KeyStored(c) => Kept
    BY KeyStoredStep
  <2>2. \A c \in Conns : CloseEnds(c) => Kept
    BY CloseEndsStep
  <2>3. \A k \in Tasks : PruneConnections(k) \/ PruningEnds(k) => Kept
    BY HandlerSteps
  <2>4. \A k \in Tasks : \A c \in Conns : Pruned(k, c) => Kept
    BY PrunedStep
  <2> QED
    BY <1>1, <2>1, <2>2, <2>3, <2>4 DEF Handlers
<1>2. ASSUME NEW c \in Conns,
             \/ RemoteClose(c) \/ Incoming(c) \/ (\E ok \in BOOLEAN : Consumed(c, ok))
             \/ UpgradeFails(c) \/ UpgradedInbound(c) \/ UpgradedOutbound(c)
      PROVE  Kept
  BY <1>2, HangUpSteps, OpeningSteps, UpgradedSteps
<1>3. ASSUME NEW p \in Peers, HangUp(p) PROVE Kept
  BY <1>3, HangUpSteps
<1>4. ASSUME NEW p \in Peers, NEW c \in Conns, OpenConnection(p, c) \/ AutoDial(p, c)
      PROVE  Kept
  BY <1>4, OpeningSteps
<1>5. CASE EmitSummary \/ PageShown \/ PageHidden
  BY <1>5, LatencySteps, StageSteps
<1>6. CASE \/ Start \/ Listen \/ AfterStart \/ StartFails
           \/ BeforeStop \/ Stop \/ Closed \/ Down
  BY <1>6, StageSteps, StopSteps
<1> QED
  BY <1>1, <1>2, <1>3, <1>4, <1>5, <1>6 DEF Next

-----------------------------------------------------------------------------
(* One life of the node *)

LEMMA StageMoves ==
  ASSUME Next
  PROVE  \/ UNCHANGED stage
         \/ stage = "down" /\ stage' = "starting" /\ task["stop"] = NoTask /\ UNCHANGED task
         \/ stage = "starting" /\ stage' = "up"
         \/ stage' \in {"stopping", "closing"}
         \/ stage' = "down" /\ task["stop"] # NoTask /\ UNCHANGED task
<1>1. Ended # NoTask
  BY DEF Ended, NoTask
<1>2. CASE Handlers
  BY <1>2 DEF Handlers, KeyStored, CloseEnds, PruneConnections, PruningEnds, Pruned, node
<1>3. CASE \E c \in Conns :
             \/ RemoteClose(c) \/ Incoming(c) \/ (\E ok \in BOOLEAN : Consumed(c, ok))
             \/ UpgradeFails(c) \/ UpgradedInbound(c) \/ UpgradedOutbound(c)
  BY <1>3 DEF RemoteClose, Incoming, Consumed, UpgradeFails, UpgradedInbound,
              UpgradedOutbound, Created, node
<1>4. CASE \/ \E p \in Peers : HangUp(p)
           \/ \E p \in Peers, c \in Conns : OpenConnection(p, c) \/ AutoDial(p, c)
  BY <1>4 DEF HangUp, OpenConnection, AutoDial, node
<1>5. CASE EmitSummary \/ PageShown \/ PageHidden
  BY <1>5 DEF EmitSummary, PageShown, PageHidden, node
<1>6. CASE \/ Start \/ Listen \/ AfterStart \/ StartFails
           \/ BeforeStop \/ Stop \/ Closed \/ Down
  BY <1>1, <1>6 DEF Start, Listen, AfterStart, StartFails, BeforeStop, Stop, Closed, Down,
                    Stage, node
<1> QED
  BY <1>2, <1>3, <1>4, <1>5, <1>6 DEF Next

(* The task of stop() is begun only by stop(), and is never undone. *)
LEMMA StopTask ==
  ASSUME TypeOK, ConnectionsAssumption, Next
  PROVE  \/ task'["stop"] = task["stop"]
         \/ /\ stage = "stopping" \/ task["stop"] # NoTask
            /\ task'["stop"] # NoTask
<1>1. "stop" \in Tasks /\ "stop" \notin Conns /\ NoTask.at = "none"
  BY DEF Tasks, ConnectionsAssumption, NoTask
<1>2. CASE UNCHANGED task
  BY <1>2
<1>3. ASSUME NEW k \in Tasks, NEW r, k # "stop", task' = [task EXCEPT ![k] = r]
      PROVE  task'["stop"] = task["stop"]
  BY <1>1, <1>3 DEF TypeOK
<1>4. ASSUME NEW r, task' = [task EXCEPT !["stop"] = r], r.at # "none"
      PROVE  task'["stop"] # NoTask
  BY <1>1, <1>4 DEF TypeOK
<1>5. \A c \in Conns : c \in Tasks /\ c # "stop"
  BY <1>1 DEF Tasks
<1>6. ASSUME NEW c \in Conns, KeyStored(c) PROVE task'["stop"] = task["stop"]
  BY <1>3, <1>5, <1>6 DEF KeyStored
<1>7. ASSUME NEW k \in Tasks, PruneConnections(k)
      PROVE  \/ task'["stop"] = task["stop"]
             \/ task["stop"] # NoTask /\ task'["stop"] # NoTask
  <2>1. PICK T : task' = [task EXCEPT ![k] =
                    [NoTask EXCEPT !.at = "closing", !.some = T,
                                   !.wait = {c \in T : conn[c] = "open"}]]
    BY <1>7 DEF PruneConnections
  <2> DEFINE r == [NoTask EXCEPT !.at = "closing", !.some = T,
                                 !.wait = {c \in T : conn[c] = "open"}]
  <2>2. task' = [task EXCEPT ![k] = r] /\ r.at # "none"
    BY <2>1 DEF NoTask
  <2>3. task[k] # NoTask
    BY <1>1, <1>7 DEF PruneConnections
  <2> HIDE DEF r
  <2> QED
    BY <1>3, <1>4, <2>2, <2>3
<1>8. ASSUME NEW k \in Tasks, PruningEnds(k) PROVE task'["stop"] = task["stop"]
  BY <1>3, <1>8 DEF PruningEnds
<1>9. ASSUME NEW k \in Tasks, NEW c \in Conns, Pruned(k, c)
      PROVE  task'["stop"] = task["stop"]
  <2>1. k # "stop" /\ task' = [task EXCEPT ![k] = [task[k] EXCEPT !.some = @ \ {c}]]
    BY <1>9 DEF Pruned
  <2> QED
    BY <1>3, <2>1
<1>10. ASSUME NEW c \in Conns, Created(c) PROVE task'["stop"] = task["stop"]
  <2>1. task' = task \/ task' = [task EXCEPT ![c] = [task[c] EXCEPT !.at = "keys"]]
    BY <1>10 DEF Created
  <2> QED
    BY <1>3, <1>5, <2>1
<1>11. CASE OnLatencyMeasure
  BY <1>3, <1>11 DEF OnLatencyMeasure, Tasks
<1>12. CASE Stop
  <2> DEFINE r == [NoTask EXCEPT !.at = "closing",
                                 !.wait = {c \in Tracked : conn[c] = "open"}]
  <2>1. task' = [task EXCEPT !["stop"] = r] /\ r.at # "none" /\ stage = "stopping"
    BY <1>12 DEF Stop, Stage, NoTask
  <2> HIDE DEF r
  <2> QED
    BY <1>4, <2>1
<1>13. CASE Closed
  <2>1. /\ task' = [task EXCEPT !["stop"] = Ended] /\ Ended.at # "none"
        /\ task["stop"] # NoTask
    BY <1>1, <1>13 DEF Closed, Ended, NoTask
  <2> QED
    BY <1>4, <2>1
<1>14. CASE Handlers
  <2>1. \/ \E c \in Conns : KeyStored(c) \/ UNCHANGED task
        \/ \E k \in Tasks : PruneConnections(k) \/ PruningEnds(k)
        \/ \E k \in Tasks, c \in Conns : Pruned(k, c)
    BY <1>14 DEF Handlers, CloseEnds
  <2> QED
    BY <1>6, <1>7, <1>8, <1>9, <2>1
<1>15. \/ Handlers \/ UNCHANGED task \/ OnLatencyMeasure \/ Stop \/ Closed
       \/ \E c \in Conns : Created(c)
  BY DEF Next, RemoteClose, Incoming, Consumed, UpgradeFails, UpgradedInbound,
         UpgradedOutbound, HangUp, OpenConnection, AutoDial, EmitSummary, PageShown,
         PageHidden, Start, Listen, AfterStart, StartFails, BeforeStop, Down
<1> QED
  BY <1>2, <1>10, <1>11, <1>12, <1>13, <1>14, <1>15

LEMMA OneLifeKept ==
  ASSUME TypeOK, OneLife, ConnectionsAssumption, Next, Kept
  PROVE  OneLife'
<1>1. ASSUME stage' \in {"down", "starting"}, task'["stop"] = NoTask
      PROVE  stage \in {"down", "starting"} /\ task["stop"] = NoTask
  BY <1>1, StageMoves, StopTask
<1>2. stage' \in {"starting", "up"} => task'["stop"] = NoTask
  BY StageMoves, StopTask DEF OneLife
<1>3. ASSUME stage' \in {"down", "starting"}, task'["stop"] = NoTask
      PROVE  \A c \in Conns : task'[c].at = "none"
  BY <1>1, <1>3 DEF OneLife, Kept, Effect, Listening
<1> QED
  BY <1>2, <1>3 DEF OneLife

LEMMA GoneForgotten ==
  ASSUME TypeOK, Reported, OneLife, GoneIsForgotten, Kept, Next
  PROVE  Reported' /\ GoneIsForgotten'
<1>1. Reported'
  BY DEF Kept, Effect, Reported, Reportable
<1>2. ASSUME Listening', NEW d \in Conns, d \in Tracked', task'[d].at # "none"
      PROVE  conn'[d] # "gone"
  <2>1. CASE Listening
    BY <1>2, <2>1 DEF Kept, Effect, GoneIsForgotten
  <2>2. CASE ~Listening
    <3>1. stage = "starting"
      BY <1>2, <2>2, StageMoves DEF Listening
    <3> QED
      BY <1>2, <2>2, <3>1 DEF OneLife, Kept, Effect
  <2> QED
    BY <2>1, <2>2
<1>3. Tracked' \in SUBSET Conns
  BY DEF Kept, TypeOK, Tracked
<1> QED
  BY <1>1, <1>2, <1>3 DEF GoneIsForgotten

-----------------------------------------------------------------------------
(* The pending inbound connections *)

UpgradingInbound == {c \in Inbound : conn[c] = "upgrading"}

LEMMA PendingSame ==
  ASSUME PendingCounted, UNCHANGED pending,
         \A c \in Inbound : conn'[c] = "upgrading" <=> conn[c] = "upgrading"
  PROVE  PendingCounted'
<1>1. UpgradingInbound' = UpgradingInbound
  BY DEF UpgradingInbound
<1> QED
  BY <1>1 DEF PendingCounted, UpgradingInbound

LEMMA PendingOneMore ==
  ASSUME TypeOK, PendingCounted, ConnectionsAssumption, NEW c \in Inbound,
         conn[c] # "upgrading", conn' = [conn EXCEPT ![c] = "upgrading"],
         pending' = pending + 1
  PROVE  PendingCounted'
<1>1. UpgradingInbound' = UpgradingInbound \cup {c}
  BY DEF UpgradingInbound, TypeOK, ConnectionsAssumption
<1>2. c \notin UpgradingInbound
  BY DEF UpgradingInbound
<1>3. IsFiniteSet(UpgradingInbound)
  BY FS_Subset DEF UpgradingInbound, ConnectionsAssumption
<1>4. Cardinality(UpgradingInbound \cup {c}) = Cardinality(UpgradingInbound) + 1
  BY <1>2, <1>3, FS_AddElement
<1> QED
  BY <1>1, <1>4 DEF PendingCounted, UpgradingInbound

LEMMA PendingOneLess ==
  ASSUME TypeOK, PendingCounted, ConnectionsAssumption, NEW c \in Inbound,
         conn[c] = "upgrading", NEW s, s # "upgrading", conn' = [conn EXCEPT ![c] = s],
         pending' = pending - 1
  PROVE  PendingCounted'
<1>1. UpgradingInbound' = UpgradingInbound \ {c}
  BY DEF UpgradingInbound, TypeOK, ConnectionsAssumption
<1>2. c \in UpgradingInbound
  BY DEF UpgradingInbound
<1>3. IsFiniteSet(UpgradingInbound)
  BY FS_Subset DEF UpgradingInbound, ConnectionsAssumption
<1>4. Cardinality(UpgradingInbound \ {c}) = Cardinality(UpgradingInbound) - 1
  BY <1>2, <1>3, FS_RemoveElement
<1> QED
  BY <1>1, <1>4 DEF PendingCounted, UpgradingInbound

(* One connection changes, and is rate limited only if others dial it. *)
Becomes(c, s) == conn' = [conn EXCEPT ![c] = s] /\ (c \in Inbound \/ s # "rating")

LEMMA RatedKept ==
  ASSUME TypeOK, RatedInbound, Next
  PROVE  RatedInbound'
<1>1. ASSUME NEW S, conn' = Closing(S) PROVE RatedInbound'
  BY <1>1 DEF Closing, TypeOK, RatedInbound
<1>2. ASSUME NEW c \in Conns, NEW s, Becomes(c, s) PROVE RatedInbound'
  BY <1>2 DEF Becomes, TypeOK, RatedInbound
<1>3. CASE UNCHANGED conn
  BY <1>3 DEF RatedInbound
<1>4. \/ UNCHANGED conn \/ (\E S : conn' = Closing(S))
      \/ \E c \in Conns : \E s : Becomes(c, s)
  BY DEF Becomes, Next, Handlers, KeyStored, CloseEnds, PruneConnections, PruningEnds,
         Pruned, RemoteClose, Incoming, Consumed, UpgradeFails, UpgradedInbound,
         UpgradedOutbound, Created, HangUp, CloseConnections, OpenConnection, AutoDial,
         EmitSummary, PageShown, PageHidden, OnLatencyMeasure, Start, Listen, AfterStart,
         StartFails, BeforeStop, Stop, Closed, Down
<1> QED
  BY <1>1, <1>2, <1>3, <1>4

LEMMA PendingKept ==
  ASSUME TypeOK, PendingCounted, RatedInbound, ConnectionsAssumption, Next
  PROVE  PendingCounted'
<1>1. Inbound \subseteq Conns
  BY DEF ConnectionsAssumption
<1>2. CASE UNCHANGED <<conn, pending>>
  BY <1>2, PendingSame
<1>3. ASSUME NEW S, conn' = Closing(S), UNCHANGED pending
      PROVE  PendingCounted'
  BY <1>1, <1>3, ClosingKeeps, PendingSame
(* A connection that is neither inbound nor, before or after, upgrading. *)
<1>4. ASSUME NEW c \in Conns, NEW s, conn' = [conn EXCEPT ![c] = s], UNCHANGED pending,
             c \notin Inbound \/ (conn[c] # "upgrading" /\ s # "upgrading")
      PROVE  PendingCounted'
  <2>1. \A d \in Inbound : conn'[d] = "upgrading" <=> conn[d] = "upgrading"
    BY <1>1, <1>4 DEF TypeOK
  <2> QED
    BY <1>4, <2>1, PendingSame
<1>5. CASE Handlers
  <2>1. \/ UNCHANGED <<conn, pending>>
        \/ \E k \in Tasks : PruneConnections(k)
        \/ \E c \in Conns : CloseEnds(c)
    BY <1>5 DEF Handlers, KeyStored, PruningEnds, Pruned
  <2>2. ASSUME NEW k \in Tasks, PruneConnections(k) PROVE PendingCounted'
    BY <1>3, <2>2 DEF PruneConnections
  <2>3. ASSUME NEW c \in Conns, CloseEnds(c) PROVE PendingCounted'
    BY <1>4, <2>3 DEF CloseEnds
  <2> QED
    BY <1>2, <2>1, <2>2, <2>3
<1>6. ASSUME NEW c \in Conns, Incoming(c) PROVE PendingCounted'
  <2>1. /\ c \in Inbound /\ conn[c] = "none"
        /\ \E s \in {"gone", "upgrading", "rating"} :
             /\ conn' = [conn EXCEPT ![c] = s]
             /\ pending' = IF s = "upgrading" THEN pending + 1 ELSE pending
    BY <1>6 DEF Incoming
  <2> QED
    BY <1>4, <2>1, PendingOneMore
<1>7. ASSUME NEW c \in Conns, NEW ok \in BOOLEAN, Consumed(c, ok) PROVE PendingCounted'
  <2>1. CASE UNCHANGED pending /\ conn' = [conn EXCEPT ![c] = "gone"]
    BY <1>4, <1>7, <2>1 DEF Consumed
  <2>2. CASE pending' = pending + 1 /\ conn' = [conn EXCEPT ![c] = "upgrading"]
    <3>1. c \in Inbound /\ conn[c] # "upgrading"
      BY <1>7 DEF Consumed, RatedInbound
    <3> QED
      BY <2>2, <3>1, PendingOneMore
  <2> QED
    BY <1>7, <2>1, <2>2 DEF Consumed
<1>8. ASSUME NEW c \in Conns, UpgradeFails(c) \/ UpgradedInbound(c) \/ UpgradedOutbound(c)
      PROVE  PendingCounted'
  <2>1. /\ conn[c] = "upgrading"
        /\ \E s \in {"gone", "open"} : conn' = [conn EXCEPT ![c] = s]
        /\ pending' = IF c \in Inbound THEN pending - 1 ELSE pending
    BY <1>8 DEF UpgradeFails, UpgradedInbound, UpgradedOutbound, Created,
                AfterUpgradeInbound
  <2> QED
    BY <1>4, <2>1, PendingOneLess
<1>9. ASSUME NEW p \in Peers, NEW c \in Conns, OpenConnection(p, c) \/ AutoDial(p, c)
      PROVE  PendingCounted'
  BY <1>4, <1>9 DEF OpenConnection, AutoDial, Dials
<1>10. ASSUME NEW c \in Conns, RemoteClose(c) PROVE PendingCounted'
  BY <1>3, <1>10 DEF RemoteClose
<1>11. ASSUME NEW p \in Peers, HangUp(p) PROVE PendingCounted'
  BY <1>3, <1>11 DEF HangUp, CloseConnections
<1>12. CASE EmitSummary \/ PageShown \/ PageHidden
  BY <1>2, <1>12 DEF EmitSummary, PageShown, PageHidden, OnLatencyMeasure
<1>13. CASE \/ Start \/ Listen \/ AfterStart \/ StartFails
            \/ BeforeStop \/ Closed \/ Down
  BY <1>2, <1>13 DEF Start, Listen, AfterStart, StartFails, BeforeStop, Closed, Down
<1>14. CASE Stop
  BY <1>3, <1>14 DEF Stop
<1> QED
  BY <1>5, <1>6, <1>7, <1>8, <1>9, <1>10, <1>11, <1>12, <1>13, <1>14 DEF Next

-----------------------------------------------------------------------------
(* The invariant *)

LEMMA ConnectionsInitially ==
  ASSUME Init, ConnectionsAssumption
  PROVE  ConnectionsInv
<1>1. TypeOK
  BY DEF Init, TypeOK, Stages, ConnStates, TaskRecord, NoTask
<1>2. OwnPeer /\ Reported /\ OneLife /\ RatedInbound
  BY DEF Init, OwnPeer, Reported, OneLife, RatedInbound, Tasks, NoTask
<1>3. PendingCounted
  <2>1. {c \in Inbound : conn[c] = "upgrading"} = {}
    BY DEF Init, ConnectionsAssumption
  <2> QED
    BY <2>1, FS_EmptySet DEF PendingCounted, Init
<1>4. GoneIsForgotten
  BY DEF GoneIsForgotten, Init, Listening
<1> QED
  BY <1>1, <1>2, <1>3, <1>4 DEF ConnectionsInv

LEMMA ConnectionsKept ==
  ASSUME ConnectionsInv, ConnectionsAssumption, [Next]_vars
  PROVE  ConnectionsInv'
<1>1. CASE Next
  <2>1. Kept
    BY <1>1, NextKept DEF ConnectionsInv
  <2> QED
    BY <1>1, <2>1, OneLifeKept, GoneForgotten, RatedKept, PendingKept
      DEF ConnectionsInv, Kept
<1>2. CASE UNCHANGED vars
  BY <1>2 DEF vars, ConnectionsInv, TypeOK, OwnPeer, Reported, OneLife, RatedInbound,
              PendingCounted, GoneIsForgotten, Listening, Tracked
<1> QED
  BY <1>1, <1>2

THEOREM ConnectionsInvariant == Spec => []ConnectionsInv
<1>1. ConnectionsAssumption /\ Init => ConnectionsInv
  BY ConnectionsInitially
<1>2. ConnectionsAssumption /\ ConnectionsInv /\ [Next]_vars => ConnectionsInv'
  BY ConnectionsKept
<1> QED
  BY <1>1, <1>2, ConnectionsAssumption, PTL DEF Spec

(* However inbound upgrades begin and end, incomingPendingConnections        *)
(* (connection-manager/index.ts) is the number of those under way.           *)
THEOREM UpgradesCounted == Spec => []PendingCounted
<1>1. ConnectionsInv => PendingCounted
  BY DEF ConnectionsInv
<1> QED
  BY <1>1, ConnectionsInvariant, PTL

(* No connection the manager was told of stays in its table once it is gone, *)
(* whatever is accepted, dialled, pruned and closed at the same time         *)
(* (onDisconnect).                                                           *)
THEOREM NoGoneConnection == Spec => []GoneIsForgotten
<1>1. ConnectionsInv => GoneIsForgotten
  BY DEF ConnectionsInv
<1> QED
  BY <1>1, ConnectionsInvariant, PTL

-----------------------------------------------------------------------------
(***************************************************************************)
(* What the manager's table and its events say of the connections that are *)
(* open.  A connection leaves the table when it ends, when it has been     *)
(* chosen for pruning, which closes it first, or with the last other       *)
(* connection of its peer, which only an end of a connection the table     *)
(* does not have can cause; such ends are the strays.                      *)
(***************************************************************************)

(* What is or was in the table has been upgraded, and what is being closed *)
(* by a handler is not open.                                               *)
TrackedReal == \A d \in Tracked : conn[d] \in Reportable
Chosen == \A k \in Tasks : \A d \in task[k].some :
            /\ conn[d] \in Reportable
            /\ task[k].at = "closing" => conn[d] # "open"

Events == view \in [Peers -> {"none", "connect", "disconnect"}]

TrackingInv == /\ ConnectionsInv /\ TrackedReal /\ Chosen /\ Events
               /\ AllTracked /\ ConnectedIsAnnounced

-----------------------------------------------------------------------------
(* What is chosen for pruning *)

(* No connection is opened again. *)
NotReopened == \A d \in Conns : conn[d] \in {"closing", "gone"} => conn'[d] # "open"

EndsOrBegins(c, s) == /\ conn' = [conn EXCEPT ![c] = s]
                      /\ conn[c] \notin {"closing", "gone"} \/ s = "gone"

LEMMA NextNotReopened ==
  ASSUME TypeOK, Next
  PROVE  NotReopened
<1>1. ASSUME NEW S, conn' = Closing(S) PROVE NotReopened
  BY <1>1 DEF Closing, TypeOK, NotReopened
<1>2. ASSUME NEW c \in Conns, NEW s, EndsOrBegins(c, s) PROVE NotReopened
  BY <1>2 DEF EndsOrBegins, TypeOK, NotReopened
<1>3. CASE UNCHANGED conn
  BY <1>3 DEF NotReopened
<1>4. \/ UNCHANGED conn \/ (\E S : conn' = Closing(S))
      \/ \E c \in Conns : \E s : EndsOrBegins(c, s)
  BY DEF EndsOrBegins, Next, Handlers, KeyStored, CloseEnds, PruneConnections,
         PruningEnds, Pruned, RemoteClose, Incoming, Consumed, UpgradeFails,
         UpgradedInbound, UpgradedOutbound, Created, HangUp, CloseConnections,
         OpenConnection, Dials, AutoDial, EmitSummary, PageShown, PageHidden,
         OnLatencyMeasure, Start, Listen, AfterStart, StartFails, BeforeStop, Stop,
         Closed, Down
<1> QED
  BY <1>1, <1>2, <1>3, <1>4

(* The choice of a handler k: none, what there was, the whole table or, when *)
(* they are being closed, part of what there was.                            *)
Choice(k) ==
  \/ task'[k].some = {}
  \/ /\ task'[k].some \subseteq task[k].some
     /\ task'[k].at = "closing" => task[k].at = "closing"
  \/ task'[k].some = Tracked /\ task'[k].at # "closing"
  \/ task'[k].some \subseteq task[k].some /\ conn' = Closing(task'[k].some)

LEMMA OneChoice ==
  ASSUME TypeOK, NEW k \in Tasks, NEW r, task' = [task EXCEPT ![k] = r],
         Choice(k)
  PROVE  \A j \in Tasks : Choice(j)
<1>1. \A j \in Tasks : j # k => task'[j] = task[j]
  BY DEF TypeOK
<1> QED
  BY <1>1 DEF Choice

LEMMA Updated ==
  ASSUME TypeOK, NEW k \in Tasks, NEW r, task' = [task EXCEPT ![k] = r]
  PROVE  task'[k] = r
BY DEF TypeOK

LEMMA NextChoice ==
  ASSUME TypeOK, Next
  PROVE  \A j \in Tasks : Choice(j)
<1>1. CASE UNCHANGED task
  BY <1>1 DEF Choice
<1>2. NoTask.some = {} /\ Ended.some = {}
  BY DEF NoTask, Ended
<1>3. \A c \in Conns : c \in Tasks
  BY DEF Tasks
<1>4. ASSUME NEW k \in Tasks, NEW r, task' = [task EXCEPT ![k] = r],
             \/ r.some = {}
             \/ r.some = Tracked /\ r.at # "closing"
             \/ r.some \subseteq task[k].some /\ r.at \in {task[k].at, "keys"}
             \/ r.some \subseteq task[k].some /\ conn' = Closing(r.some)
      PROVE  \A j \in Tasks : Choice(j)
  <2>1. task'[k] = r
    BY <1>4, Updated
  <2>2. Choice(k)
    BY <1>4, <2>1 DEF Choice
  <2> QED
    BY <1>4, <2>2, OneChoice
<1>5. ASSUME NEW c \in Conns, KeyStored(c) PROVE \A j \in Tasks : Choice(j)
  <2> DEFINE r == [NoTask EXCEPT !.at = "tags", !.some = Tracked, !.n = ToPrune]
  <2>1. r.some = Tracked /\ r.at # "closing"
    BY DEF NoTask
  <2>2. task' = [task EXCEPT ![c] = Ended] \/ task' = [task EXCEPT ![c] = r]
    BY <1>5 DEF KeyStored
  <2> HIDE DEF r
  <2> QED
    BY <1>2, <1>3, <1>4, <2>1, <2>2
<1>6. ASSUME NEW k \in Tasks, PruneConnections(k) PROVE \A j \in Tasks : Choice(j)
  <2>1. PICK T \in Lowest(task[k].some, task[k].n) :
          /\ task' = [task EXCEPT ![k] =
               [NoTask EXCEPT !.at = "closing", !.some = T,
                              !.wait = {c \in T : conn[c] = "open"}]]
          /\ conn' = Closing(T)
    BY <1>6 DEF PruneConnections
  <2> DEFINE r == [NoTask EXCEPT !.at = "closing", !.some = T,
                                 !.wait = {c \in T : conn[c] = "open"}]
  <2>2. r.some = T
    BY DEF NoTask
  <2>3. T \subseteq task[k].some
    BY DEF Lowest
  <2>4. task' = [task EXCEPT ![k] = r]
    BY <2>1
  <2> HIDE DEF r
  <2> QED
    BY <1>4, <2>1, <2>2, <2>3, <2>4
<1>7. ASSUME NEW k \in Tasks, PruningEnds(k) PROVE \A j \in Tasks : Choice(j)
  <2>1. task' = [task EXCEPT ![k] = Ended] \/ task' = [task EXCEPT ![k] = NoTask]
    BY <1>7 DEF PruningEnds
  <2> QED
    BY <1>2, <1>4, <2>1
<1>8. ASSUME NEW k \in Tasks, NEW c \in Conns, Pruned(k, c)
      PROVE  \A j \in Tasks : Choice(j)
  <2> DEFINE r == [task[k] EXCEPT !.some = task[k].some \ {c}]
  <2>1. r.some \subseteq task[k].some /\ r.at = task[k].at
    BY DEF TypeOK, TaskRecord
  <2>2. task' = [task EXCEPT ![k] = r]
    BY <1>8 DEF Pruned
  <2> HIDE DEF r
  <2> QED
    BY <1>4, <2>1, <2>2
<1>9. ASSUME NEW c \in Conns, Created(c) PROVE \A j \in Tasks : Choice(j)
  <2> DEFINE r == [task[c] EXCEPT !.at = "keys"]
  <2>1. r.some \subseteq task[c].some /\ r.at = "keys"
    BY <1>3 DEF TypeOK, TaskRecord
  <2>2. task' = task \/ task' = [task EXCEPT ![c] = r]
    BY <1>9 DEF Created
  <2> HIDE DEF r
  <2> QED
    BY <1>1, <1>3, <1>4, <2>1, <2>2
<1>10. CASE OnLatencyMeasure
  <2> DEFINE r == [NoTask EXCEPT !.at = "tags", !.some = Tracked, !.n = 1]
  <2>1. r.some = Tracked /\ r.at # "closing"
    BY DEF NoTask
  <2>2. task' = [task EXCEPT !["latency"] = r] /\ "latency" \in Tasks
    BY <1>10 DEF OnLatencyMeasure, Tasks
  <2> HIDE DEF r
  <2> QED
    BY <1>4, <2>1, <2>2
<1>11. CASE Stop
  <2> DEFINE r == [NoTask EXCEPT !.at = "closing",
                                 !.wait = {c \in Tracked : conn[c] = "open"}]
  <2>1. r.some = {}
    BY DEF NoTask
  <2>2. task' = [task EXCEPT !["stop"] = r] /\ "stop" \in Tasks
    BY <1>11 DEF Stop, Tasks
  <2> HIDE DEF r
  <2> QED
    BY <1>4, <2>1, <2>2
<1>12. CASE Closed
  BY <1>2, <1>4, <1>12 DEF Closed, Tasks
<1>13. CASE Handlers
  <2>1. \/ \E c \in Conns : KeyStored(c) \/ UNCHANGED task
        \/ \E k \in Tasks : PruneConnections(k) \/ PruningEnds(k)
        \/ \E k \in Tasks, c \in Conns : Pruned(k, c)
    BY <1>13 DEF Handlers, CloseEnds
  <2> QED
    BY <1>1, <1>5, <1>6, <1>7, <1>8, <2>1
<1>14. \/ Handlers \/ UNCHANGED task \/ OnLatencyMeasure \/ Stop \/ Closed
       \/ \E c \in Conns : Created(c)
  BY DEF Next, RemoteClose, Incoming, Consumed, UpgradeFails, UpgradedInbound,
         UpgradedOutbound, HangUp, OpenConnection, AutoDial, EmitSummary, PageShown,
         PageHidden, Start, Listen, AfterStart, StartFails, BeforeStop, Down
<1> QED
  BY <1>1, <1>9, <1>10, <1>11, <1>12, <1>13, <1>14

LEMMA ChosenKept ==
  ASSUME TypeOK, TrackedReal, Chosen, ConnectionsAssumption, Kept, Next
  PROVE  TrackedReal' /\ Chosen'
<1>1. \A d \in Conns : conn[d] \in Reportable => conn'[d] \in Reportable
  BY DEF Kept, Effect
<1>2. Tracked \in SUBSET Conns /\ Tracked' \in SUBSET Conns
  BY DEF Kept, TypeOK, Tracked
<1>3. TrackedReal'
  BY <1>2 DEF TrackedReal, Kept, Effect, Reportable
<1>4. ASSUME NEW k \in Tasks, NEW d \in task'[k].some
      PROVE  /\ conn'[d] \in Reportable
             /\ task'[k].at = "closing" => conn'[d] # "open"
  <2>1. Choice(k) /\ NotReopened
    BY NextChoice, NextNotReopened
  <2>2. task[k].some \in SUBSET Conns
    BY DEF TypeOK, TaskRecord
  <2>3. CASE /\ task'[k].some \subseteq task[k].some
             /\ task'[k].at = "closing" => task[k].at = "closing"
    BY <1>1, <1>4, <2>1, <2>2, <2>3 DEF Chosen, NotReopened, Reportable
  <2>4. CASE task'[k].some = Tracked /\ task'[k].at # "closing"
    BY <1>1, <1>2, <1>4, <2>4 DEF TrackedReal
  <2>5. CASE task'[k].some \subseteq task[k].some /\ conn' = Closing(task'[k].some)
    <3>1. d \in Conns /\ d \in task[k].some
      BY <1>4, <2>2, <2>5
    <3>2. conn'[d] # "open"
      BY <1>4, <2>5, <3>1 DEF Closing
    <3> QED
      BY <1>1, <3>1, <3>2 DEF Chosen
  <2> QED
    BY <1>4, <2>1, <2>3, <2>4, <2>5 DEF Choice
<1> QED
  BY <1>3, <1>4 DEF Chosen

-----------------------------------------------------------------------------
(* The table and the events, while the manager listens *)

TableInv == AllTracked /\ ConnectedIsAnnounced

(* No handler begins, and none ends. *)
NoneBegins == \A d \in Conns : /\ task'[d].at # "none" => task[d].at # "none"
                               /\ task'[d].at = "done" => task[d].at = "done"

LEMMA StillHeard ==
  ASSUME Reported, NotReopened, NEW d \in Conns, d \in Heard', task[d].at # "none"
  PROVE  d \in Heard
BY DEF Reported, NotReopened, Heard, Reportable

LEMMA TableQuiet ==
  ASSUME Reported, NotReopened, TableInv, Listening, NoneBegins,
         UNCHANGED <<connections, strays, view>>
  PROVE  TableInv'
<1>1. Tracked' = Tracked
  BY DEF Tracked
<1>2. \A d \in Heard' : d \in Heard
  BY StillHeard DEF Heard, NoneBegins
<1>3. \A d \in Heard : d \in Conns
  BY DEF Heard
<1> QED
  BY <1>1, <1>2, <1>3 DEF TableInv, AllTracked, ConnectedIsAnnounced, NoneBegins

(* The handler of c ends, and announces the peer. *)
LEMMA TableAnnounced ==
  ASSUME TypeOK, Events, ConnectionsAssumption, TableInv, Listening,
         NEW c \in Conns, task[c].at # "none",
         task' = [task EXCEPT ![c] = Ended], view' = Connected(c),
         UNCHANGED <<conn, connections, strays>>
  PROVE  TableInv'
<1>1. Tracked' = Tracked
  BY DEF Tracked
<1>2. \A d \in Conns : d # c => task'[d] = task[d]
  BY DEF TypeOK, Tasks
<1>3. \A d \in Heard' : d \in Heard
  BY <1>2 DEF Heard
<1>4. \A p \in Peers : view'[p] = IF p = PeerOf[c] THEN "connect" ELSE view[p]
  BY DEF Connected, Events
<1>5. \A d \in Heard : d \in Conns /\ PeerOf[d] \in Peers
  BY DEF Heard, ConnectionsAssumption
<1> QED
  BY <1>1, <1>2, <1>3, <1>4, <1>5 DEF TableInv, AllTracked, ConnectedIsAnnounced

(* A connection is opened and reported. *)
LEMMA TableGains ==
  ASSUME TypeOK, Reported, NotReopened, ConnectionsAssumption, TableInv, Listening,
         NEW c \in Conns, UpgradedInbound(c) \/ UpgradedOutbound(c)
  PROVE  TableInv'
<1>1. /\ task' = [task EXCEPT ![c] = [task[c] EXCEPT !.at = "keys"]]
      /\ connections' = Push(connections, c)
      /\ UNCHANGED <<strays, view>>
  BY DEF UpgradedInbound, UpgradedOutbound, Created
<1>2. c \in Tasks /\ \A d \in Conns : d \in Tasks
  BY DEF Tasks
<1>3. task'[c] = [task[c] EXCEPT !.at = "keys"] /\ task[c] \in TaskRecord
  BY <1>1, <1>2 DEF TypeOK
<1>4. task'[c].at = "keys"
  BY <1>3 DEF TaskRecord
<1>5. \A d \in Conns : d # c => task'[d] = task[d]
  BY <1>1, <1>2 DEF TypeOK
<1>6. PeerOf[c] \in Peers
  BY DEF ConnectionsAssumption
<1>7. /\ \A p \in Peers : connections[p] \subseteq connections'[p]
      /\ c \in connections'[PeerOf[c]]
  BY <1>1, <1>6 DEF Push, TypeOK
<1>8. Tracked \subseteq Tracked' /\ c \in Tracked'
  BY <1>6, <1>7 DEF Tracked
<1>9. \A d \in Heard' : d \in Conns /\ (d = c \/ d \in Heard)
  BY <1>5, StillHeard DEF Heard
<1> QED
  BY <1>1, <1>4, <1>5, <1>8, <1>9 DEF TableInv, AllTracked, ConnectedIsAnnounced

LEMMA TwoElements ==
  ASSUME NEW S, IsFiniteSet(S), NEW x \in S, NEW y \in S, x # y
  PROVE  Cardinality(S) \in Nat /\ Cardinality(S) > 1
<1> DEFINE m == Cardinality(S)
           R == S \ {x}
<1>1. m \in Nat
  BY FS_CardinalityType
<1>2. IsFiniteSet(R) /\ Cardinality(R) = m - 1
  BY FS_RemoveElement
<1>3. Cardinality(R) # 0
  <2>1. R # {}
    OBVIOUS
  <2> QED
    BY <1>2, <2>1, FS_EmptySet
<1>4. Cardinality(R) \in Nat
  BY <1>2, FS_CardinalityType
<1> HIDE DEF m
<1>5. m > 1
  BY <1>1, <1>2, <1>3, <1>4
<1> QED
  BY <1>1, <1>5 DEF m

(* onDisconnect for a connection that is not open. *)
LEMMA TableLoses ==
  ASSUME TypeOK, OwnPeer, Events, Reported, NotReopened, ConnectionsAssumption,
         TableInv, Listening, NoneBegins,
         NEW c \in Conns, OnDisconnect(c), conn'[c] # "open"
  PROVE  TableInv'
<1> DEFINE q == PeerOf[c]
           S == connections[q]
<1>1. q \in Peers /\ S \in SUBSET Conns /\ IsFiniteSet(S)
  BY FS_Subset DEF ConnectionsAssumption, TypeOK
<1>2. /\ connections' = Forget(connections, c)
      /\ strays' = IF c \in Tracked THEN strays ELSE strays \cup {q}
      /\ view' = IF Cardinality(S) = 1 THEN [view EXCEPT ![q] = "disconnect"] ELSE view
  BY DEF OnDisconnect, Listening, Started, Disconnects
<1>3. \A p \in Peers : connections'[p] =
        IF p # q THEN connections[p]
        ELSE IF Cardinality(S) > 1 THEN S \ {c} ELSE {}
  BY <1>1, <1>2 DEF Forget, TypeOK
<1>4. strays \subseteq strays' /\ (c \in Tracked \/ q \in strays')
  BY <1>2
<1>5. \A d \in Heard' : /\ d \in Heard /\ d \in Conns /\ d # c
                        /\ PeerOf[d] \in Peers
  BY StillHeard DEF Heard, NoneBegins, ConnectionsAssumption
<1>6. \A d \in Tracked \cap Conns : d \in connections[PeerOf[d]]
  BY DEF Tracked, OwnPeer, TypeOK
(* The last other connection of the peer. *)
<1>7. ASSUME NEW d \in Heard', PeerOf[d] = q, PeerOf[d] \notin strays'
      PROVE  d \in S /\ Cardinality(S) \in Nat /\ Cardinality(S) > 1
  <2>1. d \in Tracked
    BY <1>4, <1>5, <1>7 DEF TableInv, AllTracked
  <2>2. d \in S
    BY <1>5, <1>6, <1>7, <2>1
  <2>3. c \in S
    BY <1>4, <1>6, <1>7
  <2>4. d # c
    BY <1>5
  <2> HIDE DEF S
  <2> QED
    BY <1>1, <2>2, <2>3, <2>4, TwoElements
<1>8. AllTracked'
  <2>1. ASSUME NEW d \in Heard', PeerOf[d] \notin strays' PROVE d \in Tracked'
    <3>1. d \in Tracked /\ d \in connections[PeerOf[d]]
      BY <1>4, <1>5, <1>6, <2>1 DEF TableInv, AllTracked
    <3>2. d \in connections'[PeerOf[d]]
      <4>1. CASE PeerOf[d] = q
        BY <1>1, <1>3, <1>5, <1>7, <2>1, <4>1
      <4>2. CASE PeerOf[d] # q
        BY <1>3, <1>5, <3>1, <4>2
      <4> QED
        BY <4>1, <4>2
    <3> QED
      BY <1>5, <3>2 DEF Tracked
  <2> QED
    BY <2>1 DEF AllTracked
<1>9. ConnectedIsAnnounced'
  <2>1. ASSUME NEW d \in Heard', task'[d].at = "done", PeerOf[d] \notin strays'
        PROVE  view'[PeerOf[d]] = "connect"
    <3>1. view[PeerOf[d]] = "connect"
      BY <1>4, <1>5, <2>1 DEF NoneBegins, TableInv, ConnectedIsAnnounced
    <3>2. CASE PeerOf[d] = q
      <4>1. Cardinality(S) # 1
        BY <1>7, <2>1, <3>2
      <4> QED
        BY <1>2, <3>1, <4>1
    <3>3. CASE PeerOf[d] # q
      BY <1>1, <1>2, <1>5, <3>1, <3>3 DEF Events
    <3> QED
      BY <3>2, <3>3
  <2> QED
    BY <2>1 DEF ConnectedIsAnnounced
<1> QED
  BY <1>8, <1>9 DEF TableInv

-----------------------------------------------------------------------------
(* The steps *)

LEMMA TableHandlers ==
  ASSUME TrackingInv, TrackedReal, ConnectionsAssumption, Listening, NotReopened, Handlers
  PROVE  TableInv'
<1>1. /\ TypeOK /\ OwnPeer /\ Reported /\ Events /\ TableInv /\ Chosen
  BY DEF TrackingInv, ConnectionsInv, TableInv
<1>2. ASSUME NEW c \in Conns, KeyStored(c) PROVE TableInv'
  <2>1. CASE ToPrune = 0
    BY <1>1, <1>2, <2>1, TableAnnounced DEF KeyStored
  <2>2. CASE ToPrune # 0
    <3> DEFINE r == [NoTask EXCEPT !.at = "tags", !.some = Tracked, !.n = ToPrune]
    <3>1. r.at = "tags"
      BY DEF NoTask
    <3>2. /\ task' = [task EXCEPT ![c] = r]
          /\ task[c].at = "keys" /\ UNCHANGED <<conn, connections, strays, view>>
      BY <1>2, <2>2 DEF KeyStored
    <3> HIDE DEF r
    <3>3. NoneBegins
      BY <1>1, <3>1, <3>2 DEF NoneBegins, TypeOK, Tasks
    <3> QED
      BY <1>1, <3>2, <3>3, TableQuiet
  <2> QED
    BY <2>1, <2>2
<1>3. ASSUME NEW c \in Conns, CloseEnds(c) PROVE TableInv'
  <2>1. conn'[c] # "open" /\ OnDisconnect(c) /\ UNCHANGED task
    BY <1>1, <1>3 DEF CloseEnds, TypeOK
  <2>2. NoneBegins
    BY <2>1 DEF NoneBegins
  <2> QED
    BY <1>1, <2>1, <2>2, TableLoses
<1>4. ASSUME NEW k \in Tasks, PruneConnections(k) PROVE TableInv'
  <2>1. PICK T : task' = [task EXCEPT ![k] =
                    [NoTask EXCEPT !.at = "closing", !.some = T,
                                   !.wait = {c \in T : conn[c] = "open"}]]
    BY <1>4 DEF PruneConnections
  <2> DEFINE r == [NoTask EXCEPT !.at = "closing", !.some = T,
                                 !.wait = {c \in T : conn[c] = "open"}]
  <2>2. r.at = "closing"
    BY DEF NoTask
  <2>3. task' = [task EXCEPT ![k] = r] /\ task[k].at = "tags"
    BY <1>4, <2>1 DEF PruneConnections
  <2> HIDE DEF r
  <2>4. NoneBegins
    BY <1>1, <2>2, <2>3 DEF NoneBegins, TypeOK, Tasks
  <2> QED
    BY <1>1, <1>4, <2>4, TableQuiet DEF PruneConnections
<1>5. ASSUME NEW k \in Tasks, PruningEnds(k) PROVE TableInv'
  <2>1. CASE k \in Conns
    BY <1>1, <1>5, <2>1, TableAnnounced DEF PruningEnds
  <2>2. CASE k \notin Conns
    <3>1. task' = [task EXCEPT ![k] = NoTask]
      BY <1>5, <2>2 DEF PruningEnds
    <3>2. \A d \in Conns : task'[d] = task[d]
      BY <1>1, <2>2, <3>1 DEF TypeOK, Tasks
    <3>3. NoneBegins
      BY <3>2 DEF NoneBegins
    <3> QED
      BY <1>1, <1>5, <2>2, <3>3, TableQuiet DEF PruningEnds
  <2> QED
    BY <2>1, <2>2
<1>6. ASSUME NEW k \in Tasks, NEW c \in Conns, Pruned(k, c) PROVE TableInv'
  <2> DEFINE r == [task[k] EXCEPT !.some = task[k].some \ {c}]
  <2>1. r.at = task[k].at
    BY <1>1 DEF TypeOK, TaskRecord
  <2>2. /\ task' = [task EXCEPT ![k] = r] /\ task[k].at = "closing"
        /\ c \in task[k].some /\ OnDisconnect(c) /\ UNCHANGED conn
    BY <1>6 DEF Pruned
  <2> HIDE DEF r
  <2>3. NoneBegins
    BY <1>1, <2>1, <2>2 DEF NoneBegins, TypeOK, Tasks
  <2>4. conn'[c] # "open"
    BY <1>1, <2>2 DEF Chosen
  <2> QED
    BY <1>1, <2>2, <2>3, <2>4, TableLoses
<1> QED
  BY <1>2, <1>3, <1>4, <1>5, <1>6 DEF Handlers

LEMMA TableKeeps ==
  ASSUME TrackingInv, ConnectionsAssumption, Kept, Next
  PROVE  TableInv'
<1>1. /\ TypeOK /\ OwnPeer /\ Reported /\ OneLife /\ Events /\ TableInv /\ TrackedReal
  BY DEF TrackingInv, ConnectionsInv, TableInv
<1>2. NotReopened
  BY <1>1, NextNotReopened
<1>3. CASE ~Listening'
  BY <1>3 DEF TableInv, AllTracked, ConnectedIsAnnounced
(* The manager begins to listen: nothing has been reported. *)
<1>4. CASE Listening' /\ ~Listening
  <2>1. stage = "starting"
    BY <1>4, StageMoves DEF Listening
  <2>2. Heard' = {}
    BY <1>1, <1>4, <2>1 DEF OneLife, Kept, Effect, Heard
  <2> QED
    BY <2>2 DEF TableInv, AllTracked, ConnectedIsAnnounced
<1>5. CASE Listening /\ Listening'
  <2>1. CASE Handlers
    BY <1>1, <1>2, <1>5, <2>1, TableHandlers
  <2>2. ASSUME NEW c \in Conns, UpgradedInbound(c) \/ UpgradedOutbound(c) PROVE TableInv'
    BY <1>1, <1>2, <1>5, <2>2, TableGains
  <2>3. CASE UNCHANGED <<task, connections, strays, view>>
    <3>1. NoneBegins
      BY <2>3 DEF NoneBegins
    <3> QED
      BY <1>1, <1>2, <1>5, <2>3, <3>1, TableQuiet
  <2>4. CASE OnLatencyMeasure
    <3>1. \A d \in Conns : task'[d] = task[d]
      BY <1>1, <2>4 DEF OnLatencyMeasure, TypeOK, Tasks, ConnectionsAssumption
    <3>2. NoneBegins
      BY <3>1 DEF NoneBegins
    <3> QED
      BY <1>1, <1>2, <1>5, <2>4, <3>2, TableQuiet DEF OnLatencyMeasure
  <2>5. ~Stop
    BY <1>5 DEF Stop, Stage, Listening
  <2>6. ~Closed
    BY <1>1, <1>5 DEF Closed, OneLife, Listening, NoTask
  <2>7. \/ Handlers \/ UNCHANGED <<task, connections, strays, view>> \/ OnLatencyMeasure
        \/ \E c \in Conns : UpgradedInbound(c) \/ UpgradedOutbound(c)
    BY <2>5, <2>6 DEF Next, RemoteClose, Incoming, Consumed, UpgradeFails, HangUp,
      OpenConnection, AutoDial, EmitSummary, PageShown, PageHidden, Start, Listen,
      AfterStart, StartFails, BeforeStop, Down
  <2> QED
    BY <2>1, <2>2, <2>3, <2>4, <2>7
<1> QED
  BY <1>3, <1>4, <1>5

LEMMA EventsKept ==
  ASSUME Events, Next
  PROVE  Events'
<1>1. \/ UNCHANGED view
      \/ \E c \in Conns : view' = Connected(c) \/ OnDisconnect(c)
  BY DEF Next, Handlers, KeyStored, CloseEnds, PruneConnections, PruningEnds, Pruned,
         RemoteClose, Incoming, Consumed, UpgradeFails, UpgradedInbound,
         UpgradedOutbound, Created, HangUp, OpenConnection, AutoDial, EmitSummary,
         PageShown, PageHidden, OnLatencyMeasure, Start, Listen, AfterStart, StartFails,
         BeforeStop, Stop, Closed, Down
<1>2. ASSUME NEW c \in Conns, view' = Connected(c) PROVE Events'
  BY <1>2 DEF Connected, Events
<1>3. ASSUME NEW c \in Conns, OnDisconnect(c) PROVE Events'
  BY <1>3 DEF OnDisconnect, Events
<1> QED
  BY <1>1, <1>2, <1>3 DEF Events

LEMMA TrackingInitially ==
  ASSUME Init, ConnectionsAssumption
  PROVE  TrackingInv
<1>1. ConnectionsInv /\ ~Listening
  BY ConnectionsInitially DEF Init, Listening
<1>2. Tracked = {}
  BY DEF Init, Tracked
<1>3. Chosen /\ Events
  BY DEF Init, Chosen, Events, NoTask
<1> QED
  BY <1>1, <1>2, <1>3 DEF TrackingInv, TrackedReal, AllTracked, ConnectedIsAnnounced

LEMMA TrackingKept ==
  ASSUME TrackingInv, ConnectionsAssumption, [Next]_vars
  PROVE  TrackingInv'
<1>1. ConnectionsInv'
  BY ConnectionsKept DEF TrackingInv
<1>2. CASE Next
  <2>1. Kept
    BY <1>2, NextKept DEF TrackingInv, ConnectionsInv
  <2>2. TrackedReal' /\ Chosen'
    BY <1>2, <2>1, ChosenKept DEF TrackingInv, ConnectionsInv
  <2> QED
    BY <1>1, <1>2, <2>1, <2>2, TableKeeps, EventsKept DEF TrackingInv, TableInv
<1>3. CASE UNCHANGED vars
  <2>1. Tracked' = Tracked /\ Heard' = Heard /\ Listening' = Listening
    BY <1>3 DEF vars, Tracked, Heard, Listening
  <2> QED
    BY <1>1, <1>3, <2>1 DEF vars, TrackingInv, TrackedReal, Chosen, Events, AllTracked,
                            ConnectedIsAnnounced
<1> QED
  BY <1>2, <1>3

THEOREM TrackingInvariant == Spec => []TrackingInv
<1>1. ConnectionsAssumption /\ Init => TrackingInv
  BY TrackingInitially
<1>2. ConnectionsAssumption /\ TrackingInv /\ [Next]_vars => TrackingInv'
  BY TrackingKept
<1> QED
  BY <1>1, <1>2, ConnectionsAssumption, PTL DEF Spec

(* getConnections() has every open connection the upgrader reported, unless  *)
(* the manager was told of the end of one of that peer that it did not have  *)
(* (onDisconnect).                                                           *)
THEOREM OpenAreTracked == Spec => []AllTracked
<1>1. TrackingInv => AllTracked
  BY DEF TrackingInv
<1> QED
  BY <1>1, TrackingInvariant, PTL

(* Of every peer with a connection that has been handled, the last event was *)
(* peer:connect (_onConnect, onDisconnect).                                  *)
THEOREM PeersAnnounced == Spec => []ConnectedIsAnnounced
<1>1. TrackingInv => ConnectedIsAnnounced
  BY DEF TrackingInv
<1> QED
  BY <1>1, TrackingInvariant, PTL

-----------------------------------------------------------------------------
(***************************************************************************)
(* The limit.  A handler counts the connections after its own has been     *)
(* added; the last one to do so sees them all, and what it has chosen to   *)
(* close and is still to report brings the manager within the limit.       *)
(***************************************************************************)

Counts(k) ==
  \/ /\ task[k].at = "tags" /\ Tracked \subseteq task[k].some
     /\ task[k].n = Cardinality(task[k].some) - MaxConnections
  \/ task[k].at = "closing" /\ Cardinality(Tracked \ task[k].some) <= MaxConnections

Limited == Listening =>
  \/ \A c \in Conns : task[c].at = "none"
  \/ \E c \in Conns : task[c].at = "keys"
  \/ GetConnections <= MaxConnections
  \/ \E k \in Conns : Counts(k)

LimitInv == ConnectionsInv /\ Limited

LEMMA Fewer ==
  ASSUME TypeOK, TypeOK', ConnectionsAssumption, NEW S, NEW T, T \subseteq S,
         S \subseteq Conns
  PROVE  IsFiniteSet(S) /\ IsFiniteSet(T) /\ Cardinality(S) \in Nat /\ Cardinality(T) \in Nat
         /\ Cardinality(T) <= Cardinality(S)
<1>1. IsFiniteSet(S) /\ IsFiniteSet(T)
  BY FS_Subset DEF ConnectionsAssumption
<1>2. QED
  BY <1>1, FS_Subset, FS_CardinalityType

(* A handler that others do not disturb counts as before. *)
LEMMA CountsOn ==
  ASSUME TypeOK, TypeOK', ConnectionsAssumption, Tracked' \subseteq Tracked,
         NEW k \in Conns, task'[k] = task[k], Counts(k)
  PROVE  Counts(k)'
<1>1. Tracked \in SUBSET Conns /\ Tracked' \in SUBSET Conns /\ MaxConnections \in Nat
  BY DEF TypeOK, Tracked, ConnectionsAssumption
<1>2. CASE task[k].at = "tags"
  BY <1>2 DEF Counts
<1>3. CASE task[k].at = "closing"
  <2>1. PICK X : X = task[k].some
    OBVIOUS
  <2>2. Tracked' \ X \subseteq Tracked \ X /\ Tracked \ X \subseteq Conns
    BY <1>1
  <2>3. Cardinality(Tracked' \ X) <= Cardinality(Tracked \ X)
        /\ Cardinality(Tracked' \ X) \in Nat /\ Cardinality(Tracked \ X) \in Nat
    BY <2>2, Fewer
  <2>4. Cardinality(Tracked \ X) <= MaxConnections
    BY <1>3, <2>1 DEF Counts
  <2>5. Cardinality(Tracked' \ X) <= MaxConnections
    BY <1>1, <2>3, <2>4
  <2>6. QED
    BY <1>3, <2>1, <2>5 DEF Counts
<1>4. QED
  BY <1>2, <1>3 DEF Counts

(* The handlers go on but for k, about which there is something to show.   *)
LEMMA LimitedBut ==
  ASSUME TypeOK, TypeOK', ConnectionsAssumption, Limited, Listening, Tracked' \subseteq Tracked,
         NEW k \in Conns, task[k].at \notin {"none", "keys"},
         \A c \in Conns : c # k => task'[c] = task[c],
         Counts(k) => Counts(k)' \/ GetConnections' <= MaxConnections
  PROVE  Limited'
<1>1. CASE \E c \in Conns : task[c].at = "keys"
  BY <1>1 DEF Limited
<1>2. CASE GetConnections <= MaxConnections
  <2>1. Tracked \subseteq Conns /\ MaxConnections \in Nat
    BY DEF TypeOK, Tracked, ConnectionsAssumption
  <2>2. Cardinality(Tracked') <= Cardinality(Tracked)
        /\ Cardinality(Tracked') \in Nat /\ Cardinality(Tracked) \in Nat
    BY <2>1, Fewer
  <2>3. GetConnections' <= MaxConnections
    BY <1>2, <2>1, <2>2 DEF GetConnections
  <2>4. QED
    BY <2>3 DEF Limited
<1>3. CASE \E j \in Conns : Counts(j)
  <2>1. PICK j \in Conns : Counts(j)
    BY <1>3
  <2>2. CASE j = k
    BY <2>1, <2>2 DEF Limited
  <2>3. CASE j # k
    <3>1. Counts(j)'
      BY <2>1, <2>3, CountsOn
    <3>2. QED
      BY <3>1 DEF Limited
  <2>4. QED
    BY <2>2, <2>3
<1>4. QED
  BY <1>1, <1>2, <1>3 DEF Limited

LEMMA LimitedSame ==
  ASSUME TypeOK, TypeOK', ConnectionsAssumption, Limited, Listening, Tracked' \subseteq Tracked,
         \A c \in Conns : task'[c] = task[c]
  PROVE  Limited'
<1>1. CASE (\A c \in Conns : task[c].at = "none") \/ \E c \in Conns : task[c].at = "keys"
  BY <1>1 DEF Limited
<1>2. CASE GetConnections <= MaxConnections
  <2>1. Tracked \subseteq Conns /\ MaxConnections \in Nat
    BY DEF TypeOK, Tracked, ConnectionsAssumption
  <2>2. Cardinality(Tracked') <= Cardinality(Tracked)
        /\ Cardinality(Tracked') \in Nat /\ Cardinality(Tracked) \in Nat
    BY <2>1, Fewer
  <2>3. GetConnections' <= MaxConnections
    BY <1>2, <2>1, <2>2 DEF GetConnections
  <2>4. QED
    BY <2>3 DEF Limited
<1>3. CASE \E j \in Conns : Counts(j)
  BY <1>3, CountsOn DEF Limited
<1>4. QED
  BY <1>1, <1>2, <1>3 DEF Limited

LEMMA LimitedKeys ==
  ASSUME TypeOK, ConnectionsAssumption, NEW c \in Conns, KeyStored(c)
  PROVE  Limited'
<1>1. Tracked' = Tracked /\ GetConnections' = GetConnections
  BY DEF KeyStored, Tracked, GetConnections
<1>2. c \in Tasks /\ GetConnections \in Nat /\ MaxConnections \in Nat
  BY TrackedConns DEF Tasks, ConnectionsAssumption
<1>3. CASE ToPrune = 0
  BY <1>1, <1>2, <1>3 DEF ToPrune, Limited
<1>4. CASE ToPrune # 0
  <2> DEFINE r == [NoTask EXCEPT !.at = "tags", !.some = Tracked, !.n = ToPrune]
  <2>1. r.at = "tags" /\ r.some = Tracked /\ r.n = ToPrune
    BY DEF NoTask
  <2>2. task' = [task EXCEPT ![c] = r]
    BY <1>4 DEF KeyStored
  <2> HIDE DEF r
  <2>3. task'[c] = r
    BY <1>2, <2>2, Updated
  <2>4. ToPrune = Cardinality(Tracked) - MaxConnections
    BY <1>2, <1>4 DEF ToPrune, GetConnections
  <2>5. Counts(c)'
    BY <1>1, <2>1, <2>3, <2>4 DEF Counts
  <2>6. QED
    BY <2>5 DEF Limited
<1>5. QED
  BY <1>3, <1>4

(* What is left of those to choose from is within the limit. *)
LEMMA ChosenEnough ==
  ASSUME ConnectionsAssumption, NEW S \in SUBSET Conns, NEW n \in Nat,
         n = Cardinality(S) - MaxConnections, NEW T \in Lowest(S, n)
  PROVE  T \subseteq S /\ Cardinality(S \ T) <= MaxConnections
<1>1. IsFiniteSet(S) /\ Cardinality(S) \in Nat /\ MaxConnections \in Nat
  BY FS_Subset, FS_CardinalityType DEF ConnectionsAssumption
<1>2. T \subseteq S /\ Cardinality(T) = IF n < Cardinality(S) THEN n ELSE Cardinality(S)
  BY DEF Lowest
<1>3. S \cap T = T
  BY <1>2
<1>4. Cardinality(S \ T) = Cardinality(S) - Cardinality(T)
  BY <1>1, <1>3, FS_Difference
<1>5. QED
  BY <1>1, <1>2, <1>4

LEMMA LimitedPrunes ==
  ASSUME TypeOK, TypeOK', ConnectionsAssumption, Limited, Listening,
         NEW k \in Conns, PruneConnections(k)
  PROVE  Limited'
<1>1. PICK T \in Lowest(task[k].some, task[k].n) :
        task' = [task EXCEPT ![k] = [NoTask EXCEPT !.at = "closing", !.some = T,
                                                   !.wait = {c \in T : conn[c] = "open"}]]
  BY DEF PruneConnections
<1>2. /\ k \in Tasks /\ Tracked' = Tracked /\ task[k].at = "tags"
      /\ task[k].some \in SUBSET Conns /\ task[k].n \in Nat
      /\ Tracked \subseteq Conns /\ MaxConnections \in Nat
  <2>1. k \in Tasks /\ Tracked' = Tracked /\ task[k].at = "tags"
    BY DEF Tasks, PruneConnections, Tracked
  <2>2. task[k] \in TaskRecord
    BY <2>1 DEF TypeOK
  <2>3. QED
    BY <2>1, <2>2 DEF TypeOK, TaskRecord, Tracked, ConnectionsAssumption
<1> DEFINE r == [NoTask EXCEPT !.at = "closing", !.some = T,
                               !.wait = {c \in T : conn[c] = "open"}]
<1>3. r.at = "closing" /\ r.some = T
  BY DEF NoTask
<1>4. task' = [task EXCEPT ![k] = r]
  BY <1>1
<1> HIDE DEF r
<1>5. task'[k] = r /\ \A c \in Conns : c # k => task'[c] = task[c]
  BY <1>2, <1>4 DEF TypeOK, Tasks
<1>6. ASSUME Counts(k)
      PROVE  Counts(k)'
  <2>1. PICK S \in SUBSET Conns : S = task[k].some
    BY <1>2
  <2>2. Tracked \subseteq S /\ task[k].n = Cardinality(S) - MaxConnections
    BY <1>2, <1>6, <2>1 DEF Counts
  <2>3. T \subseteq S /\ Cardinality(S \ T) <= MaxConnections
    <3>1. PICK n \in Nat : n = task[k].n
      BY <1>2
    <3>2. T \in Lowest(S, n) /\ n = Cardinality(S) - MaxConnections
      BY <2>1, <2>2, <3>1
    <3>3. QED
      BY <3>2, ChosenEnough
  <2>4. Tracked \ T \subseteq S \ T /\ S \ T \subseteq Conns
    BY <2>2
  <2>5. Cardinality(Tracked \ T) <= Cardinality(S \ T)
        /\ Cardinality(Tracked \ T) \in Nat /\ Cardinality(S \ T) \in Nat
    BY <2>4, Fewer
  <2>6. Cardinality(Tracked \ T) <= MaxConnections
    BY <1>2, <2>3, <2>5
  <2>7. QED
    BY <1>2, <1>3, <1>5, <2>6 DEF Counts
<1>7. QED
  BY <1>2, <1>5, <1>6, LimitedBut

LEMMA LimitedPruned ==
  ASSUME TypeOK, TypeOK', OwnPeer, ConnectionsAssumption, Limited, Listening,
         NEW k \in Conns, NEW c \in Conns, Pruned(k, c)
  PROVE  Limited'
<1>1. Tracked' \subseteq Tracked /\ c \notin Tracked'
  BY DisconnectRemoves DEF Pruned, Tracked, Started, Listening
<1> DEFINE r == [task[k] EXCEPT !.some = task[k].some \ {c}]
<1>2. /\ k \in Tasks /\ task[k].at = "closing"
      /\ Tracked \subseteq Conns /\ MaxConnections \in Nat
      /\ task' = [task EXCEPT ![k] = r]
      /\ r.at = task[k].at /\ r.some = task[k].some \ {c}
  BY DEF Tasks, Pruned, Tracked, TypeOK, TaskRecord, ConnectionsAssumption
<1> HIDE DEF r
<1>3. task'[k] = r /\ \A d \in Conns : d # k => task'[d] = task[d]
  BY <1>2 DEF TypeOK, Tasks
<1>4. ASSUME Counts(k)
      PROVE  Counts(k)'
  <2>1. PICK X : X = task[k].some
    OBVIOUS
  <2>2. Tracked' \ (X \ {c}) \subseteq Tracked \ X /\ Tracked \ X \subseteq Conns
    BY <1>1, <1>2
  <2>3. Cardinality(Tracked' \ (X \ {c})) <= Cardinality(Tracked \ X)
        /\ Cardinality(Tracked' \ (X \ {c})) \in Nat /\ Cardinality(Tracked \ X) \in Nat
    BY <2>2, Fewer
  <2>4. Cardinality(Tracked \ X) <= MaxConnections
    BY <1>2, <1>4, <2>1 DEF Counts
  <2>5. Cardinality(Tracked' \ (X \ {c})) <= MaxConnections
    BY <1>2, <2>3, <2>4
  <2>6. QED
    BY <1>2, <1>3, <2>1, <2>5 DEF Counts
<1>5. QED
  BY <1>1, <1>2, <1>3, <1>4, LimitedBut

LEMMA LimitedEnds ==
  ASSUME TypeOK, TypeOK', ConnectionsAssumption, Limited, Listening,
         NEW k \in Conns, PruningEnds(k)
  PROVE  Limited'
<1>1. /\ Tracked' = Tracked /\ GetConnections' = GetConnections
      /\ task[k].at = "closing" /\ task[k].some = {} /\ task' = [task EXCEPT ![k] = Ended]
  BY DEF PruningEnds, Tracked, GetConnections
<1>2. \A c \in Conns : c # k => task'[c] = task[c]
  BY <1>1 DEF TypeOK, Tasks
<1>3. Counts(k) => GetConnections' <= MaxConnections
  <2>1. Tracked \ {} = Tracked
    OBVIOUS
  <2>2. QED
    BY <1>1, <2>1 DEF Counts, GetConnections
<1>4. QED
  BY <1>1, <1>2, <1>3, LimitedBut

(* The tasks of the connections, after a step that is none of the above.   *)
LEMMA OtherSteps ==
  ASSUME TypeOK, OwnPeer, ConnectionsAssumption, Next, Listening
  PROVE  \/ \E c \in Conns : KeyStored(c) \/ Created(c)
         \/ \E k \in Conns : PruneConnections(k) \/ PruningEnds(k) \/ \E c \in Conns : Pruned(k, c)
         \/ (\A c \in Conns : task'[c] = task[c]) /\ Tracked' \subseteq Tracked
<1> DEFINE Same == (\A c \in Conns : task'[c] = task[c]) /\ Tracked' \subseteq Tracked
<1>1. ASSUME NEW k \in Tasks \ Conns, NEW r, task' = [task EXCEPT ![k] = r]
      PROVE  \A c \in Conns : task'[c] = task[c]
  BY <1>1 DEF TypeOK, Tasks
<1>2. ASSUME NEW c \in Conns, CloseEnds(c)
      PROVE  Same
  <2>1. task' = task
    BY <1>2 DEF CloseEnds
  <2>2. \A p \in Peers : connections'[p] \subseteq connections[p]
    BY <1>2, DisconnectRemoves DEF CloseEnds
  <2>3. QED
    BY <2>1, <2>2 DEF Tracked
<1>3. ASSUME NEW k \in Tasks \ Conns, PruneConnections(k) \/ PruningEnds(k)
      PROVE  Same
  <2>1. \A c \in Conns : task'[c] = task[c]
    BY <1>1, <1>3 DEF PruneConnections, PruningEnds
  <2>2. QED
    BY <1>3, <2>1 DEF PruneConnections, PruningEnds, Tracked
<1>4. ASSUME NEW k \in Tasks \ Conns, NEW c \in Conns, Pruned(k, c)
      PROVE  Same
  <2>1. \A d \in Conns : task'[d] = task[d]
    BY <1>4 DEF Pruned, TypeOK, Tasks
  <2>2. \A p \in Peers : connections'[p] \subseteq connections[p]
    BY <1>4, DisconnectRemoves DEF Pruned
  <2>3. QED
    BY <2>1, <2>2 DEF Tracked
<1>5. CASE OnLatencyMeasure
  BY <1>1, <1>5 DEF OnLatencyMeasure, ConnectionsAssumption, Tasks, Tracked
<1>6. CASE Stop
  BY <1>1, <1>6 DEF Stop, ConnectionsAssumption, Tasks, Tracked
<1>7. CASE Closed
  BY <1>1, <1>7 DEF Closed, ConnectionsAssumption, Tasks, Tracked
<1>8. CASE UNCHANGED <<task, connections>>
  BY <1>8 DEF Tracked
<1>9. CASE Handlers
  BY <1>2, <1>3, <1>4, <1>9 DEF Handlers
<1>10. \/ Handlers \/ OnLatencyMeasure \/ Stop \/ Closed \/ UNCHANGED <<task, connections>>
       \/ \E c \in Conns : Created(c)
  BY DEF Next, RemoteClose, Incoming, Consumed, UpgradeFails, UpgradedInbound,
         UpgradedOutbound, HangUp, OpenConnection, AutoDial, EmitSummary, PageShown,
         PageHidden, Start, Listen, AfterStart, StartFails, BeforeStop, Down
<1> QED
  BY <1>5, <1>6, <1>7, <1>8, <1>9, <1>10

LEMMA LimitedKept ==
  ASSUME LimitInv, ConnectionsAssumption, Next
  PROVE  Limited'
<1>1. TypeOK /\ TypeOK' /\ OwnPeer /\ OneLife /\ Limited
  BY NextKept DEF LimitInv, ConnectionsInv, Kept
<1>2. CASE ~Listening'
  BY <1>2 DEF Limited
(* The manager begins to listen: no handler has begun. *)
<1>3. CASE Listening' /\ ~Listening
  <2>1. stage = "starting"
    BY <1>3, StageMoves DEF Listening
  <2>2. \A c \in Conns : task'[c].at = "none"
    BY <1>1, <2>1, <1>3, NextKept DEF OneLife, Kept, Effect, LimitInv, ConnectionsInv, Listening
  <2>3. QED
    BY <2>2 DEF Limited
<1>4. CASE Listening
  <2>1. ASSUME NEW c \in Conns, Created(c)
        PROVE  Limited'
    <3>1. task' = [task EXCEPT ![c] = [task[c] EXCEPT !.at = "keys"]] /\ c \in Tasks
      BY <1>4, <2>1 DEF Created, Tasks
    <3>2. task'[c] = [task[c] EXCEPT !.at = "keys"] /\ task[c] \in TaskRecord
      BY <1>1, <3>1 DEF TypeOK
    <3>3. task'[c].at = "keys"
      BY <3>2 DEF TaskRecord
    <3>4. QED
      BY <3>3 DEF Limited
  <2>2. QED
    BY <1>1, <1>4, <2>1, OtherSteps, LimitedKeys, LimitedPrunes, LimitedPruned, LimitedEnds,
       LimitedSame
<1>5. QED
  BY <1>2, <1>3, <1>4

(***************************************************************************)
(* Whatever is accepted, dialled and closed while handlers are at work,    *)
(* the manager is within maxConnections once they have ended               *)
(* (_checkMaxLimit, _pruneConnections).                                    *)
(***************************************************************************)
THEOREM BackWithinLimit == Spec => []WithinLimit
<1>1. ConnectionsAssumption /\ Init => LimitInv
  BY ConnectionsInitially DEF LimitInv, Limited, Init, Listening
<1>2. ConnectionsAssumption /\ LimitInv /\ [Next]_vars => LimitInv'
  <2> SUFFICES ASSUME ConnectionsAssumption, LimitInv, [Next]_vars
               PROVE  LimitInv'
    OBVIOUS
  <2>1. ConnectionsInv'
    BY ConnectionsKept DEF LimitInv
  <2>2. CASE UNCHANGED vars
    BY <2>1, <2>2 DEF LimitInv, Limited, Counts, Listening, GetConnections, Tracked, vars
  <2>3. QED
    BY <2>1, <2>2, LimitedKept DEF LimitInv
<1>3. LimitInv => WithinLimit
  BY DEF LimitInv, Limited, Counts, WithinLimit, Quiet, Tasks
<1> QED
  BY <1>1, <1>2, <1>3, ConnectionsAssumption, PTL DEF Spec

=============================================================================
