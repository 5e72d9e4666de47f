----------------------------- MODULE CircuitRelay -----------------------------
(***************************************************************************)
(* Dialling a peer through a relay (src/js-libp2p/src/circuit): the dialer *)
(* sends HOP to the relay, the relay sends STOP to the destination, and    *)
(* when both have answered the relay joins the two streams and the two     *)
(* ends upgrade what they see as one connection.                           *)
(*                                                                         *)
(* Each call of the transport's dial has its two streams: `src', between   *)
(* the dialer and the relay, and `dst', between the relay and the          *)
(* destination.  A stream is down once it has been reset or closed, which  *)
(* both ends of it see.  All calls are of one dialer, through one relay,   *)
(* to one destination.                                                     *)
(***************************************************************************)
EXTENDS Naturals, FiniteSets

CONSTANTS Calls, MaxLosses     \* calls of dial, and how often a connection is lost

ASSUME CircuitRelayAssumption == MaxLosses \in Nat

VARIABLES relayConn, \* the dialer is connected with the relay
          dstConn,   \* the relay is connected with the destination
          losses,    \* connections lost so far
          dial,      \* [Calls -> the dialer's side of the call]
          relay,     \* [Calls -> _onProtocol of the relay, for the src stream]
          dest,      \* [Calls -> _onProtocol of the destination, for dst]
          src, dst,  \* [Calls -> the streams]: up, and what the answer says
          timer      \* [Calls -> the relay's hop timeout is running]

vars == <<relayConn, dstConn, losses, dial, relay, dest, src, dst, timer>>

NoStream == [up |-> FALSE, answer |-> "none"]
NewStream == [up |-> TRUE, answer |-> "none"]

Init == /\ relayConn = FALSE /\ dstConn \in BOOLEAN /\ losses = 0
        /\ dial = [c \in Calls |-> [at |-> "idle", opened |-> FALSE]]
        /\ relay = [c \in Calls |-> "none"]
        /\ dest = [c \in Calls |-> "none"]
        /\ src = [c \in Calls |-> NoStream]
        /\ dst = [c \in Calls |-> NoStream]
        /\ timer = [c \in Calls |-> FALSE]

DialerKeeps == UNCHANGED <<relayConn, losses, dial>>
RelayKeeps == UNCHANGED <<dstConn, relay, timer>>
DestKeeps == UNCHANGED dest

(***************************************************************************)
(* The dialer: transport.dial and hop                                      *)
(***************************************************************************)

\* With no connection to the relay, one is opened.
Dial(c) ==
  /\ dial[c].at = "idle"
  /\ dial' = [dial EXCEPT ![c] = [at |-> IF relayConn THEN "connected" ELSE "connecting",
                                  opened |-> ~relayConn]]
  /\ UNCHANGED <<relayConn, losses, src, dst>> /\ RelayKeeps /\ DestKeeps

RelayConnected(c, ok) ==
  /\ dial[c].at = "connecting"
  /\ dial' = [dial EXCEPT ![c].at = IF ok THEN "connected" ELSE "failed"]
  /\ relayConn' = (relayConn \/ ok)
  /\ UNCHANGED <<losses, src, dst>> /\ RelayKeeps /\ DestKeeps

\* Every stream over a connection ends with it.
Down(streams, S) == [c \in Calls |->
  IF c \in S THEN [streams[c] EXCEPT !.up = FALSE] ELSE streams[c]]

\* A dial that fails closes the connection with the relay, but only one it opened.
Fails(c) ==
  /\ dial' = [dial EXCEPT ![c].at = "failed"]
  /\ relayConn' = (relayConn /\ ~dial[c].opened)
  /\ src' = Down(src, IF dial[c].opened THEN Calls ELSE {c})

\* hop: a new stream, and the request.
Hop(c) ==
  /\ dial[c].at = "connected" /\ relayConn
  /\ dial' = [dial EXCEPT ![c].at = "asking"]
  /\ src' = [src EXCEPT ![c] = NewStream]
  /\ relay' = [relay EXCEPT ![c] = "reading"]
  /\ timer' = [timer EXCEPT ![c] = TRUE]
  /\ UNCHANGED <<relayConn, losses, dst, dstConn>> /\ DestKeeps

HopUnconnected(c) ==
  /\ dial[c].at = "connected" /\ ~relayConn
  /\ Fails(c) /\ UNCHANGED <<losses, dst>> /\ RelayKeeps /\ DestKeeps

\* The relay has answered.
HopAnswered(c) ==
  /\ dial[c].at = "asking" /\ src[c].answer # "none"
  /\ IF src[c].answer = "success"
     THEN /\ dial' = [dial EXCEPT ![c].at = "upgrading"]
          /\ UNCHANGED <<relayConn, src>>
     ELSE Fails(c)
  /\ UNCHANGED <<losses, dst>> /\ RelayKeeps /\ DestKeeps

\* The read ends without an answer, or the upgrade fails.
HopBroken(c) ==
  /\ \/ dial[c].at = "asking" /\ src[c].answer = "none"
     \/ dial[c].at = "upgrading"
  /\ ~src[c].up
  /\ Fails(c) /\ UNCHANGED <<losses, dst>> /\ RelayKeeps /\ DestKeeps

\* The upgrade takes messages of both ends.
Upgraded(c) ==
  /\ dial[c].at = "upgrading" /\ src[c].up /\ relay[c] = "piping"
  /\ dest[c] \in {"upgrading", "open"} /\ dst[c].up
  /\ dial' = [dial EXCEPT ![c].at = "open"]
  /\ UNCHANGED <<relayConn, losses, src, dst>> /\ RelayKeeps /\ DestKeeps

\* The relayed connection is closed, or found to be: its stream is closed.
CloseDial(c) ==
  /\ dial[c].at = "open"
  /\ dial' = [dial EXCEPT ![c].at = "closed"] /\ src' = Down(src, {c})
  /\ UNCHANGED <<relayConn, losses, dst>> /\ RelayKeeps /\ DestKeeps

(***************************************************************************)
(* The relay: _onProtocol with a HOP request                               *)
(***************************************************************************)
Answers(c, code) == src' = [src EXCEPT ![c].answer = code]
\* _onProtocol returns: its timeout is cleared.
Returns(c, how) == /\ relay' = [relay EXCEPT ![c] = how]
                   /\ timer' = [timer EXCEPT ![c] = FALSE]

\* Faulty: the source is not told.
NoConnectionSilent(c) == UNCHANGED src

NoConnection(c) == Answers(c, "no connection")

\* validateAddrs: an address of a HOP or STOP request that this node cannot parse
\* is answered with an error; the stream is left as it is.
InvalidAddress(streams, c) == [streams EXCEPT ![c].answer = "invalid"]

InvalidHop(c) ==
  /\ relay[c] = "reading" /\ src[c].up
  /\ src' = InvalidAddress(src, c) /\ Returns(c, "answered")
  /\ UNCHANGED <<dst, dstConn>> /\ DialerKeeps /\ DestKeeps

\* handleHop, and the STOP request it sends over a stream of its own.
HandleHop(c) ==
  /\ relay[c] = "reading" /\ src[c].up
  /\ IF dstConn
     THEN /\ relay' = [relay EXCEPT ![c] = "stopping"]
          /\ dst' = [dst EXCEPT ![c] = NewStream]
          /\ dest' = [dest EXCEPT ![c] = "reading"]
          /\ UNCHANGED <<src, timer>>
     ELSE /\ NoConnection(c) /\ Returns(c, "answered") /\ UNCHANGED <<dst, dest>>
  /\ UNCHANGED dstConn /\ DialerKeeps

\* Faulty: as soon as STOP has been sent.
StopSent(c) == relay[c] = "stopping"

StopAccepted(c) == relay[c] = "stopping" /\ dst[c].answer = "success"

\* STOP has been accepted: the source is answered and the streams are joined.
Stopped(c) ==
  /\ StopAccepted(c)
  /\ Answers(c, "success") /\ relay' = [relay EXCEPT ![c] = "piping"]
  /\ UNCHANGED <<dst, dstConn, timer>> /\ DialerKeeps /\ DestKeeps

\* STOP was refused or not answered: its stream is closed, handleHop returns and
\* says nothing to the source.
StopFails(c) ==
  /\ relay[c] = "stopping"
  /\ \/ dst[c].answer = "invalid"
     \/ dst[c].answer = "none" /\ ~dst[c].up
  /\ dst' = Down(dst, {c}) /\ Returns(c, "silent")
  /\ UNCHANGED <<src, dstConn>> /\ DialerKeeps /\ DestKeeps

\* Faulty: what was joined is left open.
PipeEndsApart(c) == UNCHANGED <<src, dst>>

\* When either stream ends, so does the other.
PipeEndsBoth(c) == src' = Down(src, {c}) /\ dst' = Down(dst, {c})

PipeEnds(c) ==
  /\ relay[c] = "piping" /\ (~src[c].up \/ ~dst[c].up)
  /\ PipeEndsBoth(c) /\ Returns(c, "answered")
  /\ UNCHANGED dstConn /\ DialerKeeps /\ DestKeeps

ReadFails(c) ==
  /\ relay[c] = "reading" /\ ~src[c].up
  /\ Returns(c, "answered")
  /\ UNCHANGED <<src, dst, dstConn>> /\ DialerKeeps /\ DestKeeps

\* The hop timeout aborts the stream to the source, at whatever it is used for.
TimeoutHop(c) ==
  /\ timer[c] /\ timer' = [timer EXCEPT ![c] = FALSE]
  /\ src' = Down(src, {c})
  /\ UNCHANGED <<relay, dst, dstConn>> /\ DialerKeeps /\ DestKeeps

(***************************************************************************)
(* The destination: _onProtocol with a STOP request                        *)
(***************************************************************************)
HandleStop(c) ==
  /\ dest[c] = "reading" /\ dst[c].up
  /\ dest' = [dest EXCEPT ![c] = "upgrading"]
  /\ dst' = [dst EXCEPT ![c].answer = "success"]
  /\ UNCHANGED src /\ RelayKeeps /\ DialerKeeps

InvalidStop(c) ==
  /\ dest[c] = "reading" /\ dst[c].up
  /\ dest' = [dest EXCEPT ![c] = "refused"]
  /\ dst' = InvalidAddress(dst, c)
  /\ UNCHANGED src /\ RelayKeeps /\ DialerKeeps

UpgradedInbound(c) ==
  /\ dest[c] = "upgrading" /\ dst[c].up
  /\ relay[c] = "piping" /\ src[c].up /\ dial[c].at \in {"upgrading", "open"}
  /\ dest' = [dest EXCEPT ![c] = "open"]
  /\ UNCHANGED <<src, dst>> /\ RelayKeeps /\ DialerKeeps

\* Its own timeout, a denied connection, or the user closes it; or the stream
\* has ended.
DestEnds(c) ==
  /\ dest[c] \in {"reading", "upgrading", "open"}
  /\ dest' = [dest EXCEPT ![c] = "closed"] /\ dst' = Down(dst, {c})
  /\ UNCHANGED src /\ RelayKeeps /\ DialerKeeps

(***************************************************************************)
(* Connections come and go                                                 *)
(***************************************************************************)
RelayConnLost ==
  /\ relayConn /\ losses < MaxLosses /\ losses' = losses + 1
  /\ relayConn' = FALSE /\ src' = Down(src, Calls)
  /\ UNCHANGED <<dial, dst>> /\ RelayKeeps /\ DestKeeps

DstConnLost ==
  /\ dstConn /\ losses < MaxLosses /\ losses' = losses + 1
  /\ dstConn' = FALSE /\ dst' = Down(dst, Calls)
  /\ UNCHANGED <<relayConn, dial, src, relay, timer>> /\ DestKeeps

DialerNext(c) == \/ \E ok \in BOOLEAN : RelayConnected(c, ok)
                 \/ Hop(c) \/ HopUnconnected(c) \/ HopAnswered(c) \/ HopBroken(c)
                 \/ Upgraded(c)
RelayNext(c) == \/ HandleHop(c) \/ InvalidHop(c) \/ Stopped(c) \/ StopFails(c)
                \/ PipeEnds(c) \/ ReadFails(c)

Next == \/ \E c \in Calls : \/ Dial(c) \/ DialerNext(c) \/ CloseDial(c)
                            \/ RelayNext(c) \/ TimeoutHop(c)
                            \/ HandleStop(c) \/ InvalidStop(c) \/ UpgradedInbound(c)
                            \/ DestEnds(c)
        \/ RelayConnLost \/ DstConnLost

Spec == Init /\ [][Next]_vars

\* Functions go on when what they await has happened; the hop timeout expires
\* unless it is cleared; the destination answers, or its own timeout ends its
\* stream; an end whose stream has ended is closed.  Nobody need dial or close.
EndsWhenDown(c) == ~dst[c].up /\ DestEnds(c)
DialEndsWhenDown(c) == ~src[c].up /\ CloseDial(c)
Fairness == \A c \in Calls :
  /\ WF_vars(DialerNext(c)) /\ WF_vars(RelayNext(c)) /\ WF_vars(TimeoutHop(c))
  /\ WF_vars(HandleStop(c) \/ InvalidStop(c) \/ UpgradedInbound(c) \/ EndsWhenDown(c))
  /\ WF_vars(DialEndsWhenDown(c))
FairSpec == Spec /\ Fairness

(***************************************************************************)
(* Properties                                                              *)
(***************************************************************************)

\* The dialer upgrades a connection only with a destination that has accepted
\* it: the relay's SUCCESS is not sent before the destination's.
AcceptedByDestination == \A c \in Calls :
  dial[c].at \in {"upgrading", "open"} => dst[c].answer = "success"

\* A dial through a relay returns, however the relay, the destination, their
\* connections and the timeout interfere; the one exception is a STOP that failed,
\* of which the relay does not tell the dialer.
DialReturns == \A c \in Calls :
  dial[c].at \in {"connecting", "connected", "asking", "upgrading"}
    ~> \/ dial[c].at \in {"open", "failed", "closed"}
       \/ dial[c].at = "asking" /\ relay[c] = "silent"

\* The two ends of a relayed connection do not outlive each other.
EndsTogether == \A c \in Calls :
  /\ dial[c].at = "closed" ~> dest[c] = "closed"
  /\ dial[c].at = "open" /\ dest[c] = "closed" ~> dial[c].at = "closed"
===============================================================================
