------------------------- MODULE CircuitRelayProofs -------------------------
(***************************************************************************)
(* Proofs about CircuitRelay, for any calls and any number of lost         *)
(* connections.  SUCCESS travels from the destination to the relay over    *)
(* one stream and from the relay to the dialer over the other; nothing     *)
(* takes back an answer on the way.                                        *)
(***************************************************************************)
EXTENDS CircuitRelay, TLAPS

Codes == {"none", "success", "no connection", "invalid"}
StreamRecord == [up: BOOLEAN, answer: Codes]
DialStates == {"idle", "connecting", "connected", "asking", "upgrading", "open",
               "failed", "closed"}
RelayStates == {"none", "reading", "stopping", "piping", "answered", "silent"}
DestStates == {"none", "reading", "refused", "upgrading", "open", "closed"}

TypeOK ==
  /\ relayConn \in BOOLEAN /\ dstConn \in BOOLEAN /\ losses \in Nat
  /\ dial \in [Calls -> [at: DialStates, opened: BOOLEAN]]
  /\ relay \in [Calls -> RelayStates]
  /\ dest \in [Calls -> DestStates]
  /\ src \in [Calls -> StreamRecord] /\ dst \in [Calls -> StreamRecord]
  /\ timer \in [Calls -> BOOLEAN]

(* A request that has not been read has not been answered. *)
Unanswered(c) == /\ relay[c] = "reading" => src[c].answer = "none"
                 /\ dest[c] = "reading" => dst[c].answer = "none"

(* The relay passes on what the destination has said. *)
PassedOn(c) == src[c].answer = "success" => dst[c].answer = "success"

(* The dialer goes by what the relay has said. *)
Believed(c) == dial[c].at \in {"upgrading", "open"} => src[c].answer = "success"

RelayInv == /\ TypeOK
            /\ \A c \in Calls : Unanswered(c) /\ PassedOn(c) /\ Believed(c)

-----------------------------------------------------------------------------

LEMMA DownKeeps ==
  ASSUME NEW streams \in [Calls -> StreamRecord], NEW S
  PROVE  /\ Down(streams, S) \in [Calls -> StreamRecord]
         /\ \A c \in Calls : Down(streams, S)[c].answer = streams[c].answer
BY DEF Down, StreamRecord

(* A step that changes no answer and starts no reading. *)
LEMMA AnswersKept ==
  ASSUME RelayInv, TypeOK',
         \A c \in Calls :
           /\ src'[c].answer = src[c].answer /\ dst'[c].answer = dst[c].answer
           /\ relay'[c] = "reading" => relay[c] = "reading"
           /\ dest'[c] = "reading" => dest[c] = "reading"
           /\ dial'[c].at \in {"upgrading", "open"}
                => \/ dial[c].at \in {"upgrading", "open"}
                   \/ src[c].answer = "success"
  PROVE  RelayInv'
BY DEF RelayInv, Unanswered, PassedOn, Believed

LEMMA DialerTypes ==
  ASSUME TypeOK, NEW c \in Calls,
         Dial(c) \/ DialerNext(c) \/ CloseDial(c)
  PROVE  TypeOK'
<1>1. CASE Dial(c)
  BY <1>1 DEF Dial, RelayKeeps, DestKeeps, TypeOK, DialStates
<1>2. ASSUME NEW ok \in BOOLEAN, RelayConnected(c, ok) PROVE TypeOK'
  BY <1>2 DEF RelayConnected, RelayKeeps, DestKeeps, TypeOK, DialStates
<1>3. CASE Hop(c)
  BY <1>3 DEF Hop, DestKeeps, TypeOK, DialStates, RelayStates, NewStream, StreamRecord, Codes
<1>4. CASE Fails(c) /\ UNCHANGED <<losses, dst>> /\ RelayKeeps /\ DestKeeps
  BY <1>4, DownKeeps DEF Fails, RelayKeeps, DestKeeps, TypeOK, DialStates
<1>5. CASE HopUnconnected(c)
  BY <1>4, <1>5 DEF HopUnconnected
<1>6. CASE HopAnswered(c)
  BY <1>4, <1>6 DEF HopAnswered, RelayKeeps, DestKeeps, TypeOK, DialStates
<1>7. CASE HopBroken(c)
  BY <1>4, <1>7 DEF HopBroken
<1>8. CASE Upgraded(c)
  BY <1>8 DEF Upgraded, RelayKeeps, DestKeeps, TypeOK, DialStates
<1>9. CASE CloseDial(c)
  BY <1>9, DownKeeps DEF CloseDial, RelayKeeps, DestKeeps, TypeOK, DialStates
<1> QED
  BY <1>1, <1>2, <1>3, <1>5, <1>6, <1>7, <1>8, <1>9 DEF DialerNext

LEMMA RelayTypes ==
  ASSUME TypeOK, NEW c \in Calls,
         RelayNext(c) \/ TimeoutHop(c)
  PROVE  TypeOK'
<1> USE DEF DialerKeeps, DestKeeps, Returns, Answers, StreamRecord, Codes, RelayStates
<1>1. CASE HandleHop(c)
  <2>1. /\ NewStream \in StreamRecord
        /\ [src[c] EXCEPT !.answer = "no connection"] \in StreamRecord
    BY DEF NewStream, TypeOK
  <2>2. CASE dstConn
    <3>1. /\ relay' = [relay EXCEPT ![c] = "stopping"]
          /\ dst' = [dst EXCEPT ![c] = NewStream]
          /\ dest' = [dest EXCEPT ![c] = "reading"]
          /\ UNCHANGED <<src, timer, dstConn, relayConn, losses, dial>>
      BY <1>1, <2>2 DEF HandleHop
    <3> QED
      BY <2>1, <3>1 DEF TypeOK, DestStates
  <2>3. CASE ~dstConn
    <3>1. /\ src' = [src EXCEPT ![c] = [src[c] EXCEPT !.answer = "no connection"]]
          /\ relay' = [relay EXCEPT ![c] = "answered"]
          /\ timer' = [timer EXCEPT ![c] = FALSE]
          /\ UNCHANGED <<dst, dest, dstConn, relayConn, losses, dial>>
      BY <1>1, <2>3 DEF HandleHop, NoConnection, TypeOK
    <3> QED
      BY <2>1, <3>1 DEF TypeOK
  <2> QED
    BY <2>2, <2>3
<1>2. CASE InvalidHop(c)
  BY <1>2 DEF InvalidHop, InvalidAddress, TypeOK
<1>3. CASE Stopped(c)
  BY <1>3 DEF Stopped, TypeOK
<1>4. CASE StopFails(c)
  BY <1>4, DownKeeps DEF StopFails, TypeOK
<1>5. CASE PipeEnds(c)
  BY <1>5, DownKeeps DEF PipeEnds, PipeEndsBoth, TypeOK
<1>6. CASE ReadFails(c)
  BY <1>6 DEF ReadFails, TypeOK
<1>7. CASE TimeoutHop(c)
  BY <1>7, DownKeeps DEF TimeoutHop, TypeOK
<1> QED
  BY <1>1, <1>2, <1>3, <1>4, <1>5, <1>6, <1>7 DEF RelayNext

LEMMA DestTypes ==
  ASSUME TypeOK, NEW c \in Calls,
         HandleStop(c) \/ InvalidStop(c) \/ UpgradedInbound(c) \/ DestEnds(c)
  PROVE  TypeOK'
<1> USE DEF DialerKeeps, RelayKeeps, StreamRecord, Codes, DestStates
<1>1. CASE HandleStop(c)
  BY <1>1 DEF HandleStop, TypeOK
<1>2. CASE InvalidStop(c)
  BY <1>2 DEF InvalidStop, InvalidAddress, TypeOK
<1>3. CASE UpgradedInbound(c)
  BY <1>3 DEF UpgradedInbound, TypeOK
<1>4. CASE DestEnds(c)
  BY <1>4, DownKeeps DEF DestEnds, TypeOK
<1> QED
  BY <1>1, <1>2, <1>3, <1>4

LEMMA LossTypes ==
  ASSUME TypeOK, RelayConnLost \/ DstConnLost
  PROVE  TypeOK'
<1>1. losses' = losses + 1 /\ losses \in Nat
  BY DEF RelayConnLost, DstConnLost, TypeOK
<1>2. losses' \in Nat
  BY <1>1
<1>3. /\ Down(src, Calls) \in [Calls -> StreamRecord]
      /\ Down(dst, Calls) \in [Calls -> StreamRecord]
  BY DownKeeps DEF TypeOK
<1>4. CASE RelayConnLost
  <2>1. /\ relayConn' = FALSE /\ src' = Down(src, Calls)
        /\ UNCHANGED <<dial, dst, dstConn, relay, timer, dest>>
    BY <1>4 DEF RelayConnLost, RelayKeeps, DestKeeps
  <2> QED
    BY <1>2, <1>3, <2>1 DEF TypeOK
<1>5. CASE DstConnLost
  <2>1. /\ dstConn' = FALSE /\ dst' = Down(dst, Calls)
        /\ UNCHANGED <<relayConn, dial, src, relay, timer, dest>>
    BY <1>5 DEF DstConnLost, DestKeeps
  <2> QED
    BY <1>2, <1>3, <2>1 DEF TypeOK
<1> QED
  BY <1>4, <1>5

-----------------------------------------------------------------------------
(* The dialer *)

LEMMA DialerQuiet ==
  ASSUME RelayInv, NEW c \in Calls,
         \/ Dial(c) \/ (\E ok \in BOOLEAN : RelayConnected(c, ok))
         \/ HopUnconnected(c) \/ HopAnswered(c) \/ HopBroken(c)
         \/ Upgraded(c) \/ CloseDial(c)
  PROVE  RelayInv'
<1>1. TypeOK
  BY DEF RelayInv
<1>2. TypeOK'
  BY <1>1, DialerTypes DEF DialerNext
<1>3. UNCHANGED <<relay, dest, dst>>
  BY DEF Dial, RelayConnected, HopUnconnected, HopAnswered, HopBroken, Upgraded, CloseDial,
         RelayKeeps, DestKeeps
<1>4. \A d \in Calls : src'[d].answer = src[d].answer
  <2>1. src' = src \/ \E S : src' = Down(src, S)
    BY DEF Dial, RelayConnected, HopUnconnected, HopAnswered, HopBroken, Upgraded,
           CloseDial, Fails
  <2> QED
    BY <1>1, <2>1, DownKeeps DEF TypeOK
<1>5. \A d \in Calls : d # c => dial'[d] = dial[d]
  BY <1>1 DEF Dial, RelayConnected, HopUnconnected, HopAnswered, HopBroken, Upgraded,
              CloseDial, Fails, TypeOK
<1>6. dial'[c].at \in {"upgrading", "open"}
        => dial[c].at \in {"upgrading", "open"} \/ src[c].answer = "success"
  <2>1. CASE \/ Dial(c) \/ (\E ok \in BOOLEAN : RelayConnected(c, ok)) \/ CloseDial(c)
    BY <1>1, <2>1 DEF Dial, RelayConnected, CloseDial, TypeOK
  <2>2. CASE Fails(c)
    BY <1>1, <2>2 DEF Fails, TypeOK
  <2>3. CASE HopAnswered(c)
    BY <2>2, <2>3 DEF HopAnswered
  <2>4. CASE Upgraded(c)
    BY <2>4 DEF Upgraded
  <2> QED
    BY <2>1, <2>2, <2>3, <2>4 DEF HopUnconnected, HopBroken
<1> QED
  BY <1>2, <1>3, <1>4, <1>5, <1>6, AnswersKept

LEMMA HopStep ==
  ASSUME RelayInv, NEW c \in Calls, Hop(c)
  PROVE  RelayInv'
<1>1. TypeOK /\ TypeOK'
  BY DialerTypes DEF RelayInv, DialerNext
<1>2. /\ dial'[c].at = "asking" /\ src'[c].answer = "none"
      /\ \A d \in Calls : d # c => /\ dial'[d] = dial[d] /\ src'[d] = src[d]
                                   /\ relay'[d] = relay[d]
      /\ UNCHANGED <<dst, dest>>
  BY <1>1 DEF Hop, NewStream, DestKeeps, TypeOK
<1> QED
  BY <1>1, <1>2 DEF RelayInv, Unanswered, PassedOn, Believed

-----------------------------------------------------------------------------
(* The relay *)

LEMMA RelayQuiet ==
  ASSUME RelayInv, NEW c \in Calls,
         StopFails(c) \/ PipeEnds(c) \/ ReadFails(c) \/ TimeoutHop(c)
  PROVE  RelayInv'
<1>1. TypeOK
  BY DEF RelayInv
<1>2. TypeOK'
  BY <1>1, RelayTypes DEF RelayNext
<1>3. UNCHANGED <<dest, dial>>
  BY DEF StopFails, PipeEnds, ReadFails, TimeoutHop, DialerKeeps, DestKeeps
<1>4. \A d \in Calls : src'[d].answer = src[d].answer /\ dst'[d].answer = dst[d].answer
  <2>1. /\ src' = src \/ src' = Down(src, {c})
        /\ dst' = dst \/ dst' = Down(dst, {c})
    BY DEF StopFails, PipeEnds, PipeEndsBoth, ReadFails, TimeoutHop
  <2> QED
    BY <1>1, <2>1, DownKeeps DEF TypeOK
<1>5. \A d \in Calls : relay'[d] = "reading" => relay[d] = "reading"
  BY <1>1 DEF StopFails, PipeEnds, ReadFails, TimeoutHop, Returns, TypeOK
<1> QED
  BY <1>2, <1>3, <1>4, <1>5, AnswersKept

LEMMA RelayAnswers ==
  ASSUME RelayInv, NEW c \in Calls, HandleHop(c) \/ InvalidHop(c) \/ Stopped(c)
  PROVE  RelayInv'
<1>1. TypeOK /\ TypeOK'
  BY RelayTypes DEF RelayInv, RelayNext
<1>2. UNCHANGED dial
  BY DEF HandleHop, InvalidHop, Stopped, DialerKeeps
<1>3. \A d \in Calls : d # c => /\ src'[d] = src[d] /\ dst'[d] = dst[d]
                                /\ relay'[d] = relay[d] /\ dest'[d] = dest[d]
  BY <1>1 DEF HandleHop, NoConnection, InvalidHop, InvalidAddress, Stopped, Answers,
              Returns, DestKeeps, TypeOK
<1>4. relay'[c] # "reading"
  BY <1>1 DEF HandleHop, InvalidHop, Stopped, Returns, TypeOK
<1>5. src[c] \in StreamRecord
  BY <1>1 DEF TypeOK
<1>6. CASE HandleHop(c) /\ dstConn
  <2>1. UNCHANGED src /\ dst'[c].answer = "none"
    BY <1>1, <1>6 DEF HandleHop, NewStream, TypeOK
  <2>2. src[c].answer = "none"
    BY <1>6 DEF HandleHop, RelayInv, Unanswered
  <2> QED
    BY <1>1, <1>2, <1>3, <1>4, <2>1, <2>2 DEF RelayInv, Unanswered, PassedOn, Believed
<1>7. CASE (HandleHop(c) /\ ~dstConn) \/ InvalidHop(c)
  <2>1. /\ UNCHANGED <<dst, dest>>
        /\ src'[c].answer \in {"no connection", "invalid"}
    <3>1. UNCHANGED <<dst, dest>>
      BY <1>7 DEF HandleHop, InvalidHop, DestKeeps
    <3>2. PICK code \in {"no connection", "invalid"} :
            src' = [src EXCEPT ![c].answer = code]
      BY <1>7 DEF HandleHop, NoConnection, InvalidHop, InvalidAddress, Answers
    <3>3. src' = [src EXCEPT ![c] = [src[c] EXCEPT !.answer = code]]
      BY <3>2
    <3>4. src'[c] = [src[c] EXCEPT !.answer = code]
      BY <1>1, <3>3 DEF TypeOK
    <3>5. src'[c].answer = code
      BY <1>5, <3>4 DEF StreamRecord
    <3> QED
      BY <3>1, <3>5
  <2>2. dial[c].at \notin {"upgrading", "open"}
    <3>1. src[c].answer = "none"
      BY <1>7 DEF HandleHop, InvalidHop, RelayInv, Unanswered
    <3> QED
      BY <3>1 DEF RelayInv, Believed
  <2> QED
    BY <1>1, <1>2, <1>3, <1>4, <2>1, <2>2 DEF RelayInv, Unanswered, PassedOn, Believed
<1>8. CASE Stopped(c)
  <2>1. /\ UNCHANGED <<dst, dest>> /\ dst[c].answer = "success"
        /\ src'[c].answer = "success"
    BY <1>1, <1>5, <1>8 DEF Stopped, StopAccepted, Answers, DestKeeps, StreamRecord, TypeOK
  <2> QED
    BY <1>1, <1>2, <1>3, <1>4, <2>1 DEF RelayInv, Unanswered, PassedOn, Believed
<1> QED
  BY <1>6, <1>7, <1>8

-----------------------------------------------------------------------------
(* The destination, and the connections *)

LEMMA DestStep ==
  ASSUME RelayInv, NEW c \in Calls,
         HandleStop(c) \/ InvalidStop(c) \/ UpgradedInbound(c) \/ DestEnds(c)
  PROVE  RelayInv'
<1>1. TypeOK /\ TypeOK'
  BY DestTypes DEF RelayInv
<1>2. UNCHANGED <<dial, src, relay>>
  BY DEF HandleStop, InvalidStop, UpgradedInbound, DestEnds, DialerKeeps, RelayKeeps
<1>3. /\ dst[c] \in StreamRecord
      /\ \A d \in Calls : Down(dst, {c})[d].answer = dst[d].answer
  BY <1>1, DownKeeps DEF TypeOK
<1>4. \A d \in Calls : d # c => dst'[d].answer = dst[d].answer /\ dest'[d] = dest[d]
  <2>1. CASE HandleStop(c) \/ InvalidStop(c) \/ UpgradedInbound(c)
    BY <1>1, <2>1 DEF HandleStop, InvalidStop, InvalidAddress, UpgradedInbound, TypeOK
  <2>2. CASE DestEnds(c)
    <3>1. dst' = Down(dst, {c}) /\ dest' = [dest EXCEPT ![c] = "closed"]
      BY <2>2 DEF DestEnds
    <3> QED
      BY <1>3, <1>1, <3>1 DEF TypeOK
  <2> QED
    BY <2>1, <2>2
<1>5. dest'[c] # "reading"
  BY <1>1 DEF HandleStop, InvalidStop, UpgradedInbound, DestEnds, TypeOK
<1>6. CASE HandleStop(c) \/ UpgradedInbound(c) \/ DestEnds(c)
  <2>1. dst'[c].answer = dst[c].answer \/ dst'[c].answer = "success"
    <3>1. CASE HandleStop(c)
      <4>1. dst' = [dst EXCEPT ![c] = [dst[c] EXCEPT !.answer = "success"]]
        BY <3>1 DEF HandleStop
      <4>2. dst'[c] = [dst[c] EXCEPT !.answer = "success"]
        BY <1>1, <4>1 DEF TypeOK
      <4> QED
        BY <1>3, <4>2 DEF StreamRecord
    <3>2. CASE UpgradedInbound(c)
      BY <3>2 DEF UpgradedInbound
    <3>3. CASE DestEnds(c)
      BY <1>3, <3>3 DEF DestEnds
    <3> QED
      BY <1>6, <3>1, <3>2, <3>3
  <2> QED
    BY <1>1, <1>2, <1>4, <1>5, <2>1 DEF RelayInv, Unanswered, PassedOn, Believed
<1>7. CASE InvalidStop(c)
  <2>1. dst[c].answer = "none"
    BY <1>7 DEF InvalidStop, RelayInv, Unanswered
  <2>2. src[c].answer # "success"
    BY <2>1 DEF RelayInv, PassedOn
  <2> QED
    BY <1>1, <1>2, <1>4, <1>5, <2>2 DEF RelayInv, Unanswered, PassedOn, Believed
<1> QED
  BY <1>6, <1>7

LEMMA LossStep ==
  ASSUME RelayInv, RelayConnLost \/ DstConnLost
  PROVE  RelayInv'
<1>1. TypeOK /\ TypeOK'
  BY LossTypes DEF RelayInv
<1>2. UNCHANGED <<dial, relay, dest>>
  BY DEF RelayConnLost, DstConnLost, RelayKeeps, DestKeeps
<1>3. \A d \in Calls : src'[d].answer = src[d].answer /\ dst'[d].answer = dst[d].answer
  <2>1. /\ src' \in {src, Down(src, Calls)}
        /\ dst' \in {dst, Down(dst, Calls)}
    BY DEF RelayConnLost, DstConnLost
  <2>2. /\ \A d \in Calls : Down(src, Calls)[d].answer = src[d].answer
        /\ \A d \in Calls : Down(dst, Calls)[d].answer = dst[d].answer
    BY <1>1, DownKeeps DEF TypeOK
  <2> QED
    BY <2>1, <2>2
<1> QED
  BY <1>1, <1>2, <1>3, AnswersKept

-----------------------------------------------------------------------------
(* The invariant *)

LEMMA RelayInitially ==
  ASSUME Init
  PROVE  RelayInv
<1>1. TypeOK
  BY DEF Init, TypeOK, DialStates, RelayStates, DestStates, StreamRecord, NoStream, Codes
<1>2. \A c \in Calls : Unanswered(c) /\ PassedOn(c) /\ Believed(c)
  BY DEF Init, Unanswered, PassedOn, Believed, NoStream
<1> QED
  BY <1>1, <1>2 DEF RelayInv

LEMMA RelayKept ==
  ASSUME RelayInv, [Next]_vars
  PROVE  RelayInv'
<1>1. CASE UNCHANGED vars
  BY <1>1 DEF vars, RelayInv, TypeOK, Unanswered, PassedOn, Believed
<1>2. ASSUME NEW c \in Calls, Dial(c) \/ DialerNext(c) \/ CloseDial(c) PROVE RelayInv'
  BY <1>2, DialerQuiet, HopStep DEF DialerNext
<1>3. ASSUME NEW c \in Calls, RelayNext(c) \/ TimeoutHop(c) PROVE RelayInv'
  BY <1>3, RelayQuiet, RelayAnswers DEF RelayNext
<1>4. ASSUME NEW c \in Calls,
             HandleStop(c) \/ InvalidStop(c) \/ UpgradedInbound(c) \/ DestEnds(c)
      PROVE  RelayInv'
  BY <1>4, DestStep
<1>5. CASE RelayConnLost \/ DstConnLost
  BY <1>5, LossStep
<1> QED
  BY <1>1, <1>2, <1>3, <1>4, <1>5 DEF Next

THEOREM RelayInvariant == Spec => []RelayInv
<1>1. Init => RelayInv
  BY RelayInitially
<1>2. RelayInv /\ [Next]_vars => RelayInv'
  BY RelayKept
<1> QED
  BY <1>1, <1>2, PTL DEF Spec

(* The dialer upgrades a connection only when the destination has accepted   *)
(* it, whatever is lost or times out in between (hop.ts handleHop, stop.ts). *)
THEOREM OnlyAccepted == Spec => []AcceptedByDestination
<1>1. RelayInv => AcceptedByDestination
  BY DEF RelayInv, PassedOn, Believed, AcceptedByDestination
<1> QED
  BY <1>1, RelayInvariant, PTL
=============================================================================
