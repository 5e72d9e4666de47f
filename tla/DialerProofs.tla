---------------------------- MODULE DialerProofs ----------------------------
(***************************************************************************)
(* Proofs about Dialer, for any calls, peers, addresses and tokens and any *)
(* limits.  Tokens need not be told apart: it is enough that a request     *)
(* that has been settled gave back all it had, that a call that has not    *)
(* created its request yet has none that is not settled, and that the      *)
(* tokens in use and in the holder of a request are together no more than  *)
(* it was given.                                                           *)
(***************************************************************************)
EXTENDS Dialer, FiniteSetTheorems, TLAPS

CallStates == {"idle", "resolving", "cancelled", "waiting", "connected", "failed"}
AttemptStates == {"none", "waiting", "dialling", "refused", "ended"}
CallRecord == [at: CallStates, peer: Peers \cup {None}, on: Calls \cup {None}]
RequestRecord == [addrs: SUBSET Addrs, tokens: SUBSET Tokens, holder: SUBSET Tokens,
                  completed: Nat, done: BOOLEAN, aborted: BOOLEAN, settled: BOOLEAN]
AttemptRecord == [at: AttemptStates, token: Tokens \cup {None}]

TypeOK ==
  /\ tokens \in SUBSET Tokens
  /\ pendingDials \in [Peers -> Calls \cup {None}]
  /\ call \in [Calls -> CallRecord]
  /\ request \in [Calls -> RequestRecord]
  /\ attempt \in [Calls -> [Addrs -> AttemptRecord]]

(* A call that is past its beginning is about a peer; an attempt under way *)
(* has a token.                                                            *)
PeerKnown == \A c \in Calls : call[c].at # "idle" => call[c].peer \in Peers
HasToken == \A c \in Calls : \A a \in Using(c) : attempt[c][a].token \in Tokens

(* No request is lost when a call creates its own. *)
Fresh == \A c \in Calls :
  call[c].at \in {"idle", "resolving", "cancelled"} => request[c].settled

(* What a request can use at once. *)
Share == \A c \in Calls :
  Cardinality(Using(c)) + Cardinality(request[c].holder) <= MaxDialsPerPeer

DialerInv == /\ TypeOK /\ PeerKnown /\ HasToken
             /\ Fresh /\ TokensComeBack /\ Share

-----------------------------------------------------------------------------
(* Facts about sets *)

(* A finite set has subsets of every smaller size. *)
LEMMA SubsetOfSize ==
  ASSUME NEW S, IsFiniteSet(S), NEW k \in Nat, k <= Cardinality(S)
  PROVE  \E T \in SUBSET S : Cardinality(T) = k
<1> DEFINE n == Cardinality(S)
<1>1. n \in Nat /\ ExistsBijection(1 .. n, S)
  BY FS_CardinalityType
<1>2. PICK f : f \in Bijection(1 .. n, S)
  BY <1>1 DEF ExistsBijection
<1>3. /\ f \in [1 .. n -> S]
      /\ \A i, j \in 1 .. n : f[i] = f[j] => i = j
  BY <1>2 DEF Bijection, Injection, IsInjective
<1> DEFINE T == {f[i] : i \in 1 .. k}
           g == [i \in 1 .. k |-> f[i]]
<1>4. 1 .. k \subseteq 1 .. n
  BY <1>1
<1>5. T \in SUBSET S
  BY <1>3, <1>4
<1>6. g \in [1 .. k -> T]
  OBVIOUS
<1>7. \A i, j \in 1 .. k : g[i] = g[j] => i = j
  BY <1>3, <1>4
<1>8. \A t \in T : \E i \in 1 .. k : g[i] = t
  OBVIOUS
<1>9. g \in Bijection(1 .. k, T)
  BY <1>6, <1>7, <1>8 DEF Bijection, Injection, IsInjective, Surjection
<1>10. ExistsBijection(1 .. k, T)
  BY <1>9 DEF ExistsBijection
<1>11. Cardinality(T) = k
  BY <1>10, FS_CountingElements
<1> QED
  BY <1>5, <1>11

(* The least of three numbers. *)
LEMMA LeastOfThree ==
  ASSUME NEW i \in Nat, NEW j \in Nat, NEW k \in Nat
  PROVE  /\ MinOf({i, j, k}) \in Nat
         /\ MinOf({i, j, k}) <= j
         /\ MinOf({i, j, k}) <= k
<1> DEFINE S == {i, j, k}
<1>1. \E n \in S : \A m \in S : n <= m
  <2>1. CASE i <= j /\ i <= k
    BY <2>1
  <2>2. CASE j <= i /\ j <= k
    BY <2>2
  <2>3. CASE k <= i /\ k <= j
    BY <2>3
  <2> QED
    BY <2>1, <2>2, <2>3
<1>2. MinOf(S) \in S /\ \A m \in S : MinOf(S) <= m
  BY <1>1 DEF MinOf
<1> QED
  BY <1>2

(* What getTokens takes is free, and no more than a request may have. *)
LEMMA TokensTaken ==
  ASSUME DialerAssumption, tokens \in SUBSET Tokens, NEW num \in Nat
  PROVE  /\ GetTokens(num) \in SUBSET tokens
         /\ Cardinality(GetTokens(num)) <= MaxDialsPerPeer
<1> DEFINE n == Cardinality(tokens)
           total == MinOf({num, MaxDialsPerPeer, n})
<1>1. IsFiniteSet(tokens)
  BY FS_Subset DEF DialerAssumption
<1>2. n \in Nat
  BY <1>1, FS_CardinalityType
<1>3. MaxDialsPerPeer \in Nat
  BY DEF DialerAssumption
<1> HIDE DEF n
<1>4. total \in Nat /\ total <= MaxDialsPerPeer /\ total <= n
  BY <1>2, <1>3, LeastOfThree
<1> HIDE DEF total
<1>5. \E T \in SUBSET tokens : Cardinality(T) = total
  BY <1>1, <1>4, SubsetOfSize DEF n
<1>6. GetTokens(num) = CHOOSE T \in SUBSET tokens : Cardinality(T) = total
  BY DEF GetTokens, total, n
<1>7. /\ GetTokens(num) \in SUBSET tokens
      /\ Cardinality(GetTokens(num)) = total
  BY <1>5, <1>6
<1> QED
  BY <1>4, <1>7

-----------------------------------------------------------------------------
(* Steps that leave tokens and attempts alone *)

Quiet == /\ tokens' = tokens /\ attempt' = attempt
         /\ \A c \in Calls : /\ request'[c].tokens = request[c].tokens
                             /\ request'[c].holder = request[c].holder
                             /\ request'[c].settled = request[c].settled

LEMMA QuietStep ==
  ASSUME DialerInv, Quiet
  PROVE  HasToken' /\ TokensComeBack' /\ Share'
<1>1. \A c \in Calls : Using(c)' = Using(c)
  BY DEF Quiet, Using
<1>2. HasToken'
  BY <1>1 DEF Quiet, HasToken, DialerInv
<1>3. TokensComeBack'
  BY DEF Quiet, TokensComeBack, DialerInv
<1>4. Share'
  <2> SUFFICES ASSUME NEW c \in Calls
               PROVE  Cardinality(Using(c)') + Cardinality(request'[c].holder)
                        <= MaxDialsPerPeer
    BY DEF Share
  <2>1. Cardinality(Using(c)) + Cardinality(request[c].holder) <= MaxDialsPerPeer
    BY DEF Share, DialerInv
  <2> QED
    BY <1>1, <2>1 DEF Quiet
<1> QED
  BY <1>2, <1>3, <1>4

LEMMA DialStep ==
  ASSUME DialerInv, NEW c \in Calls, NEW p \in Peers, Dial(c, p)
  PROVE  DialerInv'
<1>1. Quiet
  BY DEF Dial, Quiet
<1>2. TypeOK'
  <2> DEFINE r == [at |-> IF p \in DeniedPeers THEN "failed" ELSE "resolving",
                   peer |-> p, on |-> None]
  <2>1. r \in CallRecord
    BY DEF CallRecord, CallStates
  <2>2. call' = [call EXCEPT ![c] = r]
    BY DEF Dial
  <2> HIDE DEF r
  <2> QED
    BY <2>1, <2>2 DEF Dial, TypeOK, DialerInv
<1>3. PeerKnown'
  BY DEF Dial, PeerKnown, TypeOK, DialerInv
<1>4. Fresh'
  <2>1. call[c].at = "idle"
    BY DEF Dial, Idle
  <2>2. request[c].settled
    BY <2>1 DEF Fresh, DialerInv
  <2> QED
    BY <2>2 DEF Dial, Fresh, TypeOK, DialerInv
<1> QED
  BY <1>1, <1>2, <1>3, <1>4, QuietStep DEF DialerInv

(* A call that returns, or waits for a request, leaves the requests alone. *)
LEMMA CallStep ==
  ASSUME DialerInv, NEW c \in Calls, NEW how \in {"failed", "waiting"},
         NEW on \in Calls \cup {None},
         call[c].at # "idle",
         call' = [call EXCEPT ![c] = [@ EXCEPT !.at = how, !.on = on]],
         UNCHANGED <<started, tokens, pendingDials, request, attempt>>
  PROVE  DialerInv'
<1>1. Quiet
  BY DEF Quiet
<1>2. call[c] \in CallRecord
  BY DEF TypeOK, DialerInv
<1>3. [call[c] EXCEPT !.at = how, !.on = on] \in CallRecord
  BY <1>2 DEF CallRecord, CallStates
<1>4. TypeOK'
  BY <1>3 DEF TypeOK, DialerInv
<1>5. \A d \in Calls : /\ d # c => call'[d] = call[d]
                       /\ call'[c].at = how /\ call'[c].peer = call[c].peer
  BY <1>2 DEF TypeOK, DialerInv, CallRecord
<1>6. PeerKnown'
  BY <1>5 DEF PeerKnown, DialerInv
<1>7. Fresh'
  BY <1>5 DEF Fresh, DialerInv
<1> QED
  BY <1>1, <1>4, <1>6, <1>7, QuietStep DEF DialerInv

LEMMA DialRefusedStep ==
  ASSUME DialerInv, NEW c \in Calls, NEW found, DialRefused(c, found)
  PROVE  DialerInv'
<1>1. call[c] \in CallRecord
  BY DEF TypeOK, DialerInv
<1>2. [call[c] EXCEPT !.at = "failed"]
        = [call[c] EXCEPT !.at = "failed", !.on = call[c].on]
  BY <1>1 DEF CallRecord
<1>3. call' = [call EXCEPT ![c] = [call[c] EXCEPT !.at = "failed"]]
  BY DEF DialRefused, Returned
<1>4. call' = [call EXCEPT ![c] = [@ EXCEPT !.at = "failed", !.on = call[c].on]]
  BY <1>2, <1>3
<1>5. call[c].on \in Calls \cup {None}
  BY <1>1 DEF CallRecord
<1>6. call[c].at # "idle" /\ UNCHANGED <<started, tokens, pendingDials, request, attempt>>
  BY DEF DialRefused
<1> QED
  BY <1>4, <1>5, <1>6, CallStep

LEMMA JoinDialStep ==
  ASSUME DialerInv, NEW c \in Calls, NEW found, JoinDial(c, found)
  PROVE  DialerInv'
<1>1. call[c].at # "idle" /\ UNCHANGED <<started, tokens, pendingDials, request, attempt>>
  BY DEF JoinDial
<1>2. call[c].peer \in Peers
  BY <1>1 DEF PeerKnown, DialerInv
<1>3. pendingDials[call[c].peer] \in Calls \cup {None}
  BY <1>2 DEF TypeOK, DialerInv
<1>4. call' = [call EXCEPT ![c] = [@ EXCEPT !.at = "waiting",
                                             !.on = pendingDials[call[c].peer]]]
  BY DEF JoinDial
<1> QED
  BY <1>1, <1>3, <1>4, CallStep

-----------------------------------------------------------------------------
(* Steps that move tokens *)

LEMMA CreateDialStep ==
  ASSUME DialerAssumption, DialerInv, NEW c \in Calls, NEW found, CreateDial(c, found)
  PROVE  DialerInv'
<1> DEFINE p     == call[c].peer
           addrs == DialTarget(p, found)
           mine  == GetTokens(Cardinality(addrs))
           r     == [NoRequest EXCEPT !.addrs = addrs, !.tokens = mine,
                                      !.holder = mine, !.settled = FALSE]
<1>1. /\ call[c].at \in {"resolving", "cancelled"}
      /\ pendingDials' = [pendingDials EXCEPT ![p] = c]
      /\ call' = [call EXCEPT ![c] = [@ EXCEPT !.at = "waiting", !.on = c]]
      /\ tokens' = tokens \ mine
      /\ request' = [request EXCEPT ![c] = r]
      /\ attempt' = [attempt EXCEPT ![c] = Run(addrs, mine)]
  BY DEF CreateDial
<1>2. addrs \in SUBSET Addrs
  BY DEF DialTarget, Supported, DialerAssumption
<1>3. Cardinality(addrs) \in Nat
  BY <1>2, FS_Subset, FS_CardinalityType DEF DialerAssumption
<1>4. mine \in SUBSET tokens /\ Cardinality(mine) <= MaxDialsPerPeer
  BY <1>3, TokensTaken DEF TypeOK, DialerInv
<1> HIDE DEF p, addrs, mine
<1>5. /\ r \in RequestRecord
      /\ r.tokens = mine /\ r.holder = mine /\ ~r.settled
  BY <1>2, <1>4 DEF NoRequest, RequestRecord, TypeOK, DialerInv
<1>6. Run(addrs, mine) \in [Addrs -> AttemptRecord]
  BY DEF Run, NoAttempt, AttemptRecord, AttemptStates
<1> HIDE DEF r
<1>7. /\ call[c] \in CallRecord
      /\ [call[c] EXCEPT !.at = "waiting", !.on = c] \in CallRecord
  BY DEF TypeOK, DialerInv, CallRecord, CallStates
<1>8. TypeOK'
  BY <1>1, <1>4, <1>5, <1>6, <1>7 DEF TypeOK, DialerInv
<1>9. \A d \in Calls : /\ d # c => call'[d] = call[d]
                       /\ call'[c].at = "waiting" /\ call'[c].peer = call[c].peer
  BY <1>1, <1>7 DEF TypeOK, DialerInv, CallRecord
<1>10. \A d \in Calls : /\ d # c => /\ request'[d] = request[d]
                                    /\ attempt'[d] = attempt[d]
                        /\ request'[c] = r /\ attempt'[c] = Run(addrs, mine)
  BY <1>1 DEF TypeOK, DialerInv
<1>11. PeerKnown'
  BY <1>1, <1>9 DEF PeerKnown, DialerInv
<1>12. \A d \in Calls : Using(d)' = IF d = c THEN {} ELSE Using(d)
  <2>1. Using(c)' = {}
    <3>1. \A a \in Addrs : Run(addrs, mine)[a].at \in {"none", "waiting"}
      BY DEF Run, NoAttempt
    <3>2. \A a \in Addrs : attempt'[c][a].at \in {"none", "waiting"}
      BY <3>1, <1>10
    <3>3. \A a \in Addrs : attempt'[c][a].at \notin {"dialling", "refused"}
      BY <3>2
    <3>4. Using(c)' = {a \in Addrs : attempt'[c][a].at \in {"dialling", "refused"}}
      BY DEF Using
    <3> QED
      BY <3>3, <3>4
  <2>2. \A d \in Calls : d # c => Using(d)' = Using(d)
    BY <1>10 DEF Using
  <2> QED
    BY <2>1, <2>2
<1>13. HasToken'
  BY <1>10, <1>12 DEF HasToken, DialerInv
<1>14. Fresh'
  BY <1>9, <1>10 DEF Fresh, DialerInv
<1>15. TokensComeBack'
  <2> SUFFICES ASSUME NEW t \in Tokens \ tokens'
               PROVE  \E d \in Calls : ~request'[d].settled /\ t \in request'[d].tokens
    BY DEF TokensComeBack
  <2>1. CASE t \in mine
    BY <2>1, <1>5, <1>10
  <2>2. CASE t \notin mine
    <3>1. t \in Tokens \ tokens
      BY <2>2, <1>1
    <3>2. PICK d \in Calls : ~request[d].settled /\ t \in request[d].tokens
      BY <3>1 DEF TokensComeBack, DialerInv
    <3>3. d # c
      BY <3>2, <1>1 DEF Fresh, DialerInv
    <3> QED
      BY <3>2, <3>3, <1>10
  <2> QED
    BY <2>1, <2>2
<1>16. Share'
  <2> SUFFICES ASSUME NEW d \in Calls
               PROVE  Cardinality(Using(d)') + Cardinality(request'[d].holder)
                        <= MaxDialsPerPeer
    BY DEF Share
  <2>1. CASE d = c
    <3>1. Cardinality(Using(d)') = 0
      BY <2>1, <1>12, FS_EmptySet
    <3>2. request'[d].holder = mine
      BY <2>1, <1>5, <1>10
    <3>3. Cardinality(mine) \in Nat
      BY <1>4, FS_Subset, FS_CardinalityType DEF DialerAssumption, TypeOK, DialerInv
    <3> QED
      BY <3>1, <3>2, <3>3, <1>4
  <2>2. CASE d # c
    <3>1. Cardinality(Using(d)) + Cardinality(request[d].holder) <= MaxDialsPerPeer
      BY DEF Share, DialerInv
    <3> QED
      BY <2>2, <3>1, <1>10, <1>12
  <2> QED
    BY <2>1, <2>2
<1> QED
  BY <1>8, <1>11, <1>13, <1>14, <1>15, <1>16 DEF DialerInv

(* The sets a request counts are finite. *)
LEMMA FiniteShare ==
  ASSUME DialerAssumption, TypeOK, NEW c \in Calls
  PROVE  /\ IsFiniteSet(Using(c)) /\ Cardinality(Using(c)) \in Nat
         /\ IsFiniteSet(request[c].holder) /\ Cardinality(request[c].holder) \in Nat
<1>1. Using(c) \in SUBSET Addrs
  BY DEF Using
<1>2. request[c].holder \in SUBSET Tokens
  BY DEF TypeOK, RequestRecord
<1> QED
  BY <1>1, <1>2, FS_Subset, FS_CardinalityType DEF DialerAssumption

(* The attempts of other requests, and the requests, are as before. *)
LEMMA OthersKept ==
  ASSUME TypeOK, NEW c \in Calls,
         NEW r, request' = [request EXCEPT ![c] = r],
         NEW f, attempt' = [attempt EXCEPT ![c] = f]
  PROVE  /\ request'[c] = r /\ attempt'[c] = f
         /\ \A d \in Calls : d # c => /\ request'[d] = request[d]
                                     /\ attempt'[d] = attempt[d]
                                     /\ Using(d)' = Using(d)
BY DEF TypeOK, Using

(* What one request does with its tokens and attempts: it is enough to look  *)
(* at that request.                                                          *)
LEMMA RequestStep ==
  ASSUME DialerInv, NEW c \in Calls,
         NEW r \in RequestRecord, request' = [request EXCEPT ![c] = r],
         NEW f \in [Addrs -> AttemptRecord], attempt' = [attempt EXCEPT ![c] = f],
         UNCHANGED <<pendingDials, call>>,
         tokens' \in SUBSET Tokens,
         r.settled = request[c].settled,
         tokens \subseteq tokens',
         \A t \in request[c].tokens : t \in r.tokens \/ t \in tokens',
         \A a \in Using(c)' : f[a].token \in Tokens,
         Cardinality(Using(c)') + Cardinality(r.holder) <= MaxDialsPerPeer
  PROVE  DialerInv'
<1>1. TypeOK
  BY DEF DialerInv
<1>2. /\ request'[c] = r /\ attempt'[c] = f
      /\ \A d \in Calls : d # c => /\ request'[d] = request[d]
                                  /\ attempt'[d] = attempt[d]
                                  /\ Using(d)' = Using(d)
  BY <1>1, OthersKept
<1>3. TypeOK'
  BY <1>1 DEF TypeOK
<1>4. PeerKnown'
  BY DEF PeerKnown, DialerInv
<1>5. HasToken'
  BY <1>2 DEF HasToken, DialerInv
<1>6. Fresh'
  BY <1>2 DEF Fresh, DialerInv
<1>7. TokensComeBack'
  <2> SUFFICES ASSUME NEW t \in Tokens \ tokens'
               PROVE  \E d \in Calls : ~request'[d].settled /\ t \in request'[d].tokens
    BY DEF TokensComeBack
  <2>1. t \in Tokens \ tokens
    OBVIOUS
  <2>2. PICK d \in Calls : ~request[d].settled /\ t \in request[d].tokens
    BY <2>1 DEF TokensComeBack, DialerInv
  <2>3. ~request'[d].settled /\ t \in request'[d].tokens
    BY <2>2, <1>2
  <2> QED
    BY <2>3
<1>8. Share'
  <2> SUFFICES ASSUME NEW d \in Calls
               PROVE  Cardinality(Using(d)') + Cardinality(request'[d].holder)
                        <= MaxDialsPerPeer
    BY DEF Share
  <2>1. CASE d = c
    BY <2>1, <1>2
  <2>2. CASE d # c
    <3>1. Cardinality(Using(d)) + Cardinality(request[d].holder) <= MaxDialsPerPeer
      BY DEF Share, DialerInv
    <3> QED
      BY <2>2, <3>1, <1>2
  <2> QED
    BY <2>1, <2>2
<1> QED
  BY <1>3, <1>4, <1>5, <1>6, <1>7, <1>8 DEF DialerInv

LEMMA StartAttemptStep ==
  ASSUME DialerAssumption, DialerInv, NEW c \in Calls, NEW a \in Addrs,
         StartAttempt(c, a)
  PROVE  DialerInv'
<1>1. PICK t \in Tokens :
        /\ Shift(c, a, t)
        /\ request' = [request EXCEPT ![c].holder = @ \ {t}]
        /\ attempt' = [attempt EXCEPT ![c][a] = TransportDial(request[c], t)]
        /\ UNCHANGED <<started, tokens, pendingDials, call>>
  BY DEF StartAttempt
<1> DEFINE r == [request[c] EXCEPT !.holder = @ \ {t}]
           f == [attempt[c] EXCEPT ![a] = TransportDial(request[c], t)]
<1>2. TypeOK /\ request[c] \in RequestRecord /\ attempt[c] \in [Addrs -> AttemptRecord]
  BY DEF DialerInv, TypeOK
<1>3. request' = [request EXCEPT ![c] = r] /\ attempt' = [attempt EXCEPT ![c] = f]
  BY <1>1, <1>2 DEF TypeOK
<1>4. /\ r \in RequestRecord /\ r.settled = request[c].settled
      /\ r.tokens = request[c].tokens /\ r.holder = request[c].holder \ {t}
  BY <1>2 DEF RequestRecord
<1>5. /\ TransportDial(request[c], t) \in AttemptRecord
      /\ TransportDial(request[c], t).at \in {"dialling", "refused"}
      /\ TransportDial(request[c], t).token = t
  BY DEF TransportDial, AttemptRecord, AttemptStates
<1>6. /\ f \in [Addrs -> AttemptRecord]
      /\ f[a] = TransportDial(request[c], t)
      /\ \A b \in Addrs : b # a => f[b] = attempt[c][b]
  BY <1>2, <1>5
<1> HIDE DEF r, f
<1>7. attempt'[c] = f
  BY <1>2, <1>3, OthersKept
<1>8. a \notin Using(c) /\ t \in request[c].holder
  BY <1>1 DEF Shift, Using
<1>9. Using(c)' = Using(c) \cup {a}
  BY <1>5, <1>6, <1>7 DEF Using
<1>10. \A b \in Using(c)' : f[b].token \in Tokens
  <2>1. \A b \in Using(c) : b \in Addrs /\ attempt[c][b].token \in Tokens
    BY DEF HasToken, DialerInv, Using
  <2> QED
    BY <2>1, <1>5, <1>6, <1>8, <1>9
<1>11. Cardinality(Using(c)') + Cardinality(r.holder) <= MaxDialsPerPeer
  <2>1. Cardinality(Using(c)') = Cardinality(Using(c)) + 1
    BY <1>2, <1>8, <1>9, FiniteShare, FS_AddElement
  <2>2. Cardinality(r.holder) = Cardinality(request[c].holder) - 1
    <3> DEFINE h == request[c].holder
    <3>1. IsFiniteSet(h)
      BY <1>2, FiniteShare
    <3>2. t \in h /\ r.holder = h \ {t}
      BY <1>4, <1>8
    <3> HIDE DEF h
    <3>3. Cardinality(h \ {t}) = Cardinality(h) - 1
      BY <3>1, <3>2, FS_RemoveElement
    <3> QED
      BY <3>2, <3>3 DEF h
  <2>3. Cardinality(Using(c)) + Cardinality(request[c].holder) <= MaxDialsPerPeer
    BY DEF Share, DialerInv
  <2>4. Cardinality(Using(c)) \in Nat /\ Cardinality(request[c].holder) \in Nat
    BY <1>2, FiniteShare
  <2> QED
    BY <2>1, <2>2, <2>3, <2>4 DEF DialerAssumption
<1>12. tokens' \in SUBSET Tokens /\ tokens \subseteq tokens'
  BY <1>1, <1>2 DEF TypeOK
<1>13. \A u \in request[c].tokens : u \in r.tokens \/ u \in tokens'
  BY <1>4
<1>14. UNCHANGED <<pendingDials, call>>
  BY <1>1
<1> QED
  BY <1>3, <1>4, <1>6, <1>10, <1>11, <1>12, <1>13, <1>14, RequestStep

(* An attempt that ends without having dialled. *)
LEMMA EndsUnusedStep ==
  ASSUME DialerAssumption, DialerInv, NEW c \in Calls, NEW a \in Addrs,
         EndsUnused(c, a)
  PROVE  DialerInv'
<1>1. PICK t \in Tokens :
        /\ Shift(c, a, t)
        /\ request' = [request EXCEPT ![c].holder = @ \ {t}, ![c].tokens = @ \ {t}]
        /\ tokens' = tokens \cup {t}
        /\ attempt' = [attempt EXCEPT ![c][a] = [NoAttempt EXCEPT !.at = "ended"]]
        /\ UNCHANGED <<started, pendingDials, call>>
  BY DEF EndsUnused
<1> DEFINE r == [request[c] EXCEPT !.holder = @ \ {t}, !.tokens = @ \ {t}]
           f == [attempt[c] EXCEPT ![a] = [NoAttempt EXCEPT !.at = "ended"]]
<1>2. TypeOK /\ request[c] \in RequestRecord /\ attempt[c] \in [Addrs -> AttemptRecord]
  BY DEF DialerInv, TypeOK
<1>3. request' = [request EXCEPT ![c] = r] /\ attempt' = [attempt EXCEPT ![c] = f]
  BY <1>1, <1>2 DEF TypeOK, RequestRecord
<1>4. /\ r \in RequestRecord /\ r.settled = request[c].settled
      /\ r.tokens = request[c].tokens \ {t} /\ r.holder = request[c].holder \ {t}
  BY <1>2 DEF RequestRecord
<1>5. /\ [NoAttempt EXCEPT !.at = "ended"] \in AttemptRecord
      /\ [NoAttempt EXCEPT !.at = "ended"].at = "ended"
  BY DEF NoAttempt, AttemptRecord, AttemptStates
<1>6. /\ f \in [Addrs -> AttemptRecord]
      /\ f[a].at = "ended"
      /\ \A b \in Addrs : b # a => f[b] = attempt[c][b]
  BY <1>2, <1>5
<1> HIDE DEF r, f
<1>7. attempt'[c] = f
  BY <1>2, <1>3, OthersKept
<1>8. a \notin Using(c) /\ t \in request[c].holder
  BY <1>1 DEF Shift, Using
<1>9. Using(c)' = Using(c)
  <2>1. \A b \in Addrs : b # a => attempt'[c][b] = attempt[c][b]
    BY <1>6, <1>7
  <2>2. a \notin Using(c)'
    BY <1>6, <1>7 DEF Using
  <2> QED
    BY <2>1, <2>2, <1>8 DEF Using
<1>10. \A b \in Using(c)' : f[b].token \in Tokens
  <2>1. \A b \in Using(c) : b \in Addrs /\ attempt[c][b].token \in Tokens
    BY DEF HasToken, DialerInv, Using
  <2> QED
    BY <2>1, <1>6, <1>8, <1>9
<1>11. Cardinality(Using(c)') + Cardinality(r.holder) <= MaxDialsPerPeer
  <2>1. Cardinality(r.holder) = Cardinality(request[c].holder) - 1
    <3> DEFINE h == request[c].holder
    <3>1. IsFiniteSet(h)
      BY <1>2, FiniteShare
    <3>2. t \in h /\ r.holder = h \ {t}
      BY <1>4, <1>8
    <3> HIDE DEF h
    <3>3. Cardinality(h \ {t}) = Cardinality(h) - 1
      BY <3>1, <3>2, FS_RemoveElement
    <3> QED
      BY <3>2, <3>3 DEF h
  <2>2. Cardinality(Using(c)) + Cardinality(request[c].holder) <= MaxDialsPerPeer
    BY DEF Share, DialerInv
  <2>3. Cardinality(Using(c)) \in Nat /\ Cardinality(request[c].holder) \in Nat
    BY <1>2, FiniteShare
  <2> QED
    BY <1>9, <2>1, <2>2, <2>3 DEF DialerAssumption
<1>12. tokens' \in SUBSET Tokens /\ tokens \subseteq tokens'
  BY <1>1, <1>2 DEF TypeOK
<1>13. \A u \in request[c].tokens : u \in r.tokens \/ u \in tokens'
  BY <1>1, <1>4
<1>14. UNCHANGED <<pendingDials, call>>
  BY <1>1
<1> QED
  BY <1>3, <1>4, <1>6, <1>10, <1>11, <1>12, <1>13, <1>14, RequestStep

(* An attempt that has dialled hands its token on, or back. *)
LEMMA EndAttemptStep ==
  ASSUME DialerAssumption, DialerInv, NEW c \in Calls, NEW a \in Addrs,
         NEW ok \in BOOLEAN, EndAttempt(c, a, ok)
  PROVE  DialerInv'
<1> DEFINE t == attempt[c][a].token
           q == request[c]
           f == [attempt[c] EXCEPT ![a] = [NoAttempt EXCEPT !.at = "ended"]]
           recycled == [q EXCEPT !.completed = @ + 1, !.done = @ \/ ok,
                                 !.holder = @ \cup {t}]
           released == [q EXCEPT !.completed = @ + 1, !.done = @ \/ ok,
                                 !.tokens = @ \ {t}]
<1>1. /\ attempt[c][a].at \in {"dialling", "refused"}
      /\ attempt' = [attempt EXCEPT ![c][a] = [NoAttempt EXCEPT !.at = "ended"]]
      /\ \/ /\ request' = [request EXCEPT ![c] = recycled]
            /\ tokens' = tokens
         \/ /\ request' = [request EXCEPT ![c] = released]
            /\ tokens' = tokens \cup {t}
      /\ UNCHANGED <<started, pendingDials, call>>
  BY DEF EndAttempt
<1>2. TypeOK /\ q \in RequestRecord /\ attempt[c] \in [Addrs -> AttemptRecord]
  BY DEF DialerInv, TypeOK
<1>3. attempt' = [attempt EXCEPT ![c] = f]
  BY <1>1, <1>2 DEF TypeOK
<1>4. a \in Using(c)
  BY <1>1 DEF Using
<1>5. t \in Tokens
  BY <1>4 DEF HasToken, DialerInv
<1> HIDE DEF t
<1>6. q.completed \in Nat /\ q.completed + 1 \in Nat
  BY <1>2 DEF RequestRecord
<1>7. /\ recycled \in RequestRecord /\ recycled.settled = q.settled
      /\ recycled.tokens = q.tokens /\ recycled.holder = q.holder \cup {t}
  BY <1>2, <1>5, <1>6 DEF RequestRecord
<1>8. /\ released \in RequestRecord /\ released.settled = q.settled
      /\ released.tokens = q.tokens \ {t} /\ released.holder = q.holder
  BY <1>2, <1>6 DEF RequestRecord
<1>9. /\ [NoAttempt EXCEPT !.at = "ended"] \in AttemptRecord
      /\ [NoAttempt EXCEPT !.at = "ended"].at = "ended"
  BY DEF NoAttempt, AttemptRecord, AttemptStates
<1>10. /\ f \in [Addrs -> AttemptRecord]
       /\ f[a].at = "ended"
       /\ \A b \in Addrs : b # a => f[b] = attempt[c][b]
  BY <1>2, <1>9
<1> HIDE DEF f, recycled, released
<1>11. attempt'[c] = f
  BY <1>1, <1>2, <1>3, OthersKept
<1>12. Using(c)' = Using(c) \ {a}
  BY <1>10, <1>11 DEF Using
<1>13. \A b \in Using(c)' : f[b].token \in Tokens
  <2>1. \A b \in Using(c) : b \in Addrs /\ attempt[c][b].token \in Tokens
    BY DEF HasToken, DialerInv, Using
  <2> QED
    BY <2>1, <1>10, <1>12
<1>14. /\ Cardinality(Using(c)') = Cardinality(Using(c)) - 1
       /\ Cardinality(q.holder \cup {t}) <= Cardinality(q.holder) + 1
       /\ Cardinality(q.holder \cup {t}) \in Nat
  <2>1. Cardinality(Using(c)') = Cardinality(Using(c)) - 1
    BY <1>2, <1>4, <1>12, FiniteShare, FS_RemoveElement
  <2>2. IsFiniteSet(q.holder) /\ Cardinality(q.holder) \in Nat
    BY <1>2, FiniteShare
  <2>3. Cardinality(q.holder \cup {t})
          = IF t \in q.holder THEN Cardinality(q.holder) ELSE Cardinality(q.holder) + 1
    BY <2>2, FS_AddElement
  <2> QED
    BY <2>1, <2>2, <2>3
<1>15. /\ Cardinality(Using(c)) + Cardinality(q.holder) <= MaxDialsPerPeer
       /\ Cardinality(Using(c)) \in Nat /\ Cardinality(q.holder) \in Nat
       /\ MaxDialsPerPeer \in Nat
  BY <1>2, FiniteShare DEF Share, DialerInv, DialerAssumption
<1>16. UNCHANGED <<pendingDials, call>>
  BY <1>1
<1>17. CASE request' = [request EXCEPT ![c] = recycled] /\ tokens' = tokens
  <2>1. Cardinality(Using(c)') + Cardinality(recycled.holder) <= MaxDialsPerPeer
    BY <1>7, <1>14, <1>15
  <2>2. tokens' \in SUBSET Tokens /\ tokens \subseteq tokens'
    BY <1>17, <1>2 DEF TypeOK
  <2>3. \A u \in q.tokens : u \in recycled.tokens \/ u \in tokens'
    BY <1>7
  <2> QED
    BY <1>3, <1>7, <1>10, <1>13, <1>16, <1>17, <2>1, <2>2, <2>3, RequestStep
<1>18. CASE request' = [request EXCEPT ![c] = released] /\ tokens' = tokens \cup {t}
  <2>1. Cardinality(Using(c)') + Cardinality(released.holder) <= MaxDialsPerPeer
    BY <1>8, <1>14, <1>15
  <2>2. tokens' \in SUBSET Tokens /\ tokens \subseteq tokens'
    BY <1>18, <1>2, <1>5 DEF TypeOK
  <2>3. \A u \in q.tokens : u \in released.tokens \/ u \in tokens'
    BY <1>8, <1>18
  <2> QED
    BY <1>3, <1>8, <1>10, <1>13, <1>16, <1>18, <2>1, <2>2, <2>3, RequestStep
<1> QED
  BY <1>1, <1>17, <1>18

-----------------------------------------------------------------------------
(* The end of a request, and the life of the dialer *)

LEMMA SettleStep ==
  ASSUME DialerInv, NEW c \in Calls, Settle(c)
  PROVE  DialerInv'
<1> DEFINE waiters == {d \in Calls : call[d].at = "waiting" /\ call[d].on = c}
           r == [request[c] EXCEPT !.settled = TRUE, !.aborted = @ \/ ~KeepMultiple]
<1>1. /\ tokens' = tokens \cup request[c].tokens
      /\ request' = [request EXCEPT ![c] = r]
      /\ call' = [d \in Calls |->
                    IF d \in waiters THEN [call[d] EXCEPT !.at = Outcome(c)] ELSE call[d]]
      /\ pendingDials' = [pendingDials EXCEPT ![call[c].peer] = None]
      /\ attempt' = attempt
  <2>1. tokens' = tokens \cup request[c].tokens /\ attempt' = attempt
    BY DEF Settle, Released
  <2>2. request' = [request EXCEPT ![c] = r]
    BY DEF Settle
  <2>3. call' = [d \in Calls |->
                    IF d \in waiters THEN [call[d] EXCEPT !.at = Outcome(c)] ELSE call[d]]
    BY DEF Settle
  <2>4. pendingDials' = [pendingDials EXCEPT ![call[c].peer] = None]
    BY DEF Settle
  <2> QED
    BY <2>1, <2>2, <2>3, <2>4
<1>2. request[c] \in RequestRecord
  BY DEF DialerInv, TypeOK
<1>3. /\ r \in RequestRecord /\ r.settled
      /\ r.tokens = request[c].tokens /\ r.holder = request[c].holder
  BY <1>2 DEF RequestRecord
<1> HIDE DEF r, waiters
<1>4. /\ request'[c] = r
      /\ \A d \in Calls : d # c => request'[d] = request[d]
  BY <1>1 DEF DialerInv, TypeOK
<1>5. Outcome(c) \in {"connected", "failed"}
  BY DEF Outcome
<1>6. \A d \in Calls : /\ call'[d] \in CallRecord
                       /\ call'[d].peer = call[d].peer
                       /\ \/ call'[d] = call[d]
                          \/ call'[d].at \in {"connected", "failed"}
  <2> SUFFICES ASSUME NEW d \in Calls
               PROVE  /\ call'[d] \in CallRecord
                      /\ call'[d].peer = call[d].peer
                      /\ \/ call'[d] = call[d]
                         \/ call'[d].at \in {"connected", "failed"}
    OBVIOUS
  <2>1. call[d] \in CallRecord
    BY DEF DialerInv, TypeOK
  <2>2. CASE d \in waiters
    <3>1. call'[d] = [call[d] EXCEPT !.at = Outcome(c)]
      BY <1>1, <2>2
    <3> QED
      BY <1>5, <2>1, <3>1 DEF CallRecord, CallStates
  <2>3. CASE d \notin waiters
    BY <1>1, <2>1, <2>3
  <2> QED
    BY <2>2, <2>3
<1>7. PeerKnown'
  <2> SUFFICES ASSUME NEW d \in Calls, call'[d].at # "idle"
               PROVE  call'[d].peer \in Peers
    BY DEF PeerKnown
  <2>1. CASE call'[d] = call[d]
    BY <2>1 DEF PeerKnown, DialerInv
  <2>2. CASE call'[d] # call[d]
    <3>1. d \in waiters
      BY <1>1, <2>2
    <3>2. call[d].at # "idle"
      BY <3>1 DEF waiters
    <3> QED
      BY <3>2, <1>6 DEF PeerKnown, DialerInv
  <2> QED
    BY <2>1, <2>2
<1>8. TypeOK'
  <2>1. call' \in [Calls -> CallRecord]
    BY <1>1, <1>6
  <2>2. request[c].tokens \in SUBSET Tokens
    BY <1>2 DEF RequestRecord
  <2> QED
    BY <1>1, <1>3, <2>1, <2>2 DEF DialerInv, TypeOK
<1>9. Fresh'
  BY <1>3, <1>4, <1>6 DEF Fresh, DialerInv
<1>10. \A d \in Calls : Using(d)' = Using(d)
  BY <1>1 DEF Using
<1>11. HasToken'
  BY <1>1, <1>10 DEF HasToken, DialerInv
<1>12. TokensComeBack'
  <2> SUFFICES ASSUME NEW t \in Tokens \ tokens'
               PROVE  \E d \in Calls : ~request'[d].settled /\ t \in request'[d].tokens
    BY DEF TokensComeBack
  <2>1. t \in Tokens \ tokens /\ t \notin request[c].tokens
    BY <1>1
  <2>2. PICK d \in Calls : ~request[d].settled /\ t \in request[d].tokens
    BY <2>1 DEF TokensComeBack, DialerInv
  <2> QED
    BY <2>1, <2>2, <1>4
<1>13. Share'
  <2> SUFFICES ASSUME NEW d \in Calls
               PROVE  Cardinality(Using(d)') + Cardinality(request'[d].holder)
                        <= MaxDialsPerPeer
    BY DEF Share
  <2>1. Cardinality(Using(d)) + Cardinality(request[d].holder) <= MaxDialsPerPeer
    BY DEF Share, DialerInv
  <2>2. request'[d].holder = request[d].holder
    BY <1>3, <1>4
  <2> QED
    BY <2>1, <2>2, <1>10
<1> QED
  BY <1>7, <1>8, <1>9, <1>11, <1>12, <1>13 DEF DialerInv

(* To abort requests, some or all, changes nothing of what they hold. *)
LEMMA AbortStep ==
  ASSUME DialerInv, NEW S \in SUBSET Calls,
         request' = [c \in Calls |-> IF c \in S THEN [request[c] EXCEPT !.aborted = TRUE]
                                     ELSE request[c]],
         UNCHANGED <<tokens, attempt>>,
         pendingDials' \in [Peers -> Calls \cup {None}],
         call' \in [Calls -> CallRecord],
         \A c \in Calls : /\ call'[c].peer = call[c].peer
                          /\ \/ call'[c] = call[c]
                             \/ call[c].at = "resolving" /\ call'[c].at = "cancelled"
  PROVE  DialerInv'
<1>1. \A c \in Calls : /\ request'[c] \in RequestRecord
                       /\ request'[c].tokens = request[c].tokens
                       /\ request'[c].holder = request[c].holder
                       /\ request'[c].settled = request[c].settled
  <2> SUFFICES ASSUME NEW c \in Calls
               PROVE  /\ request'[c] \in RequestRecord
                      /\ request'[c].tokens = request[c].tokens
                      /\ request'[c].holder = request[c].holder
                      /\ request'[c].settled = request[c].settled
    OBVIOUS
  <2>1. request[c] \in RequestRecord
    BY DEF DialerInv, TypeOK
  <2>2. request'[c] = request[c] \/ request'[c] = [request[c] EXCEPT !.aborted = TRUE]
    OBVIOUS
  <2> QED
    BY <2>1, <2>2 DEF RequestRecord
<1>2. Quiet
  BY <1>1 DEF Quiet
<1>3. TypeOK'
  BY <1>1 DEF DialerInv, TypeOK
<1>4. PeerKnown'
  <2>1. \A c \in Calls : call'[c].at # "idle" => call[c].at # "idle"
    OBVIOUS
  <2> QED
    BY <2>1 DEF PeerKnown, DialerInv
<1>5. Fresh'
  <2>1. \A c \in Calls : call'[c].at \in {"idle", "resolving", "cancelled"}
                           => call[c].at \in {"idle", "resolving", "cancelled"}
    OBVIOUS
  <2> QED
    BY <1>1, <2>1 DEF Fresh, DialerInv
<1> QED
  BY <1>2, <1>3, <1>4, <1>5, QuietStep DEF DialerInv

LEMMA AbortOneStep ==
  ASSUME DialerInv, NEW c \in Calls, Abort(c)
  PROVE  DialerInv'
<1>1. TypeOK
  BY DEF DialerInv
<1>2. request' = [d \in Calls |-> IF d \in {c} THEN [request[d] EXCEPT !.aborted = TRUE]
                                  ELSE request[d]]
  BY <1>1 DEF Abort, TypeOK
<1>3. /\ pendingDials' \in [Peers -> Calls \cup {None}]
      /\ call' \in [Calls -> CallRecord] /\ call' = call
      /\ UNCHANGED <<tokens, attempt>>
  BY <1>1 DEF Abort, TypeOK
<1>4. \A d \in Calls : call'[d].peer = call[d].peer /\ call'[d] = call[d]
  BY <1>3
<1>5. {c} \in SUBSET Calls
  OBVIOUS
<1> QED
  BY <1>2, <1>3, <1>4, <1>5, AbortStep

LEMMA StopStep ==
  ASSUME DialerInv, Stop
  PROVE  DialerInv'
<1> DEFINE S == {c \in Calls : \E p \in Peers : pendingDials[p] = c}
<1>1. request' = [c \in Calls |-> IF c \in S THEN [request[c] EXCEPT !.aborted = TRUE]
                                  ELSE request[c]]
  BY DEF Stop
<1>2. S \in SUBSET Calls
  OBVIOUS
<1> HIDE DEF S
<1>3. pendingDials' \in [Peers -> Calls \cup {None}] /\ UNCHANGED <<tokens, attempt>>
  BY DEF Stop
<1>4. \A c \in Calls :
        /\ call'[c] \in CallRecord /\ call'[c].peer = call[c].peer
        /\ \/ call'[c] = call[c]
           \/ call[c].at = "resolving" /\ call'[c].at = "cancelled"
  <2> SUFFICES ASSUME NEW c \in Calls
               PROVE  /\ call'[c] \in CallRecord /\ call'[c].peer = call[c].peer
                      /\ \/ call'[c] = call[c]
                         \/ call[c].at = "resolving" /\ call'[c].at = "cancelled"
    OBVIOUS
  <2>1. call[c] \in CallRecord
    BY DEF DialerInv, TypeOK
  <2>2. call'[c] = IF call[c].at = "resolving" THEN [call[c] EXCEPT !.at = "cancelled"]
                   ELSE call[c]
    BY DEF Stop
  <2> QED
    BY <2>1, <2>2 DEF CallRecord, CallStates
<1>5. call' \in [Calls -> CallRecord]
  BY <1>4 DEF Stop
<1> QED
  BY <1>1, <1>2, <1>3, <1>4, <1>5, AbortStep

-----------------------------------------------------------------------------
(* The invariant *)

LEMMA DialerInitially ==
  ASSUME DialerAssumption, Init
  PROVE  DialerInv
<1>1. TypeOK
  BY DEF Init, TypeOK, Idle, NoRequest, NoAttempt, CallRecord, CallStates, RequestRecord,
         AttemptRecord, AttemptStates
<1>2. PeerKnown /\ Fresh
  BY DEF Init, PeerKnown, Fresh, Idle, NoRequest
<1>3. TokensComeBack
  BY DEF Init, TokensComeBack
<1>4. \A c \in Calls : Using(c) = {}
  BY DEF Init, Using, NoAttempt
<1>5. HasToken
  BY <1>4 DEF HasToken
<1>6. Share
  <2>1. \A c \in Calls : request[c].holder = {}
    BY DEF Init, NoRequest
  <2> QED
    BY <1>4, <2>1, FS_EmptySet DEF Share, DialerAssumption
<1> QED
  BY <1>1, <1>2, <1>3, <1>5, <1>6 DEF DialerInv

LEMMA DialerKept ==
  ASSUME DialerAssumption, DialerInv, [Next]_vars
  PROVE  DialerInv'
<1>1. CASE UNCHANGED vars
  <2>1. TypeOK' /\ PeerKnown' /\ Fresh'
    BY <1>1 DEF vars, DialerInv, TypeOK, PeerKnown, Fresh
  <2>2. Quiet
    BY <1>1 DEF vars, Quiet
  <2> QED
    BY <2>1, <2>2, QuietStep DEF DialerInv
<1>2. ASSUME NEW c \in Calls, NEW p \in Peers, Dial(c, p) PROVE DialerInv'
  BY <1>2, DialStep
<1>3. ASSUME NEW c \in Calls, Target(c) PROVE DialerInv'
  <2>1. PICK found : DialRefused(c, found) \/ JoinDial(c, found) \/ CreateDial(c, found)
    BY <1>3 DEF Target
  <2> QED
    BY <2>1, DialRefusedStep, JoinDialStep, CreateDialStep
<1>4. ASSUME NEW c \in Calls, Attempts(c) PROVE DialerInv'
  <2>1. PICK a \in Addrs : \/ StartAttempt(c, a) \/ EndsUnused(c, a)
                           \/ \E ok \in BOOLEAN : EndAttempt(c, a, ok)
    BY <1>4 DEF Attempts
  <2> QED
    BY <2>1, StartAttemptStep, EndsUnusedStep, EndAttemptStep
<1>5. ASSUME NEW c \in Calls, Settle(c) PROVE DialerInv'
  BY <1>5, SettleStep
<1>6. ASSUME NEW c \in Calls, Abort(c) PROVE DialerInv'
  BY <1>6, AbortOneStep
<1>7. CASE Start
  <2>1. TypeOK' /\ PeerKnown' /\ Fresh'
    BY <1>7 DEF Start, DialerInv, TypeOK, PeerKnown, Fresh
  <2>2. Quiet
    BY <1>7 DEF Start, Quiet
  <2> QED
    BY <2>1, <2>2, QuietStep DEF DialerInv
<1>8. CASE Stop
  BY <1>8, StopStep
<1> QED
  BY <1>1, <1>2, <1>3, <1>4, <1>5, <1>6, <1>7, <1>8 DEF Next

THEOREM DialerInvariant == Spec => []DialerInv
<1>1. Init => DialerInv
  BY DialerInitially, DialerAssumption
<1>2. DialerInv /\ [Next]_vars => DialerInv'
  BY DialerKept, DialerAssumption
<1> QED
  BY <1>1, <1>2, PTL DEF Spec

(* No token is lost: whichever way attempts and requests end, for any       *)
(* number of calls, addresses and tokens, a token that is not free belongs  *)
(* to a request that will give it back (dial-request.ts, releaseToken).     *)
THEOREM NoTokenLost == Spec => []TokensComeBack
<1>1. DialerInv => TokensComeBack
  BY DEF DialerInv
<1> QED
  BY <1>1, DialerInvariant, PTL

(* A request never has more attempts under way than maxDialsPerPeer, for    *)
(* the tokens it uses and those in its holder are never more than it was    *)
(* given (dial-request.ts, dialer/index.ts getTokens).                      *)
THEOREM PeerLimitHolds == Spec => []DialsPerPeer
<1>1. DialerInv => DialsPerPeer
  <2> SUFFICES ASSUME DialerInv, NEW c \in Calls
               PROVE  Cardinality(Using(c)) <= MaxDialsPerPeer
    BY DEF DialsPerPeer
  <2>1. Cardinality(Using(c)) \in Nat /\ Cardinality(request[c].holder) \in Nat
    BY FiniteShare, DialerAssumption DEF DialerInv
  <2>2. Cardinality(Using(c)) + Cardinality(request[c].holder) <= MaxDialsPerPeer
    BY DEF DialerInv, Share
  <2> QED
    BY <2>1, <2>2, DialerAssumption DEF DialerAssumption
<1> QED
  BY <1>1, DialerInvariant, PTL
=============================================================================
