-------------------------------- MODULE Dialer --------------------------------
(***************************************************************************)
(* The dialer of the js-libp2p fork the browser node runs on               *)
(* (src/js-libp2p/src/connection-manager/dialer).  A call of `dial' works   *)
(* out the addresses to try, joins the dial that is already under way to   *)
(* the same peer or creates one, and waits for it.  A dial request shares  *)
(* the dialer's tokens out to one attempt per address: an attempt runs     *)
(* only while it holds a token, passes the token on to a waiting attempt   *)
(* or gives it back, and the first to succeed ends the request.            *)
(*                                                                         *)
(* A request is named by the call that created it.  Tokens are             *)
(* interchangeable, so the lists of tokens are sets.  Attempts ask for     *)
(* tokens in the order of their addresses and are served in that order.    *)
(***************************************************************************)
EXTENDS Naturals, FiniteSets

CONSTANTS Calls,            \* calls of dial()
          Peers,            \* the remote peers
          Addrs,            \* their multiaddrs, numbered in the order the dialer tries
          Tokens,           \* maxParallelDials tokens
          MaxDialsPerPeer, MaxAddrsToDial,
          KeepMultiple,     \* keepMultipleConnections
          Known,            \* [Peers -> SUBSET Addrs]: the address book
          Denied,           \* addresses the connection gater denies
          DeniedPeers,      \* this node itself and the peers the gater denies
          Records,          \* a dnsaddr -> the addresses its record lists
          Dialable          \* addresses some transport can dial

ASSUME DialerAssumption ==
  /\ MaxDialsPerPeer \in Nat \ {0} /\ MaxAddrsToDial \in Nat
  /\ IsFiniteSet(Tokens) /\ IsFiniteSet(Addrs) /\ Addrs \subseteq Nat /\ Tokens # {}
  /\ KeepMultiple \in BOOLEAN
  /\ Known \in [Peers -> SUBSET Addrs]
  /\ DOMAIN Records \subseteq Addrs /\ Dialable \subseteq Addrs

None == "none"

VARIABLES started,      \* the dialer's flag
          tokens,       \* the free tokens
          pendingDials, \* [Peers -> the request in flight, or None]
          call,         \* [Calls -> the progress of the call]
          request,      \* [Calls -> the request the call created]
          attempt       \* [Calls -> [Addrs -> an attempt of that request]]

vars == <<started, tokens, pendingDials, call, request, attempt>>

Idle == [at |-> "idle", peer |-> None, on |-> None]
NoRequest == [addrs |-> {}, tokens |-> {}, holder |-> {}, completed |-> 0,
              done |-> FALSE, aborted |-> FALSE, settled |-> TRUE]
NoAttempt == [at |-> "none", token |-> None]

Init == /\ started = TRUE
        /\ tokens = Tokens
        /\ pendingDials = [p \in Peers |-> None]
        /\ call = [c \in Calls |-> Idle]
        /\ request = [c \in Calls |-> NoRequest]
        /\ attempt = [c \in Calls |-> [a \in Addrs |-> NoAttempt]]

(***************************************************************************)
(* The addresses of a target                                               *)
(***************************************************************************)

\* What a multiaddr resolves to when the records in `found' can be looked up:
\* a dnsaddr whose record cannot be read resolves to nothing.
Resolve(ma, found) ==
  IF ma \notin DOMAIN Records THEN {ma}
  ELSE IF ma \in found THEN Records[ma] ELSE {}

LoadAddresses(p) == Known[p] \ Denied

\* Addresses that no transport can dial are left out.
Supported(addrs) == addrs \cap Dialable

DialTarget(p, found) ==
  Supported(UNION {Resolve(ma, found) : ma \in LoadAddresses(p)})

Returned(c, how) == call' = [call EXCEPT ![c] = [@ EXCEPT !.at = how]]

\* dial() until the target is being resolved, under an abort controller of its
\* own.
Dial(c, p) == /\ call[c] = Idle
              /\ call' = [call EXCEPT ![c] =
                   [at |-> IF p \in DeniedPeers THEN "failed" ELSE "resolving",
                    peer |-> p, on |-> None]]
              /\ UNCHANGED <<started, tokens, pendingDials, request, attempt>>

\* There are no addresses to dial, or too many.
DialRefused(c, found) ==
  LET addrs == DialTarget(call[c].peer, found)
  IN  /\ call[c].at \in {"resolving", "cancelled"}
      /\ call[c].at = "cancelled" => found = {}
      /\ addrs = {} \/ Cardinality(addrs) > MaxAddrsToDial
      /\ Returned(c, "failed")
      /\ UNCHANGED <<started, tokens, pendingDials, request, attempt>>

(***************************************************************************)
(* Tokens                                                                  *)
(***************************************************************************)
MinOf(S) == CHOOSE n \in S : \A m \in S : n <= m

\* Faulty: as many as there are addresses.
GetTokensAll(num) ==
  CHOOSE S \in SUBSET tokens : Cardinality(S) = MinOf({num, Cardinality(tokens)})

GetTokens(num) ==
  LET total == MinOf({num, MaxDialsPerPeer, Cardinality(tokens)})
  IN  CHOOSE S \in SUBSET tokens : Cardinality(S) = total

(***************************************************************************)
(* The target is known: join the request in flight, or create one.         *)
(***************************************************************************)
JoinDial(c, found) ==
  LET p == call[c].peer
  IN  /\ call[c].at \in {"resolving", "cancelled"}
      /\ call[c].at = "cancelled" => found = {}
      /\ DialTarget(p, found) # {}
      /\ Cardinality(DialTarget(p, found)) <= MaxAddrsToDial
      /\ pendingDials[p] # None
      /\ call' = [call EXCEPT ![c] = [@ EXCEPT !.at = "waiting",
                                               !.on = pendingDials[p]]]
      /\ UNCHANGED <<started, tokens, pendingDials, request, attempt>>

\* run() takes its tokens when it is called; with none it fails at once and
\* starts no attempt, but the request is settled by its caller all the same.
Run(addrs, mine) == [a \in Addrs |->
  IF a \in addrs /\ mine # {} THEN [NoAttempt EXCEPT !.at = "waiting"] ELSE NoAttempt]

CreateDial(c, found) ==
  LET p     == call[c].peer
      addrs == DialTarget(p, found)
      mine  == GetTokens(Cardinality(addrs))
  IN  /\ call[c].at \in {"resolving", "cancelled"}
      /\ call[c].at = "cancelled" => found = {}
      /\ addrs # {} /\ Cardinality(addrs) <= MaxAddrsToDial
      /\ pendingDials[p] = None
      /\ pendingDials' = [pendingDials EXCEPT ![p] = c]
      /\ call' = [call EXCEPT ![c] = [@ EXCEPT !.at = "waiting", !.on = c]]
      /\ tokens' = tokens \ mine
      /\ request' = [request EXCEPT ![c] =
                       [NoRequest EXCEPT !.addrs = addrs, !.tokens = mine,
                                         !.holder = mine, !.settled = FALSE]]
      /\ attempt' = [attempt EXCEPT ![c] = Run(addrs, mine)]
      /\ UNCHANGED started

(***************************************************************************)
(* The attempts                                                            *)
(***************************************************************************)

\* The next attempt, in the order of the addresses, is handed a token.
Shift(c, a, t) == /\ attempt[c][a].at = "waiting"
                  /\ \A b \in Addrs : attempt[c][b].at = "waiting" => a <= b
                  /\ request[c].holder # {}
                  /\ t = CHOOSE u \in request[c].holder : TRUE

\* When another attempt has already succeeded it gives the token back instead
\* of dialling.
EndsUnused(c, a) ==
  \E t \in Tokens :
    /\ Shift(c, a, t) /\ request[c].done
    /\ request' = [request EXCEPT ![c].holder = @ \ {t},
                                  ![c].tokens = @ \ {t}]
    /\ tokens' = tokens \cup {t}
    /\ attempt' = [attempt EXCEPT ![c][a] = [NoAttempt EXCEPT !.at = "ended"]]
    /\ UNCHANGED <<started, pendingDials, call>>

\* What becomes of a dial of an address: the transport dials it, unless its signal
\* was aborted, which dialAction refuses.
TransportDial(r, t) ==
  [at |-> IF r.aborted THEN "refused" ELSE "dialling", token |-> t]

StartAttempt(c, a) ==
  \E t \in Tokens :
    /\ Shift(c, a, t) /\ ~request[c].done
    /\ request' = [request EXCEPT ![c].holder = @ \ {t}]
    /\ attempt' = [attempt EXCEPT ![c][a] = TransportDial(request[c], t)]
    /\ UNCHANGED <<started, tokens, pendingDials, call>>

\* Faulty: more dials than tokens must remain.
RecyclesLess(r) == Cardinality(r.addrs) - (r.completed + 1) > Cardinality(r.tokens)

\* Recycle the token when at least as many dials as tokens remain.
Recycles(r) == Cardinality(r.addrs) - (r.completed + 1) >= Cardinality(r.tokens)

EndAttempt(c, a, ok) ==
  LET t == attempt[c][a].token
      r == request[c]
  IN  /\ attempt[c][a].at \in {"dialling", "refused"}
      /\ ok => attempt[c][a].at = "dialling"
      /\ attempt' = [attempt EXCEPT ![c][a] = [NoAttempt EXCEPT !.at = "ended"]]
      /\ IF Recycles(r)
         THEN /\ request' = [request EXCEPT ![c] =
                   [r EXCEPT !.completed = @ + 1, !.done = @ \/ ok,
                             !.holder = @ \cup {t}]]
              /\ UNCHANGED tokens
         ELSE /\ request' = [request EXCEPT ![c] =
                   [r EXCEPT !.completed = @ + 1, !.done = @ \/ ok,
                             !.tokens = @ \ {t}]]
              /\ tokens' = tokens \cup {t}
      /\ UNCHANGED <<started, pendingDials, call>>

(***************************************************************************)
(* The end of a request: the other attempts are aborted, the tokens of the *)
(* request go back to the dialer, and every call that waits returns and    *)
(* removes the peer's entry.                                               *)
(***************************************************************************)
\* Faulty: only what waits in the holder goes back.
ReleasedHeld(r) == r.holder

Released(r) == r.tokens

AllEnded(c) == \A a \in Addrs : attempt[c][a].at \in {"none", "ended"}
Outcome(c) == IF request[c].done THEN "connected" ELSE "failed"

Settle(c) ==
  LET waiters == {d \in Calls : call[d].at = "waiting" /\ call[d].on = c}
      r       == request[c]
  IN  /\ ~r.settled
      /\ r.done \/ AllEnded(c)
      /\ tokens' = tokens \cup Released(r)
      /\ request' = [request EXCEPT ![c] =
                       [r EXCEPT !.settled = TRUE, !.aborted = @ \/ ~KeepMultiple]]
      /\ call' = [d \in Calls |->
                    IF d \in waiters THEN [call[d] EXCEPT !.at = Outcome(c)]
                    ELSE call[d]]
      /\ pendingDials' = [pendingDials EXCEPT ![call[c].peer] = None]
      /\ UNCHANGED <<started, attempt>>

\* The dial timeout, or the signal of the call that created the request.
Abort(c) == /\ ~request[c].settled /\ ~request[c].aborted
            /\ request' = [request EXCEPT ![c].aborted = TRUE]
            /\ UNCHANGED <<started, tokens, pendingDials, call, attempt>>

Start == /\ ~started /\ started' = TRUE
         /\ UNCHANGED <<tokens, pendingDials, call, request, attempt>>

\* stop() aborts what is in flight; a target that is being resolved has its
\* lookups cancelled and is dialled with what needs none.
Stop == /\ started /\ started' = FALSE
        /\ request' = [c \in Calls |->
             IF \E p \in Peers : pendingDials[p] = c
             THEN [request[c] EXCEPT !.aborted = TRUE] ELSE request[c]]
        /\ pendingDials' = [p \in Peers |-> None]
        /\ call' = [c \in Calls |->
             IF call[c].at = "resolving" THEN [call[c] EXCEPT !.at = "cancelled"]
             ELSE call[c]]
        /\ UNCHANGED <<tokens, attempt>>

Target(c) == \E found \in SUBSET DOMAIN Records :
               DialRefused(c, found) \/ JoinDial(c, found) \/ CreateDial(c, found)
Attempts(c) == \E a \in Addrs :
                 \/ StartAttempt(c, a) \/ EndsUnused(c, a)
                 \/ \E ok \in BOOLEAN : EndAttempt(c, a, ok)

Next == \/ \E c \in Calls, p \in Peers : Dial(c, p)
        \/ \E c \in Calls : Target(c) \/ Attempts(c) \/ Settle(c) \/ Abort(c)
        \/ Start \/ Stop

Spec == Init /\ [][Next]_vars

\* Promises are settled and their continuations run, lookups end, a transport
\* ends every dial sooner or later (dial() passes every one a signal with a
\* timeout).  Nothing says that anyone calls dial, stop or start.
Fairness == \A c \in Calls :
              /\ WF_vars(Target(c)) /\ WF_vars(Settle(c))
              /\ \A a \in Addrs :
                   /\ WF_vars(StartAttempt(c, a)) /\ WF_vars(EndsUnused(c, a))
                   /\ WF_vars(\E ok \in BOOLEAN : EndAttempt(c, a, ok))
FairSpec == Spec /\ Fairness

(***************************************************************************)
(* Properties                                                              *)
(***************************************************************************)
Using(c) == {a \in Addrs : attempt[c][a].at \in {"dialling", "refused"}}

\* No token is lost: however attempts succeed, fail, pass tokens on or end after
\* their request was settled, every token outside the dialer belongs to a request
\* that is not settled; once no dial is under way the dialer can dial as much as
\* at first.
TokensComeBack == \A t \in Tokens \ tokens :
  \E c \in Calls : ~request[c].settled /\ t \in request[c].tokens

\* A request never has more attempts under way than maxDialsPerPeer, though it
\* hands its tokens on from attempt to attempt.
DialsPerPeer == \A c \in Calls : Cardinality(Using(c)) <= MaxDialsPerPeer

\* Every call of dial() returns: an attempt does not wait for ever for a token
\* that the others gave back to the dialer, and a call that joined a dial is
\* answered with it.
EveryDialReturns == \A c \in Calls :
  call[c].at \in {"resolving", "waiting", "cancelled"}
    ~> call[c].at \in {"connected", "failed"}
===============================================================================
