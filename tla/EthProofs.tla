----------------------------- MODULE EthProofs -----------------------------
(***************************************************************************)
(* Proofs about EthProc, for any processes, accounts, amounts and bounds.  *)
(* Two facts carry them: the transactions that are sent have identities of *)
(* their own, since a nonce is the length of an OUT that only grows; and   *)
(* what a sync has fetched never reaches beyond the block number that the  *)
(* next sync starts by reading.                                            *)
(***************************************************************************)
EXTENDS EthProc, TLAPS

(* The number of events grows with the blocks, and LASTBLOCK never passes  *)
(* BLOCKNO, nor BLOCKNO the height of the chain.                           *)
Blocks ==
  /\ \A b \in 1 .. Height : sealed[b] <= Len(chain)
  /\ \A a, b \in 1 .. Height : a <= b => sealed[a] <= sealed[b]
  /\ lastblock <= blockno
  /\ blockno <= Height

(* Every transaction and event is about a call of its own. *)
Distinct ==
  /\ \A i \in DOMAIN pool : pool[i].outnb < Len(out[pool[i].from])
  /\ \A i \in DOMAIN chain : chain[i].outnb < Len(out[chain[i].from])
  /\ \A i, j \in DOMAIN pool : SameCall(pool[i], pool[j]) => i = j
  /\ \A i, j \in DOMAIN chain : SameCall(chain[i], chain[j]) => i = j
  /\ \A i \in DOMAIN pool, j \in DOMAIN chain : ~SameCall(pool[i], chain[j])

(* The events up to this one may be in IN!; ... *)
Reach == IF pc = "idle" THEN Events(Height) ELSE Events(blockno)

(* ... and they are the only ones. *)
Within ==
  \A k \in DOMAIN rl : \E i \in 1 .. Reach : SameCall(rl[k], chain[i])

(* What LASTBLOCK does not cover has been fetched at most once. *)
OnceBeyond ==
  \A i \in DOMAIN chain : i > Events(lastblock) =>
    \A j, k \in DOMAIN rl :
      SameCall(rl[j], chain[i]) /\ SameCall(rl[k], chain[i]) => j = k

EthInv == TypeOK /\ Blocks /\ Distinct /\ MirrorComplete /\ Numbered
          /\ Within /\ OnceBeyond /\ AtMostTwice

-----------------------------------------------------------------------------
(* Types *)

LEMMA EventsType == ASSUME TypeOK, NEW b \in 0 .. Height PROVE Events(b) \in Nat
  <1>1. CASE b = 0
    BY <1>1 DEF Events
  <1>2. CASE b # 0
    BY <1>2 DEF Events, TypeOK, Height
  <1> QED
    BY <1>1, <1>2

LEMMA EventsGrow ==
  ASSUME TypeOK, Blocks, NEW a \in 0 .. Height, NEW b \in 0 .. Height, a <= b
  PROVE  Events(a) <= Events(b) /\ Events(b) <= Len(chain)
  <1>0. Height \in Nat /\ Len(chain) \in Nat /\ Events(a) \in Nat /\ Events(b) \in Nat
    BY EventsType DEF TypeOK, Height
  <1>1. CASE a = 0
    BY <1>0, <1>1 DEF Events, Blocks
  <1>2. CASE a # 0
    BY <1>0, <1>2 DEF Events, Blocks
  <1> QED
    BY <1>1, <1>2

LEMMA MethodType ==
  ASSUME EthAssumption, NEW c \in Method
  PROVE  c.amount \in Nat /\ c.func \in {"init", "deposit", "withdraw"}
  <1>1. CASE c \in [func: {"deposit", "withdraw"}, amount: Amount]
    <2>1. c.amount \in Amount /\ c.func \in {"deposit", "withdraw"}
      BY <1>1
    <2> QED
      BY <2>1 DEF EthAssumption
  <1>2. CASE c \in [func: {"init"}, amount: {1}]
    <2>1. c.amount = 1 /\ c.func = "init"
      BY <1>2
    <2> QED
      BY <2>1
  <1> QED
    BY <1>1, <1>2 DEF Method

LEMMA ExecutedType ==
  ASSUME TypeOK, EthAssumption, NEW t \in Transaction
  PROVE  Executed(t) \in [Account -> Nat]
  <1> DEFINE u == t.signed
  <1>0. u \in Account /\ t.call \in Method /\ balance \in [Account -> Nat]
    BY DEF Transaction, TypeOK
  <1>1. t.call.amount \in Nat /\ t.call.func \in {"init", "deposit", "withdraw"}
    BY <1>0, MethodType
  <1>2. CASE t.call.func = "init"
    BY <1>2 DEF Executed
  <1>3. CASE t.call.func = "deposit"
    BY <1>0, <1>1, <1>3 DEF Executed
  <1>4. CASE t.call.func = "withdraw"
    BY <1>0, <1>1, <1>4 DEF Executed, Withdrawn
  <1> QED
    BY <1>1, <1>2, <1>3, <1>4

LEMMA EmittedType ==
  ASSUME EthAssumption, NEW t \in Transaction
  PROVE  /\ Emitted(t) \in Event
         /\ Emitted(t).from = t.from /\ Emitted(t).outnb = t.outnb
  <1>1. t.call \in Method /\ t.signed \in Account /\ t.from \in Sender /\ t.outnb \in Nat
    BY DEF Transaction
  <1>2. t.call.amount \in Nat /\ t.call.func \in {"init", "deposit", "withdraw"}
    BY <1>1, MethodType
  <1> QED
    BY <1>1, <1>2 DEF Emitted, Event

(* What is fetched, and the entries made of it. *)
LEMMA FetchedType ==
  ASSUME TypeOK, Blocks
  PROVE  /\ Events(Height) - Events(lastblock) \in Nat
         /\ Len(Fetched) = Events(Height) - Events(lastblock)
         /\ Fetched \in Seq(Event)
         /\ \A k \in 1 .. Len(Fetched) : /\ Events(lastblock) + k \in DOMAIN chain
                                         /\ Fetched[k] = chain[Events(lastblock) + k]
  <1> DEFINE a == Events(lastblock)
             h == Events(Height)
  <1>1. Height \in Nat /\ lastblock \in 0 .. Height
    BY DEF TypeOK, Blocks, Height
  <1>2. a \in Nat /\ h \in Nat /\ a <= h /\ h <= Len(chain)
    BY <1>1, EventsType, EventsGrow
  <1>3. chain \in Seq(Event) /\ Len(chain) \in Nat
    BY DEF TypeOK
  <1> HIDE DEF a, h
  <1>4. \A k \in 1 .. h - a : a + k \in 1 .. Len(chain) /\ chain[a + k] \in Event
    BY <1>2, <1>3
  <1>5. Fetched = [k \in 1 .. h - a |-> chain[a + k]]
    BY DEF Fetched, a, h
  <1>6. Fetched \in Seq(Event) /\ Len(Fetched) = h - a
    <2> DEFINE n == h - a
    <2>1. n \in Nat
      BY <1>2
    <2>2. Fetched = [k \in 1 .. n |-> chain[a + k]]
      BY <1>5
    <2>3. \A k \in 1 .. n : chain[a + k] \in Event
      BY <1>4
    <2> HIDE DEF n
    <2>4. Fetched \in [1 .. n -> Event]
      BY <2>2, <2>3
    <2>5. Fetched \in Seq(Event) /\ Len(Fetched) = n
      BY <2>1, <2>4
    <2> QED
      BY <2>5 DEF n
  <1> QED
    BY <1>2, <1>3, <1>4, <1>5, <1>6 DEF a, h

(* IN! after a sync that has fetched. *)
LEMMA FetchEffect ==
  ASSUME TypeOK, Blocks, SyncFetch
  PROVE  /\ rl' \in Seq(Entry)
         /\ Len(rl') = Len(rl) + Len(Fetched)
         /\ Len(rl) \in Nat /\ Len(Fetched) \in Nat
         /\ \A k \in 1 .. Len(rl) : rl'[k] = rl[k]
         /\ \A k \in 1 .. Len(Fetched) :
              rl'[Len(rl) + k] = CallOf(Fetched[k], Len(rl) + k - 1)
  <1> DEFINE n == Len(Fetched)
             new == [k \in 1 .. n |-> CallOf(Fetched[k], Len(rl) + k - 1)]
  <1>1. n \in Nat /\ Fetched \in Seq(Event) /\ DOMAIN Fetched = 1 .. n
    BY FetchedType
  <1>2. rl \in Seq(Entry) /\ Len(rl) \in Nat
    BY DEF TypeOK
  <1>3. rl' = rl \o new
    BY <1>1 DEF SyncFetch, FirstNumber
  <1> HIDE DEF n
  <1>4. \A k \in 1 .. n : CallOf(Fetched[k], Len(rl) + k - 1) \in Entry
    <2> TAKE k \in 1 .. n
    <2>1. Fetched[k] \in Event /\ Len(rl) + k - 1 \in Nat
      BY <1>1, <1>2
    <2> QED
      BY <2>1 DEF CallOf, Event, Entry
  <1>5. new \in Seq(Entry) /\ Len(new) = n /\ DOMAIN new = 1 .. n
    BY <1>1, <1>4
  <1> HIDE DEF new
  <1>6. /\ rl \o new \in Seq(Entry)
        /\ Len(rl \o new) = Len(rl) + n
        /\ \A k \in 1 .. Len(rl) : (rl \o new)[k] = rl[k]
        /\ \A k \in 1 .. n : (rl \o new)[Len(rl) + k] = new[k]
    BY <1>1, <1>2, <1>5
  <1>7. \A k \in 1 .. n : new[k] = CallOf(Fetched[k], Len(rl) + k - 1)
    BY DEF new
  <1> QED
    BY <1>1, <1>2, <1>3, <1>6, <1>7 DEF n

-----------------------------------------------------------------------------
(* Initial states and types *)

LEMMA EthInvInit == EthAssumption /\ Init => EthInv
  BY DEF Init, EthInv, TypeOK, EthAssumption, Blocks, Distinct, MirrorComplete,
         Numbered, Within, OnceBeyond, AtMostTwice, Height, Events, Reach

LEMMA IncludeEffect ==
  ASSUME TypeOK, EthAssumption, NEW i \in DOMAIN pool, Include(i)
  PROVE  /\ pool[i] \in Transaction
         /\ pool' \in Seq(Transaction)
         /\ Len(pool') = Len(pool) - 1
         /\ \A j \in DOMAIN pool' :
              \E k \in DOMAIN pool : /\ k = (IF j < i THEN j ELSE j + 1)
                                     /\ pool'[j] = pool[k] /\ k # i
         /\ Emitted(pool[i]) \in Event
         /\ chain' \in Seq(Event)
         /\ Len(chain') = Len(chain) + 1
         /\ \A j \in DOMAIN chain : chain'[j] = chain[j]
         /\ chain'[Len(chain) + 1] = Emitted(pool[i])
  <1> DEFINE n == Len(pool) - 1
             at(j) == IF j < i THEN j ELSE j + 1
  <1>1. pool \in Seq(Transaction) /\ Len(pool) \in Nat /\ i \in 1 .. Len(pool)
    BY DEF TypeOK
  <1>2. pool[i] \in Transaction /\ n \in Nat
    BY <1>1
  <1>3. \A j \in 1 .. n : at(j) \in DOMAIN pool /\ at(j) # i /\ pool[at(j)] \in Transaction
    BY <1>1
  <1>4. pool' = [j \in 1 .. n |-> pool[at(j)]]
    <2>1. pool' = [j \in 1 .. Len(pool) - 1 |-> IF j < i THEN pool[j] ELSE pool[j + 1]]
      BY DEF Include
    <2>2. \A j \in 1 .. n : (IF j < i THEN pool[j] ELSE pool[j + 1]) = pool[at(j)]
      OBVIOUS
    <2> QED
      BY <2>1, <2>2
  <1> HIDE DEF n
  <1>5. pool' \in [1 .. n -> Transaction]
    BY <1>3, <1>4
  <1>6. pool' \in Seq(Transaction) /\ Len(pool') = n /\ DOMAIN pool' = 1 .. n
    BY <1>2, <1>5
  <1>7. \A j \in DOMAIN pool' :
          \E k \in DOMAIN pool : k = at(j) /\ pool'[j] = pool[k] /\ k # i
    BY <1>3, <1>4, <1>6
  <1>8. Emitted(pool[i]) \in Event
    BY <1>2, EmittedType
  <1>9. chain \in Seq(Event) /\ Len(chain) \in Nat /\ chain' = Append(chain, Emitted(pool[i]))
    BY DEF TypeOK, Include
  <1>10. /\ chain' \in Seq(Event)
         /\ Len(chain') = Len(chain) + 1
         /\ \A j \in DOMAIN chain : chain'[j] = chain[j]
         /\ chain'[Len(chain) + 1] = Emitted(pool[i])
    BY <1>8, <1>9
  <1> QED
    BY <1>2, <1>6, <1>7, <1>8, <1>10 DEF n

LEMMA PushType ==
  ASSUME TypeOK, NEW p \in Sender, NEW to, NEW c, [to |-> to, call |-> c] \in Message,
         out' = Pushed(p, to, c)
  PROVE  /\ out' \in [Sender -> Seq(Message)]
         /\ Len(out'[p]) = Len(out[p]) + 1
         /\ \A q \in Sender \ {p} : out'[q] = out[q]
         /\ \A q \in Sender : /\ Len(out[q]) \in Nat /\ Len(out'[q]) \in Nat
                              /\ Len(out[q]) <= Len(out'[q])
         /\ \A q \in Sender : \A k \in 1 .. Len(out[q]) : out'[q][k] = out[q][k]
         /\ out'[p][Len(out[p]) + 1] = [to |-> to, call |-> c]
  <1>1. out \in [Sender -> Seq(Message)]
    BY DEF TypeOK
  <1>2. out' = [out EXCEPT ![p] = Append(out[p], [to |-> to, call |-> c])]
    BY DEF Pushed
  <1>3. \A q \in Sender : out[q] \in Seq(Message) /\ Len(out[q]) \in Nat
    BY <1>1
  <1>4. /\ out'[p] = Append(out[p], [to |-> to, call |-> c])
        /\ \A q \in Sender \ {p} : out'[q] = out[q]
    BY <1>1, <1>2
  <1>5. /\ Append(out[p], [to |-> to, call |-> c]) \in Seq(Message)
        /\ Len(Append(out[p], [to |-> to, call |-> c])) = Len(out[p]) + 1
        /\ \A k \in 1 .. Len(out[p]) : Append(out[p], [to |-> to, call |-> c])[k] = out[p][k]
        /\ Append(out[p], [to |-> to, call |-> c])[Len(out[p]) + 1] = [to |-> to, call |-> c]
    BY <1>3
  <1>6. out' \in [Sender -> Seq(Message)]
    BY <1>1, <1>2, <1>5
  <1>9. \A q \in Sender : Len(out'[q]) \in Nat
    BY <1>6
  <1>7. \A q \in Sender : Len(out[q]) <= Len(out'[q])
    <2> TAKE q \in Sender
    <2>1. CASE q = p
      BY <1>3, <1>4, <1>5, <2>1
    <2>2. CASE q # p
      BY <1>3, <1>4, <2>2
    <2> QED
      BY <2>1, <2>2
  <1>8. \A q \in Sender : \A k \in 1 .. Len(out[q]) : out'[q][k] = out[q][k]
    <2> TAKE q \in Sender
    <2>1. CASE q = p
      BY <1>4, <1>5, <2>1
    <2>2. CASE q # p
      BY <1>4, <2>2
    <2> QED
      BY <2>1, <2>2
  <1> QED
    BY <1>3, <1>4, <1>5, <1>6, <1>7, <1>8, <1>9

LEMMA SendMessage ==
  /\ [to |-> "local", call |-> Other] \in Message
  /\ \A c \in Method : [to |-> "contract", call |-> c] \in Message
  BY DEF Message

(* Each step keeps the types. *)
LEMMA TypeStep ==
  ASSUME EthAssumption, TypeOK, Blocks, [Next]_vars
  PROVE  TypeOK'
  <1> USE DEF TypeOK
  <1>1. ASSUME NEW p \in Sender, SendLocal(p) PROVE TypeOK'
    BY <1>1, PushType, SendMessage DEF SendLocal, chains, mapping
  <1>2. ASSUME NEW p \in Sender, OutStep(p) PROVE TypeOK'
    <2>1. outptr[p] \in Nat \ {0}
      OBVIOUS
    <2>2. outptr[p] + 1 \in Nat \ {0} /\ outptr[p] - 1 \in Nat
      BY <2>1
    <2>3. outptr' \in [Sender -> Nat \ {0}] /\ posted' \in [Sender -> SUBSET Nat]
      BY <1>2, <2>2 DEF OutStep
    <2> QED
      BY <1>2, <2>3 DEF OutStep, chains, mapping
  <1>3. ASSUME NEW p \in Account, NEW c \in Method, Send(p, c) PROVE TypeOK'
    <2>1. p \in Sender /\ Len(out[p]) \in Nat
      BY EthAssumption
    <2>2. out' \in [Sender -> Seq(Message)]
      BY <1>3, <2>1, PushType, SendMessage DEF Send
    <2>3. outptr' \in [Sender -> Nat \ {0}]
      BY <1>3, <2>1 DEF Send, NilPtr
    <2>4. [call |-> c, signed |-> p, from |-> p, outnb |-> Nonce(p)] \in Transaction
      BY <2>1 DEF Transaction, Nonce
    <2>5. pool' \in Seq(Transaction)
      BY <1>3, <2>4 DEF Send
    <2> QED
      BY <1>3, <2>2, <2>3, <2>5 DEF Send, chains, mapping
  <1>4. ASSUME NEW i \in DOMAIN pool, Include(i) PROVE TypeOK'
    <2>1. pool[i] \in Transaction /\ pool' \in Seq(Transaction) /\ chain' \in Seq(Event)
      BY <1>4, IncludeEffect
    <2>2. balance' \in [Account -> Nat]
      BY <1>4, <2>1, ExecutedType DEF Include
    <2> QED
      BY <1>4, <2>1, <2>2 DEF Include, outs, mapping
  <1>5. CASE Seal
    <2>1. Len(chain) \in Nat
      OBVIOUS
    <2>2. sealed' \in Seq(Nat)
      BY <1>5, <2>1 DEF Seal
    <2> QED
      BY <1>5, <2>2 DEF Seal, outs, mapping
  <1>6. CASE SyncStart
    BY <1>6 DEF SyncStart, Height, outs, chains
  <1>7. CASE SyncTest
    BY <1>7 DEF SyncTest, outs, chains
  <1>8. CASE SyncFetch
    <2>1. rl' \in Seq(Entry)
      BY <1>8, FetchEffect
    <2> QED
      BY <1>8, <2>1 DEF SyncFetch, BlockSeen, outs, chains
  <1>9. CASE UNCHANGED vars
    BY <1>9 DEF vars, outs, chains, mapping
  <1> QED
    BY <1>1, <1>2, <1>3, <1>4, <1>5, <1>6, <1>7, <1>8, <1>9 DEF Next, Sync

-----------------------------------------------------------------------------
(* Blocks and identities *)

LEMMA BlocksStep ==
  ASSUME TypeOK, Blocks, EthAssumption, [Next]_vars
  PROVE  Blocks'
  <1>0. sealed \in Seq(Nat) /\ Len(chain) \in Nat /\ Height \in Nat
        /\ lastblock \in Nat /\ blockno \in Nat
    BY DEF TypeOK, Height
  <1>1. CASE UNCHANGED <<chain, sealed, lastblock, blockno>>
    BY <1>1 DEF Blocks, Height
  <1>2. ASSUME NEW i \in DOMAIN pool, Include(i) PROVE Blocks'
    <2>1. Len(chain') = Len(chain) + 1
      BY <1>2, IncludeEffect
    <2>2. UNCHANGED <<sealed, lastblock, blockno>>
      BY <1>2 DEF Include, mapping
    <2>3. \A b \in 1 .. Height : sealed[b] \in Nat
      BY <1>0 DEF Height
    <2> QED
      BY <1>0, <2>1, <2>2, <2>3 DEF Blocks, Height
  <1>3. CASE Seal
    <2>1. UNCHANGED <<chain, lastblock, blockno>>
      BY <1>3 DEF Seal, mapping
    <2>2. /\ Len(sealed') = Len(sealed) + 1
          /\ \A b \in 1 .. Len(sealed) : sealed'[b] = sealed[b]
          /\ sealed'[Len(sealed) + 1] = Len(chain)
      BY <1>0, <1>3 DEF Seal
    <2>3. \A b \in 1 .. Height' : sealed'[b] <= Len(chain)
      BY <1>0, <2>2 DEF Blocks, Height
    <2>4. \A a, b \in 1 .. Height' : a <= b => sealed'[a] <= sealed'[b]
      BY <1>0, <2>2 DEF Blocks, Height
    <2> QED
      BY <1>0, <2>1, <2>2, <2>3, <2>4 DEF Blocks, Height
  <1>4. CASE SyncStart
    BY <1>0, <1>4 DEF SyncStart, Blocks, Height, chains
  <1>5. CASE SyncFetch
    BY <1>0, <1>5 DEF SyncFetch, BlockSeen, Blocks, Height, chains
  <1> QED
    BY <1>1, <1>2, <1>3, <1>4, <1>5
    DEF Next, vars, Sync, SendLocal, OutStep, Send, SyncTest, chains, mapping

LEMMA DistinctStep ==
  ASSUME TypeOK, Distinct, EthAssumption, [Next]_vars
  PROVE  Distinct'
  <1>0. /\ pool \in Seq(Transaction) /\ chain \in Seq(Event)
        /\ \A i \in DOMAIN pool : pool[i].from \in Sender /\ pool[i].outnb \in Nat
        /\ \A i \in DOMAIN chain : chain[i].from \in Sender /\ chain[i].outnb \in Nat
    <2>1. pool \in Seq(Transaction) /\ chain \in Seq(Event)
      BY DEF TypeOK
    <2>2. \A i \in DOMAIN pool : pool[i] \in Transaction
      BY <2>1
    <2>3. \A i \in DOMAIN chain : chain[i] \in Event
      BY <2>1
    <2> QED
      BY <2>1, <2>2, <2>3 DEF Transaction, Event
  <1>1. CASE UNCHANGED <<out, pool, chain>>
    BY <1>1 DEF Distinct, SameCall
  <1>2. ASSUME NEW p \in Sender, SendLocal(p) PROVE Distinct'
    <2>1. UNCHANGED <<pool, chain>>
      BY <1>2 DEF SendLocal, chains
    <2>2. \A q \in Sender : Len(out[q]) \in Nat /\ Len(out'[q]) \in Nat
                            /\ Len(out[q]) <= Len(out'[q])
      BY <1>2, PushType, SendMessage DEF SendLocal
    <2>3. \A i \in DOMAIN pool : pool[i].outnb < Len(out'[pool[i].from])
      BY <1>0, <2>2 DEF Distinct
    <2>4. \A i \in DOMAIN chain : chain[i].outnb < Len(out'[chain[i].from])
      BY <1>0, <2>2 DEF Distinct
    <2> QED
      BY <2>1, <2>3, <2>4 DEF Distinct, SameCall
  <1>3. ASSUME NEW p \in Account, NEW c \in Method, Send(p, c) PROVE Distinct'
    <2> DEFINE t == [call |-> c, signed |-> p, from |-> p, outnb |-> Nonce(p)]
    <2>0. p \in Sender
      BY EthAssumption
    <2>1. UNCHANGED chain
      BY <1>3 DEF Send, chains
    <2>2. \A q \in Sender : Len(out[q]) \in Nat /\ Len(out'[q]) \in Nat
                            /\ Len(out[q]) <= Len(out'[q])
      BY <1>3, <2>0, PushType, SendMessage DEF Send
    <2>3. Len(out'[p]) = Len(out[p]) + 1
      BY <1>3, <2>0, PushType, SendMessage DEF Send
    <2>4. t.from = p /\ t.outnb = Len(out[p])
      BY DEF Nonce
    <2>5. pool' = Append(pool, t)
      BY <1>3 DEF Send
    <2> HIDE DEF t
    <2>6. /\ DOMAIN pool' = 1 .. Len(pool) + 1 /\ Len(pool) \in Nat
          /\ \A i \in 1 .. Len(pool) : pool'[i] = pool[i]
          /\ pool'[Len(pool) + 1] = t
      BY <1>0, <2>5
    <2>7. \A i \in DOMAIN pool' : i \notin DOMAIN pool => i = Len(pool) + 1
      BY <1>0, <2>6
    <2>8. \A i \in DOMAIN pool : ~SameCall(pool[i], t) /\ ~SameCall(t, pool[i])
      BY <1>0, <2>0, <2>2, <2>4 DEF Distinct, SameCall
    <2>9. \A i \in DOMAIN chain : ~SameCall(t, chain[i])
      BY <1>0, <2>0, <2>2, <2>4 DEF Distinct, SameCall
    <2>10. \A i \in DOMAIN pool' : pool'[i].outnb < Len(out'[pool'[i].from])
      <3> TAKE i \in DOMAIN pool'
      <3>1. CASE i \in DOMAIN pool
        BY <1>0, <2>2, <2>6, <3>1 DEF Distinct
      <3>2. CASE i = Len(pool) + 1
        BY <2>0, <2>2, <2>3, <2>4, <2>6, <3>2
      <3> QED
        BY <2>7, <3>1, <3>2
    <2>11. \A i \in DOMAIN chain' : chain'[i].outnb < Len(out'[chain'[i].from])
      BY <1>0, <2>1, <2>2 DEF Distinct
    <2>12. \A i, j \in DOMAIN pool' : SameCall(pool'[i], pool'[j]) => i = j
      BY <1>0, <2>6, <2>7, <2>8 DEF Distinct
    <2>13. \A i \in DOMAIN pool', j \in DOMAIN chain' : ~SameCall(pool'[i], chain'[j])
      BY <1>0, <2>1, <2>6, <2>7, <2>9 DEF Distinct
    <2>14. \A i, j \in DOMAIN chain' : SameCall(chain'[i], chain'[j]) => i = j
      BY <2>1 DEF Distinct
    <2> QED
      BY <2>10, <2>11, <2>12, <2>13, <2>14 DEF Distinct, SameCall
  <1>4. ASSUME NEW i \in DOMAIN pool, Include(i) PROVE Distinct'
    <2> DEFINE e == Emitted(pool[i])
    <2>1. UNCHANGED out
      BY <1>4 DEF Include, outs
    <2>2. /\ \A j \in DOMAIN pool' :
               \E k \in DOMAIN pool : /\ k = (IF j < i THEN j ELSE j + 1)
                                      /\ pool'[j] = pool[k] /\ k # i
          /\ pool' \in Seq(Transaction) /\ chain' \in Seq(Event)
          /\ Len(chain') = Len(chain) + 1
          /\ \A j \in DOMAIN chain : chain'[j] = chain[j]
          /\ chain'[Len(chain) + 1] = e
      BY <1>4, IncludeEffect
    <2>3. e.from = pool[i].from /\ e.outnb = pool[i].outnb
      BY <1>0, EmittedType
    <2> HIDE DEF e
    <2>4. \A j \in DOMAIN pool : SameCall(pool[j], e) => j = i
      BY <2>3 DEF Distinct, SameCall
    <2>5. \A j \in DOMAIN chain : ~SameCall(chain[j], e) /\ ~SameCall(e, chain[j])
      BY <2>3 DEF Distinct, SameCall
    <2>6. \A j \in DOMAIN chain' : j \notin DOMAIN chain => j = Len(chain) + 1
      BY <1>0, <2>2
    <2>7. \A j \in DOMAIN pool' : pool'[j].outnb < Len(out'[pool'[j].from])
      BY <2>1, <2>2 DEF Distinct
    <2>8. \A j \in DOMAIN chain' : chain'[j].outnb < Len(out'[chain'[j].from])
      BY <2>1, <2>2, <2>3, <2>6 DEF Distinct
    <2>9. \A j, k \in DOMAIN pool' : SameCall(pool'[j], pool'[k]) => j = k
      <3> SUFFICES ASSUME NEW j \in DOMAIN pool', NEW k \in DOMAIN pool',
                          SameCall(pool'[j], pool'[k])
                   PROVE  j = k
        OBVIOUS
      <3>1. PICK a \in DOMAIN pool :
              a = (IF j < i THEN j ELSE j + 1) /\ pool'[j] = pool[a] /\ a # i
        BY <2>2
      <3>2. PICK b \in DOMAIN pool :
              b = (IF k < i THEN k ELSE k + 1) /\ pool'[k] = pool[b] /\ b # i
        BY <2>2
      <3>3. a = b
        BY <3>1, <3>2 DEF Distinct
      <3>4. j \in Nat /\ k \in Nat /\ i \in Nat
        BY <1>0, <2>2
      <3> QED
        BY <3>1, <3>2, <3>3, <3>4
    <2>10. \A j \in DOMAIN pool', k \in DOMAIN chain' : ~SameCall(pool'[j], chain'[k])
      <3> SUFFICES ASSUME NEW j \in DOMAIN pool', NEW k \in DOMAIN chain'
                   PROVE  ~SameCall(pool'[j], chain'[k])
        OBVIOUS
      <3>1. PICK a \in DOMAIN pool : pool'[j] = pool[a] /\ a # i
        BY <2>2
      <3>2. CASE k \in DOMAIN chain
        BY <2>2, <3>1, <3>2 DEF Distinct
      <3>3. CASE k = Len(chain) + 1
        BY <2>2, <2>4, <3>1, <3>3
      <3> QED
        BY <2>6, <3>2, <3>3
    <2>11. \A j, k \in DOMAIN chain' : SameCall(chain'[j], chain'[k]) => j = k
      BY <2>2, <2>5, <2>6 DEF Distinct
    <2> QED
      BY <2>7, <2>8, <2>9, <2>10, <2>11 DEF Distinct, SameCall
  <1> QED
    BY <1>1, <1>2, <1>3, <1>4
    DEF Next, vars, outs, chains, Sync, OutStep, Seal, SyncStart, SyncTest, SyncFetch

-----------------------------------------------------------------------------
(* What IN! holds *)

Mirror == MirrorComplete /\ Numbered /\ Within /\ OnceBeyond /\ AtMostTwice

(* The chain has grown by one event: no entry of IN! is about it yet. *)
LEMMA MirrorInclude ==
  ASSUME EthAssumption, TypeOK, Blocks, Distinct', Mirror,
         NEW i \in DOMAIN pool, Include(i)
  PROVE  Mirror'
  <1>0. /\ chain \in Seq(Event) /\ Len(chain) \in Nat /\ Height \in Nat
        /\ DOMAIN chain = 1 .. Len(chain)
        /\ lastblock \in 0 .. Height /\ blockno \in 0 .. Height
    BY DEF TypeOK, Blocks, Height
  <1>1. UNCHANGED <<sealed, rl, lastblock, pc, blockno>>
    BY DEF Include, mapping
  <1>2. /\ chain' \in Seq(Event) /\ Len(chain') = Len(chain) + 1
        /\ \A j \in DOMAIN chain : chain'[j] = chain[j]
    BY IncludeEffect
  <1>3. /\ Height' = Height /\ Reach' = Reach
        /\ Events(lastblock)' = Events(lastblock)
    BY <1>1 DEF Height, Reach, Events
  <1>4. /\ Reach \in 0 .. Len(chain)
        /\ Events(lastblock) \in 0 .. Len(chain)
    BY <1>0, EventsType, EventsGrow DEF Reach
  <1>5. \A k \in DOMAIN rl : \E j \in 1 .. Reach :
          j \in DOMAIN chain /\ SameCall(rl[k], chain'[j])
    BY <1>0, <1>2, <1>4 DEF Mirror, Within
  <1>6. Within'
    BY <1>1, <1>3, <1>5 DEF Within, SameCall
  <1>7. MirrorComplete'
    <2>1. \A j \in 1 .. Events(lastblock) : j \in DOMAIN chain /\ Logged(j)
      BY <1>0, <1>4 DEF Mirror, MirrorComplete
    <2>2. \A j \in 1 .. Events(lastblock) : Logged(j)'
      BY <1>1, <1>2, <2>1 DEF Logged, SameCall
    <2> QED
      BY <1>1, <1>3, <2>2 DEF Mirror, MirrorComplete
  <1>8. OnceBeyond'
    <2> SUFFICES ASSUME NEW n \in DOMAIN chain', n > Events(lastblock),
                        NEW j \in DOMAIN rl, NEW k \in DOMAIN rl,
                        SameCall(rl[j], chain'[n]), SameCall(rl[k], chain'[n])
                 PROVE  j = k
      BY <1>1, <1>3 DEF OnceBeyond, SameCall
    <2>1. CASE n \in DOMAIN chain
      BY <1>2, <2>1 DEF Mirror, OnceBeyond
    <2>2. CASE n \notin DOMAIN chain
      <3>1. PICK a \in 1 .. Reach : a \in DOMAIN chain /\ SameCall(rl[j], chain'[a])
        BY <1>5
      <3>2. a \in DOMAIN chain' /\ SameCall(chain'[a], chain'[n])
        BY <1>0, <1>2, <3>1 DEF SameCall
      <3>3. a = n
        BY <3>2 DEF Distinct, SameCall
      <3> QED
        BY <2>2, <3>1, <3>3
    <2> QED
      BY <2>1, <2>2
  <1>9. Numbered' /\ AtMostTwice'
    BY <1>1 DEF Mirror, Numbered, AtMostTwice, SameCall
  <1> QED
    BY <1>6, <1>7, <1>8, <1>9 DEF Mirror

(* A step that only moves what may be in IN! forward. *)
LEMMA MirrorReach ==
  ASSUME TypeOK, Blocks, Mirror,
         UNCHANGED <<chain, rl, lastblock>>,
         Height' \in Nat, lastblock <= Height',
         Events(lastblock)' = Events(lastblock),
         Reach \in Nat, Reach' \in Nat, Reach <= Reach'
  PROVE  Mirror'
  <1>1. Within'
    <2>1. \A k \in DOMAIN rl : \E j \in 1 .. Reach' : SameCall(rl[k], chain[j])
      BY DEF Mirror, Within
    <2> QED
      BY <2>1 DEF Within, SameCall
  <1>2. MirrorComplete'
    BY DEF Mirror, MirrorComplete, Logged, SameCall
  <1>3. OnceBeyond' /\ Numbered' /\ AtMostTwice'
    BY DEF Mirror, OnceBeyond, Numbered, AtMostTwice, SameCall
  <1> QED
    BY <1>1, <1>2, <1>3 DEF Mirror

(* The entries that a sync adds are about events beyond LASTBLOCK, one for *)
(* each, and those that were there are about events up to BLOCKNO.         *)
LEMMA MirrorFetch ==
  ASSUME TypeOK, Blocks, Distinct, Mirror, SyncFetch
  PROVE  Mirror'
  <1> DEFINE L == Events(lastblock)
             B == Events(blockno)
             H == Events(Height)
             n == Len(rl)
             m == Len(Fetched)
  <1>0. /\ chain \in Seq(Event) /\ Len(chain) \in Nat /\ Height \in Nat
        /\ DOMAIN chain = 1 .. Len(chain)
        /\ lastblock \in 0 .. Height /\ blockno \in 0 .. Height
        /\ lastblock <= blockno
    BY DEF TypeOK, Blocks, Height
  <1>1. UNCHANGED <<chain, sealed>> /\ lastblock' = blockno /\ pc = "fetch" /\ pc' = "idle"
    BY DEF SyncFetch, BlockSeen, chains
  <1>2. /\ L \in Nat /\ B \in Nat /\ H \in Nat
        /\ L <= B /\ B <= H /\ H <= Len(chain)
    BY <1>0, EventsType, EventsGrow
  <1>3. /\ Height' = Height /\ Reach = B /\ Reach' = H /\ Events(lastblock)' = B
    BY <1>1 DEF Height, Reach, Events
  <1>4. /\ m = H - L
        /\ \A k \in 1 .. m : /\ L + k \in DOMAIN chain
                             /\ Fetched[k] = chain[L + k]
    BY FetchedType
  <1>5. /\ n \in Nat /\ m \in Nat /\ Len(rl') = n + m /\ rl' \in Seq(Entry)
        /\ \A k \in 1 .. n : rl'[k] = rl[k]
        /\ \A k \in 1 .. m : rl'[n + k] = CallOf(Fetched[k], n + k - 1)
    BY FetchEffect
  <1>6. DOMAIN rl = 1 .. n /\ DOMAIN rl' = 1 .. n + m
    BY <1>5 DEF TypeOK
  <1> HIDE DEF L, B, H, n, m
  <1>7. \A k \in 1 .. n : \E j \in 1 .. B : j \in DOMAIN chain /\ SameCall(rl'[k], chain[j])
    BY <1>0, <1>2, <1>3, <1>5, <1>6 DEF Mirror, Within
  <1>8. \A k \in 1 .. m : SameCall(rl'[n + k], chain[L + k]) /\ rl'[n + k].innb = n + k - 1
    <2>1. \A e, x : /\ CallOf(e, x).from = e.from /\ CallOf(e, x).outnb = e.outnb
                    /\ CallOf(e, x).innb = x
      BY DEF CallOf
    <2>2. \A k \in 1 .. m : /\ rl'[n + k].from = chain[L + k].from
                            /\ rl'[n + k].outnb = chain[L + k].outnb
                            /\ rl'[n + k].innb = n + k - 1
      BY <1>4, <1>5, <2>1
    <2> QED
      BY <2>2 DEF SameCall
  (* Where an entry comes from. *)
  <1>9. \A k \in DOMAIN rl' : k \in 1 .. n \/ \E a \in 1 .. m : k = n + a
    <2> TAKE k \in DOMAIN rl'
    <2>1. CASE k > n
      <3>1. k - n \in 1 .. m /\ k = n + (k - n)
        BY <1>5, <1>6, <2>1
      <3> QED
        BY <3>1
    <2>2. CASE ~(k > n)
      BY <1>5, <1>6, <2>2
    <2> QED
      BY <2>1, <2>2
  (* An entry about an event that BLOCKNO does not cover is new. *)
  <1>10. \A k \in DOMAIN rl', i \in DOMAIN chain :
           SameCall(rl'[k], chain[i]) /\ k \in 1 .. n => i <= B
    <2> SUFFICES ASSUME NEW k \in DOMAIN rl', NEW i \in DOMAIN chain,
                        SameCall(rl'[k], chain[i]), k \in 1 .. n
                 PROVE  i <= B
      OBVIOUS
    <2>1. PICK j \in 1 .. B : j \in DOMAIN chain /\ SameCall(rl'[k], chain[j])
      BY <1>7
    <2>2. SameCall(chain[j], chain[i])
      BY <2>1 DEF SameCall
    <2>3. j = i
      BY <2>1, <2>2 DEF Distinct
    <2> QED
      BY <1>2, <2>1, <2>3
  (* A new entry tells which event it is about. *)
  <1>11. \A a \in 1 .. m, i \in DOMAIN chain : SameCall(rl'[n + a], chain[i]) => i = L + a
    <2> SUFFICES ASSUME NEW a \in 1 .. m, NEW i \in DOMAIN chain,
                        SameCall(rl'[n + a], chain[i])
                 PROVE  i = L + a
      OBVIOUS
    <2>1. SameCall(chain[L + a], chain[i]) /\ L + a \in DOMAIN chain
      BY <1>4, <1>8 DEF SameCall
    <2> QED
      BY <2>1 DEF Distinct
  <1>12. Numbered'
    <2> SUFFICES ASSUME NEW k \in DOMAIN rl' PROVE rl'[k].innb = k - 1
      BY DEF Numbered
    <2>1. CASE k \in 1 .. n
      <3>1. k \in DOMAIN rl /\ rl'[k] = rl[k]
        BY <1>5, <1>6, <2>1
      <3>2. rl[k].innb = k - 1
        BY <3>1 DEF Mirror, Numbered
      <3> QED
        BY <3>1, <3>2
    <2>2. ASSUME NEW a \in 1 .. m, k = n + a PROVE rl'[k].innb = k - 1
      <3>1. rl'[k].innb = n + a - 1
        BY <1>8, <2>2
      <3>2. n \in Nat /\ a \in Nat
        BY <1>5
      <3> QED
        BY <2>2, <3>1, <3>2
    <2> QED
      BY <1>9, <2>1, <2>2
  <1>13. Within'
    <2> SUFFICES ASSUME NEW k \in DOMAIN rl'
                 PROVE  \E j \in 1 .. H : SameCall(rl'[k], chain[j])
      BY <1>1, <1>3 DEF Within, SameCall
    <2>1. CASE k \in 1 .. n
      <3>1. PICK j \in 1 .. B : SameCall(rl'[k], chain[j])
        BY <1>7, <2>1
      <3>2. j \in 1 .. H
        BY <1>2, <3>1
      <3> QED
        BY <3>1, <3>2
    <2>2. ASSUME NEW a \in 1 .. m, k = n + a
          PROVE  \E j \in 1 .. H : SameCall(rl'[k], chain[j])
      <3>1. L + a \in 1 .. H
        BY <1>2, <1>4
      <3> QED
        BY <1>8, <2>2, <3>1
    <2> QED
      BY <1>9, <2>1, <2>2
  <1>14. MirrorComplete'
    <2> SUFFICES ASSUME NEW i \in 1 .. B
                 PROVE  \E k \in DOMAIN rl' : SameCall(rl'[k], chain[i])
      BY <1>0, <1>1, <1>3 DEF MirrorComplete, Logged, SameCall
    <2>1. CASE i <= L
      <3>1. PICK k \in DOMAIN rl : SameCall(rl[k], chain[i])
        BY <1>2, <2>1 DEF Mirror, MirrorComplete, Logged, L
      <3>2. k \in DOMAIN rl' /\ rl'[k] = rl[k]
        BY <1>5, <1>6, <3>1
      <3> QED
        BY <3>1, <3>2
    <2>2. CASE ~(i <= L)
      <3>1. i - L \in 1 .. m /\ L + (i - L) = i
        BY <1>2, <1>4, <2>2
      <3>2. n + (i - L) \in DOMAIN rl' /\ SameCall(rl'[n + (i - L)], chain[i])
        BY <1>5, <1>6, <1>8, <3>1
      <3> QED
        BY <3>2
    <2> QED
      BY <2>1, <2>2
  <1>15. OnceBeyond'
    <2> SUFFICES ASSUME NEW i \in DOMAIN chain, i > B,
                        NEW j \in DOMAIN rl', NEW k \in DOMAIN rl',
                        SameCall(rl'[j], chain[i]), SameCall(rl'[k], chain[i])
                 PROVE  j = k
      BY <1>1, <1>3 DEF OnceBeyond, SameCall
    <2>1. ~(i <= B)
      BY <1>0, <1>2
    <2>2. PICK a \in 1 .. m : j = n + a
      BY <1>9, <1>10, <2>1
    <2>3. PICK b \in 1 .. m : k = n + b
      BY <1>9, <1>10, <2>1
    <2>4. i = L + a /\ i = L + b
      BY <1>11, <2>2, <2>3
    <2>5. a \in Nat /\ b \in Nat
      BY <1>5
    <2>6. a = b
      BY <1>2, <2>4, <2>5
    <2> QED
      BY <2>2, <2>3, <2>6
  <1>16. AtMostTwice'
    <2> SUFFICES ASSUME NEW i \in DOMAIN rl', NEW j \in DOMAIN rl', NEW k \in DOMAIN rl',
                        i < j, j < k,
                        SameCall(rl'[i], rl'[j]), SameCall(rl'[j], rl'[k])
                 PROVE  FALSE
      BY DEF AtMostTwice, SameCall
    <2>0. i \in Nat /\ j \in Nat /\ k \in Nat
      BY <1>5, <1>6
    <2>1. CASE k \in 1 .. n
      <3>1. i \in DOMAIN rl /\ j \in DOMAIN rl /\ k \in DOMAIN rl
        BY <1>5, <1>6, <2>0, <2>1
      <3>2. rl'[i] = rl[i] /\ rl'[j] = rl[j] /\ rl'[k] = rl[k]
        BY <1>5, <1>6, <3>1
      <3> QED
        BY <3>1, <3>2 DEF Mirror, AtMostTwice, SameCall
    <2>2. ASSUME NEW a \in 1 .. m, k = n + a PROVE FALSE
      <3>1. /\ L + a \in DOMAIN chain
            /\ SameCall(rl'[i], chain[L + a]) /\ SameCall(rl'[j], chain[L + a])
        BY <1>4, <1>8, <2>2 DEF SameCall
      <3>2. CASE j \in 1 .. n
        <4>1. i \in DOMAIN rl /\ j \in DOMAIN rl /\ rl'[i] = rl[i] /\ rl'[j] = rl[j]
          BY <1>5, <1>6, <2>0, <3>2
        <4>2. L + a > L
          BY <1>2
        <4>3. i = j
          BY <3>1, <4>1, <4>2 DEF Mirror, OnceBeyond, L
        <4> QED
          BY <2>0, <4>3
      <3>3. ASSUME NEW b \in 1 .. m, j = n + b PROVE FALSE
        <4>1. L + a = L + b
          BY <1>11, <3>1, <3>3
        <4> QED
          BY <1>2, <1>5, <2>0, <2>2, <3>3, <4>1
      <3> QED
        BY <1>9, <3>2, <3>3
    <2> QED
      BY <1>9, <2>1, <2>2
  <1> QED
    BY <1>12, <1>13, <1>14, <1>15, <1>16 DEF Mirror

LEMMA EthInvNext == EthAssumption /\ EthInv /\ [Next]_vars => EthInv'
  <1> SUFFICES ASSUME EthAssumption, EthInv, [Next]_vars PROVE EthInv'
    OBVIOUS
  <1>1. TypeOK /\ Blocks /\ Distinct /\ Mirror
    BY DEF EthInv, Mirror
  <1>2. TypeOK' /\ Blocks' /\ Distinct'
    BY <1>1, TypeStep, BlocksStep, DistinctStep
  <1>3. /\ Height \in Nat /\ lastblock \in 0 .. Height /\ blockno \in 0 .. Height
        /\ Len(chain) \in Nat /\ sealed \in Seq(Nat)
    BY <1>1 DEF TypeOK, Blocks, Height
  <1>4. /\ Events(Height) \in Nat /\ Events(blockno) \in Nat
        /\ Events(blockno) <= Events(Height) /\ Events(Height) <= Len(chain)
    BY <1>1, <1>3, EventsType, EventsGrow
  <1>5. Reach \in Nat /\ Reach <= Events(Height)
    BY <1>4 DEF Reach
  <1>6. CASE UNCHANGED <<chain, sealed, mapping>>
    <2>1. Height' = Height /\ Reach' = Reach /\ Events(lastblock)' = Events(lastblock)
      BY <1>6 DEF Height, Reach, Events, mapping
    <2> QED
      BY <1>1, <1>3, <1>5, <1>6, <2>1, MirrorReach, <1>2 DEF mapping, EthInv, Mirror
  <1>7. ASSUME NEW i \in DOMAIN pool, Include(i) PROVE EthInv'
    BY <1>1, <1>2, <1>7, MirrorInclude DEF EthInv, Mirror
  <1>8. CASE Seal
    <2>1. UNCHANGED <<chain, mapping>>
      BY <1>8 DEF Seal
    <2>2. /\ Len(sealed') = Len(sealed) + 1
          /\ \A b \in 1 .. Len(sealed) : sealed'[b] = sealed[b]
          /\ sealed'[Len(sealed) + 1] = Len(chain)
      BY <1>3, <1>8 DEF Seal
    <2>3. Height' = Height + 1 /\ lastblock <= Height'
      BY <1>3, <2>2 DEF Height
    <2>4. \A b \in 0 .. Height : Events(b)' = Events(b)
      BY <1>3, <2>2 DEF Events, Height
    <2>5. Events(lastblock)' = Events(lastblock) /\ Events(blockno)' = Events(blockno)
      BY <1>3, <2>1, <2>2 DEF Events, Height, mapping
    <2>6. Events(Height)' = Len(chain)
      BY <1>3, <2>2, <2>3 DEF Events, Height
    <2>7. Reach' \in Nat /\ Reach <= Reach'
      BY <1>3, <1>4, <1>5, <2>1, <2>5, <2>6 DEF Reach, mapping
    <2> QED
      BY <1>1, <1>2, <1>3, <1>5, <2>1, <2>3, <2>5, <2>7, MirrorReach
      DEF mapping, EthInv, Mirror
  <1>9. CASE SyncStart
    <2>1. Height' = Height /\ Reach' = Reach /\ Events(lastblock)' = Events(lastblock)
      BY <1>9 DEF SyncStart, Height, Reach, Events, chains
    <2>2. UNCHANGED <<chain, rl, lastblock>>
      BY <1>9 DEF SyncStart, chains
    <2> QED
      BY <1>1, <1>2, <1>3, <1>5, <2>1, <2>2, MirrorReach DEF EthInv, Mirror
  <1>10. CASE SyncTest
    <2>1. /\ UNCHANGED <<chain, sealed, rl, lastblock, blockno>> /\ pc = "test"
      BY <1>10 DEF SyncTest, chains
    <2>2. /\ Height' = Height /\ Events(lastblock)' = Events(lastblock)
          /\ Events(Height)' = Events(Height) /\ Events(blockno)' = Events(blockno)
      BY <2>1 DEF Height, Events
    <2>3. Reach = Events(blockno) /\ Reach' \in {Events(blockno), Events(Height)}
      BY <2>1, <2>2 DEF Reach
    <2>4. Reach' \in Nat /\ Reach <= Reach'
      BY <1>4, <2>3
    <2> QED
      BY <1>1, <1>2, <1>3, <1>5, <2>1, <2>2, <2>4, MirrorReach DEF EthInv, Mirror
  <1>11. CASE SyncFetch
    BY <1>1, <1>2, <1>11, MirrorFetch DEF EthInv, Mirror
  <1> QED
    BY <1>6, <1>7, <1>8, <1>9, <1>10, <1>11
    DEF Next, vars, chains, Sync, SendLocal, OutStep, Send

(* No event of a block up to LASTBLOCK is ever lost, whatever is mined     *)
(* while the host is polling (proceth.ss:84-115).                          *)
THEOREM NothingLost == Spec => []MirrorComplete
  <1>1. EthAssumption
    BY EthAssumption
  <1>2. Init => EthInv
    BY <1>1, EthInvInit
  <1>3. EthInv /\ [Next]_vars => EthInv'
    BY <1>1, EthInvNext
  <1>4. EthInv => MirrorComplete
    BY DEF EthInv
  <1> QED
    BY <1>2, <1>3, <1>4, PTL DEF Spec

(* The same event is in IN! twice at most (proceth.ss:77-116).             *)
THEOREM TwiceAtMost == Spec => []AtMostTwice
  <1>1. EthAssumption
    BY EthAssumption
  <1>2. Init => EthInv
    BY <1>1, EthInvInit
  <1>3. EthInv /\ [Next]_vars => EthInv'
    BY <1>1, EthInvNext
  <1>4. EthInv => AtMostTwice
    BY DEF EthInv
  <1> QED
    BY <1>2, <1>3, <1>4, PTL DEF Spec

(* An entry of IN! has its position for INNB, so that a return names the   *)
(* entry it is about (proceth.ss:93-109, procl.ss:60-66).                  *)
THEOREM EntriesNumbered == Spec => []Numbered
  <1>1. EthAssumption
    BY EthAssumption
  <1>2. Init => EthInv
    BY <1>1, EthInvInit
  <1>3. EthInv /\ [Next]_vars => EthInv'
    BY <1>1, EthInvNext
  <1>4. EthInv => Numbered
    BY DEF EthInv
  <1> QED
    BY <1>2, <1>3, <1>4, PTL DEF Spec

=============================================================================
