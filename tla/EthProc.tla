------------------------------ MODULE EthProc ------------------------------
(***************************************************************************)
(* An Ethereum process (proceth.ss): the local mapping of a contract.      *)
(* send pushes a call in the OUT of its sender and hands a transaction to  *)
(* the sender's account; sync polls the chain for the events the contract  *)
(* has emitted since LASTBLOCK, and turns them back into calls, which it   *)
(* logs in IN and IN!.                                                     *)
(*                                                                         *)
(* The host is single-threaded, but the chain does not wait for it: blocks *)
(* are mined between the three requests a sync makes for the block number. *)
(*                                                                         *)
(* A sender's name stands for its USER and its account too.  IN receives   *)
(* what IN! does, and its INPTR is never set, so IN! stands for both.      *)
(***************************************************************************)
EXTENDS Integers, Sequences

CONSTANTS
  Sender,   \* the processes of the host
  Account,  \* those whose USER has an account
  Amount,   \* the amounts that are deposited and withdrawn
  MaxOut,   \* bound: how many calls each process sends
  MaxBlock  \* bound: how many blocks are mined

ASSUME EthAssumption ==
  /\ Account \subseteq Sender
  /\ Amount \subseteq Nat \ {0}
  /\ MaxOut \in Nat /\ MaxBlock \in Nat

(* The methods of the contract. *)
Method == [func: {"deposit", "withdraw"}, amount: Amount]
          \cup [func: {"init"}, amount: {1}]

(* What is sent to another process stands for any call. *)
Other == [func |-> "other", amount |-> 0]

Message == [to: {"contract"}, call: Method] \cup [to: {"local"}, call: {Other}]

(* A transaction, or the event it emits: the end of the event's parameters *)
(* names the process that sent the call, and its OUTNB.                    *)
Event == [func: {"deposit", "withdraw", "state"}, amount: Nat,
          signed: Account, from: Sender, outnb: Nat]
Transaction == [call: Method, signed: Account, from: Sender, outnb: Nat]

VARIABLES
  out,       \* OUT of each process
  outptr,    \* OUTPTR: index of the next message, Len(out) + 1 for Nil
  posted,    \* the OUTNBs of the messages that out-step has transmitted
  pool,      \* transactions that are not mined yet
  chain,     \* the events of the contract, those of the pending block last
  sealed,    \* how many of them there were when each block was mined
  balance,   \* BALANCE
  rl,        \* IN! (and IN) of the Ethereum process
  lastblock, \* LASTBLOCK
  pc,        \* where the sync is: "idle", "test" or "fetch"
  blockno    \* BLOCKNO

outs == <<out, outptr, posted>>
chains == <<chain, sealed, balance>>
mapping == <<rl, lastblock, pc, blockno>>
vars == <<outs, pool, chains, mapping>>

Height == Len(sealed)

(* How many events the blocks up to b hold. *)
Events(b) == IF b = 0 THEN 0 ELSE sealed[b]

Entry == [func: {"deposit", "withdraw", "state"}, amount: Nat,
          signed: Account, from: Sender, outnb: Nat, innb: Nat]

TypeOK ==
  /\ out \in [Sender -> Seq(Message)]
  /\ outptr \in [Sender -> Nat \ {0}]
  /\ posted \in [Sender -> SUBSET Nat]
  /\ pool \in Seq(Transaction)
  /\ chain \in Seq(Event)
  /\ sealed \in Seq(Nat)
  /\ balance \in [Account -> Nat]
  /\ rl \in Seq(Entry)
  /\ lastblock \in Nat
  /\ pc \in {"idle", "test", "fetch"}
  /\ blockno \in Nat

Init ==
  /\ out = [p \in Sender |-> <<>>]
  /\ outptr = [p \in Sender |-> 1]
  /\ posted = [p \in Sender |-> {}]
  /\ pool = <<>>
  /\ chain = <<>>
  /\ sealed = <<>>
  /\ balance = [u \in Account |-> 0]
  /\ rl = <<>>
  /\ lastblock = 0
  /\ pc = "idle"
  /\ blockno = 0

-----------------------------------------------------------------------------
(* Sending *)

(* proc-send0 *)
Pushed(p, to, c) == [out EXCEPT ![p] = Append(@, [to |-> to, call |-> c])]

(* A call to a process of the host waits in OUT for out-step. *)
SendLocal(p) ==
  /\ pc = "idle"
  /\ Len(out[p]) < MaxOut
  /\ out' = Pushed(p, "local", Other)
  /\ UNCHANGED <<outptr, posted, pool, chains, mapping>>

OutStep(p) ==
  /\ pc = "idle"
  /\ outptr[p] <= Len(out[p])
  /\ posted' = [posted EXCEPT ![p] = @ \cup {outptr[p] - 1}]
  /\ outptr' = [outptr EXCEPT ![p] = @ + 1]
  /\ UNCHANGED <<out, pool, chains, mapping>>

(* OUTPTR becomes Nil. *)
NilPtr(p) == [outptr EXCEPT ![p] = Len(out[p]) + 2]

(* The transaction's nonce: the length of OUT before the call is pushed. *)
Nonce(p) == Len(out[p])

(* Without an account, an error comes before anything has changed. *)
Send(p, c) ==
  /\ pc = "idle"
  /\ Len(out[p]) < MaxOut
  /\ pool' = Append(pool, [call |-> c, signed |-> p, from |-> p,
                           outnb |-> Nonce(p)])
  /\ out' = Pushed(p, "contract", c)
  /\ outptr' = NilPtr(p)
  /\ UNCHANGED <<posted, chains, mapping>>

-----------------------------------------------------------------------------
(* The chain *)

(* withdraw leaves a balance that is not more than the amount alone. *)
Withdrawn(u, amount) ==
  [balance EXCEPT ![u] = IF @ > amount THEN @ - amount ELSE @]

(* BALANCE after a transaction. *)
Executed(t) ==
  CASE t.call.func = "init"     -> [u \in Account |-> 0]
    [] t.call.func = "deposit"  -> [balance EXCEPT ![t.signed] = @ + t.call.amount]
    [] t.call.func = "withdraw" -> Withdrawn(t.signed, t.call.amount)

(* The event's name is "state" for init, and withdraw emits its event even *)
(* when it does nothing.                                                   *)
Emitted(t) ==
  [func |-> IF t.call.func = "init" THEN "state" ELSE t.call.func,
   amount |-> t.call.amount, signed |-> t.signed, from |-> t.from,
   outnb |-> t.outnb]

(* The miner takes the transactions of an account in their order. *)
Include(i) ==
  /\ Height < MaxBlock
  /\ \A j \in 1 .. i - 1 : pool[j].signed # pool[i].signed
  /\ pool' = [j \in 1 .. Len(pool) - 1 |-> IF j < i THEN pool[j] ELSE pool[j + 1]]
  /\ balance' = Executed(pool[i])
  /\ chain' = Append(chain, Emitted(pool[i]))
  /\ UNCHANGED <<outs, sealed, mapping>>

Seal ==
  /\ Height < MaxBlock
  /\ sealed' = Append(sealed, Len(chain))
  /\ UNCHANGED <<outs, pool, chain, balance, mapping>>

-----------------------------------------------------------------------------
(* sync *)

(* BLOCKNO is read, then ... *)
SyncStart ==
  /\ pc = "idle"
  /\ pc' = "test"
  /\ blockno' = Height
  /\ UNCHANGED <<outs, pool, chains, rl, lastblock>>

(* Faulty: one block later than it should. *)
NewBlocksStrict == lastblock + 1 < Height

(* ... the block number is read again, to see whether there are new blocks, *)
NewBlocks == lastblock + 1 <= Height

SyncTest ==
  /\ pc = "test"
  /\ pc' = IF NewBlocks THEN "fetch" ELSE "idle"
  /\ UNCHANGED <<outs, pool, chains, rl, lastblock, blockno>>

(* ... and a third time, as the end of the range of blocks to fetch. *)
Fetched ==
  [k \in 1 .. Events(Height) - Events(lastblock) |->
     chain[Events(lastblock) + k]]

(* The call made of an event, with the next number of IN!. *)
CallOf(e, n) ==
  [func |-> e.func, amount |-> e.amount, signed |-> e.signed, from |-> e.from,
   outnb |-> e.outnb, innb |-> n]

(* Faulty: the number of a block beyond those fetched. *)
NextBlock == blockno + 1

(* Faulty: the last block fetched is left to be fetched again. *)
BlockBefore == IF blockno = 0 THEN 0 ELSE blockno - 1

(* What LASTBLOCK becomes. *)
BlockSeen == blockno

(* Faulty: numbered by block. *)
FirstBlockNumber == Height

(* INNB of the first of the new calls. *)
FirstNumber == Len(rl)

SyncFetch ==
  /\ pc = "fetch"
  /\ rl' = rl \o [k \in DOMAIN Fetched |-> CallOf(Fetched[k], FirstNumber + k - 1)]
  /\ lastblock' = BlockSeen
  /\ pc' = "idle"
  /\ UNCHANGED <<outs, pool, chains, blockno>>

Sync == SyncStart \/ SyncTest \/ SyncFetch

Next == \/ \E p \in Sender : SendLocal(p) \/ OutStep(p)
        \/ \E p \in Account, c \in Method : Send(p, c)
        \/ \E i \in DOMAIN pool : Include(i)
        \/ Seal
        \/ Sync

Spec == Init /\ [][Next]_vars

(* A sync that has started ends, and the chain keeps producing blocks. *)
Fairness == WF_vars(SyncTest) /\ WF_vars(SyncFetch) /\ WF_vars(Seal)

FairSpec == Spec /\ Fairness

-----------------------------------------------------------------------------
(* Properties *)

(* The call that an entry of IN! or an event is about. *)
SameCall(a, b) == a.from = b.from /\ a.outnb = b.outnb

Logged(i) == \E k \in DOMAIN rl : SameCall(rl[k], chain[i])

(* No event is lost: whatever is mined while a sync is under way, IN! has  *)
(* every event of the blocks up to LASTBLOCK (proceth.ss:84-115).          *)
MirrorComplete ==
  /\ lastblock <= Height
  /\ \A i \in 1 .. Events(lastblock) : Logged(i)

(* An event that is mined while a sync is under way may be fetched by the  *)
(* next one too, but never by a third one (proceth.ss:77-116).             *)
AtMostTwice ==
  \A i, j, k \in DOMAIN rl :
    i < j /\ j < k => ~(SameCall(rl[i], rl[j]) /\ SameCall(rl[j], rl[k]))

(* INNB is an entry's position in IN!: it is what a /return call names the *)
(* entry by, and what sync of a proclet compares (procl.ss:60-66, 95-98).  *)
Numbered == \A k \in DOMAIN rl : rl[k].innb = k - 1

(* If the process is synced again and again, every event is logged: the    *)
(* test for new blocks never hides one for ever (proceth.ss:85).           *)
EveryEventLogged ==
  []<>(pc = "test") =>
    \A i \in 1 .. MaxOut : (Events(Height) >= i) ~> (i \in DOMAIN chain /\ Logged(i))

=============================================================================
