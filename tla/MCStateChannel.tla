--------------------------- MODULE MCStateChannel ---------------------------
(***************************************************************************)
(* Small channels for TLC.  The peers are the users themselves; sc0 is the *)
(* contract's process.                                                     *)
(***************************************************************************)
EXTENDS StateChannelProperties

CONSTANTS bob, carol, dave, sc0, NoUser

MP == INSTANCE Micropay WITH User <- Peer

Deposit == [func |-> "deposit", user |-> NoUser, amount |-> 2]
Withdraw == [func |-> "withdraw", user |-> NoUser, amount |-> 1]
Pay == [func |-> "transfer", user |-> carol, amount |-> 1]
Start == [func |-> "start", user |-> NoUser, amount |-> 0]
List == [func |-> "lst", user |-> NoUser, amount |-> 0]

MCExec(mp, user, c) == MP!ServletExec(mp, user, c)
MCAccepts(mp, user, c) == MP!ServletAccepts(mp, user, c)
MCReturn(mp, user, caller, c) == MP!MicropayReturn(mp, user, caller, c)

MCFunc == {Deposit, Withdraw, Pay, Start, List}
MCVolatile == {List}
MCCommitted == {Withdraw}

(* How many calls each process may send. *)
Sends(b, c, d) == [p \in Proc |-> IF p = bob THEN b ELSE IF p = carol THEN c ELSE d]
TwoSenders == Sends(1, 1, 0)
ThreeCalls == Sends(2, 1, 0)

Targets(group, peer, master) ==
  [to \in Peer \cup Master \cup {Group} |->
     IF to = Group THEN group ELSE IF to \in Peer THEN peer ELSE master]

(* Start fails until carol has been paid. *)
Poor == [p \in Peer |-> MP!micropay([u \in Peer |-> IF u = carol THEN 0 ELSE 5])]
GroupMethods == Targets({Pay, Start}, {}, {})
GroupWithdraws == Targets({Pay, Start, Withdraw}, {}, {})

(* A channel that starts empty, with the balances of its contract. *)
Empty == [p \in Peer \cup Master |->
            IF p \in Peer THEN MP!micropay([u \in Peer |-> 0]) ELSE MP!cmicropay]
ContractMethods == Targets({Withdraw, List}, {}, {Deposit})
DepositMethods == Targets({}, {}, {Deposit})
=============================================================================
