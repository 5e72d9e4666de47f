------------------------------ MODULE Micropay ------------------------------
(***************************************************************************)
(* The servlets of the payment channel: micropay (mp1.ss), which each peer *)
(* of the group runs, and cmicropay (mp2.ss), the mock contract run by the *)
(* group's master.  A call is [func, user, amount]; user and amount mean   *)
(* nothing for the methods that do not take them.                          *)
(***************************************************************************)
EXTENDS Integers

CONSTANT User   \* the names in ACCOUNT

(* (micropay U1 N1 U2 N2 ...): start is tried once, in the constructor. *)
micropay(balance) ==
  [type |-> "micropay", account |-> balance,
   withdraw |-> [u \in User |-> 0],
   state |-> IF \A u \in User : balance[u] > 0 THEN "Started" ELSE "Init"]

cmicropay == [type |-> "cmicropay", account |-> [u \in User |-> 0]]

Credit(mp, u, n) == [mp EXCEPT !.account[u] = @ + n]

start(mp) ==
  mp.state = "Init" /\ \A u \in User : mp.account[u] > 0

(* transfer, deposit, withdraw and start of micropay; lst only prints. *)
MicropayExec(mp, user, c) ==
  CASE c.func = "transfer" -> Credit(Credit(mp, c.user, c.amount), user, -c.amount)
    [] c.func = "deposit"  -> Credit(mp, user, c.amount)
    [] c.func = "withdraw" -> [Credit(mp, user, -c.amount) EXCEPT
                                 !.withdraw[user] = @ + c.amount]
    [] c.func = "start"    -> IF start(mp) THEN [mp EXCEPT !.state = "Started"]
                              ELSE mp
    [] c.func = "lst"      -> mp

(* deposit/return credits the depositor; withdraw/return takes the amount  *)
(* off the withdrawals of the user who sent the return.                    *)
MicropayReturn(mp, user, caller, c) ==
  CASE c.func = "deposit"  -> Credit(mp, caller, c.amount)
    [] c.func = "withdraw" -> [mp EXCEPT !.withdraw[user] = @ - c.amount]

(* deposit and withdraw of cmicropay, always accepted. *)
CMicropayExec(mp, user, c) ==
  CASE c.func = "deposit"  -> Credit(mp, user, c.amount)
    [] c.func = "withdraw" -> Credit(mp, user, -c.amount)
    [] c.func = "lst"      -> mp

(* A method is looked up in the type of SELF. *)
ServletExec(mp, user, c) ==
  IF mp.type = "micropay" THEN MicropayExec(mp, user, c)
  ELSE CMicropayExec(mp, user, c)

(* start is the only method whose result can be False. *)
ServletAccepts(mp, user, c) == c.func = "start" => start(mp)

=============================================================================
