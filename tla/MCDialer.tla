------------------------------- MODULE MCDialer -------------------------------
(* A small dialer: one peer with an address of its own and a dnsaddr that  *)
(* lists two more, another with one address, three tokens and two calls.    *)
EXTENDS Dialer, TLC
CONSTANTS c1, c2, remote1, remote2, t1, t2, t3
MCKnown == (remote1 :> {1, 4}) @@ (remote2 :> {5})
MCRecords == (4 :> {2, 3}) @@ (5 :> {1})
MCDialable == {1, 2, 3}
===============================================================================
