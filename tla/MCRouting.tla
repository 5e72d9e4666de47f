----------------------------- MODULE MCRouting -----------------------------
(***************************************************************************)
(* Two physical machines on the network, and one behind a proxy, with      *)
(* sub-machines one and two levels deep.                                   *)
(***************************************************************************)
EXTENDS Routing

MCIp == {"e1", "e2", "ip"}

MCMachine ==
  {<<"e1">>, <<"e1", "0">>, <<"e1", "0", "1">>, <<"e1", "0", "1", "2">>,
   <<"e1", "2">>, <<"e2">>, <<"e2", "1">>,
   <<"e2", "ip">>, <<"e2", "ip", "0">>, <<"e2", "ip", "0", "1">>}

(* Private IPs are proxied, and sub-machines that are declared so. *)
MCProxied == {<<"e2", "ip">>, <<"e1", "2">>}
=============================================================================
