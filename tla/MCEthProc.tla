----------------------------- MODULE MCEthProc -----------------------------
(* An instance of EthProc: two processes, one of which has an account.     *)
EXTENDS EthProc
CONSTANTS bob, carol
=============================================================================
