------------------------------ MODULE MCTxMgr ------------------------------
(* Two callers, two data sources, one connection each: enough for callbacks that *)
(* hold one source and wait for the other, and for every order of commits.       *)
EXTENDS TxMgr, TLC
=============================================================================
