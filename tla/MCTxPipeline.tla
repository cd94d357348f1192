---------------------------- MODULE MCTxPipeline ----------------------------
(***************************************************************************)
(* The pipeline for TLC: two terminals that share one account.             *)
(***************************************************************************)
EXTENDS TxPipeline

CONSTANTS terminal1, terminal2
=============================================================================
