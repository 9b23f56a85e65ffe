---------------------------- MODULE MCRxProcess ----------------------------
(* Model-checking instance of RxProcess. *)
EXTENDS RxProcess
=============================================================================
