---------------------------- MODULE MCRxReorder ----------------------------
(* Model-checking instance of RxReorder. *)
EXTENDS RxReorder
=============================================================================
