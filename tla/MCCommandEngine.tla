--------------------------- MODULE MCCommandEngine ---------------------------
(* Model-checking instances of CommandEngine. *)
EXTENDS CommandEngine
CONSTANTS r1, r2

(* Nothing tells one command node from another. *)
NodeSymmetry == Permutations(Nodes)

(* What RequestsReturn leaves aside is for ever once it has happened, so a   *)
(* behaviour that violates it is calm from its first to its last state: the  *)
(* liveness run need not explore beyond the others.                          *)
Calm == ~raced /\ ~broke /\ ~hang.lost
=============================================================================
