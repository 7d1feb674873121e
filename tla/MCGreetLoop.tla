----------------------------- MODULE MCGreetLoop -----------------------------
(* GreetLoop on small instances. *)
EXTENDS GreetLoop, TLC

ConnSymmetry == Permutations(Conns \ Strangers)
=============================================================================
