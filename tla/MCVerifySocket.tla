---------------------------- MODULE MCVerifySocket ----------------------------
(* VerifySocket for TLC: every connection is alice's. *)
EXTENDS VerifySocket

CONSTANT alice

MCOwner == [c \in Conns |-> alice]
=============================================================================
