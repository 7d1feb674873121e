------------------------------ MODULE MCBioWatch ------------------------------
(* BioWatch for TLC: every conversation is about one account. *)
EXTENDS BioWatch

CONSTANT alice

OneAccount == [w \in Watches |-> alice]
=============================================================================
