------------------------------- MODULE MCDesk -------------------------------
EXTENDS Desk, TLC
(* Threads are alike, and so are accounts. *)
DeskSymmetry == Permutations(Threads) \cup Permutations(Accounts)
=============================================================================
