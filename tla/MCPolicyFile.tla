----------------------------- MODULE MCPolicyFile -----------------------------
(* PolicyFile for TLC: policies with none, one and all of three switches on. *)
EXTENDS PolicyFile, TLC

CONSTANTS login, unlock, sudo

NoneOneAll == {{}, {sudo}, {login, unlock, sudo}}

InodeSymmetry == Permutations(Inodes)
=============================================================================
