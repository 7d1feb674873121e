---------------------------- MODULE PolicyRegister ----------------------------
(***************************************************************************)
(* What an account's policy file promises whoever reads it (the module     *)
(* documentation of raven-finger/src/policy.rs): it holds the last policy  *)
(* saved, whole, or nothing; a save that stops halfway changes nothing;    *)
(* and a crash leaves what it holds, or what it held when the file system  *)
(* last wrote its directories.                                             *)
(***************************************************************************)
CONSTANTS Writers, Policies, Off

VARIABLES value,    \* what a reader gets
          durable,  \* what a reader would get after a crash
          saving    \* the policy each writer is saving, in a set, or none

vars == <<value, durable, saving>>

Init ==
    /\ value = Off
    /\ durable = Off
    /\ saving = [w \in Writers |-> {}]

Begin(w) ==
    /\ saving[w] = {}
    /\ \E p \in Policies : saving' = [saving EXCEPT ![w] = {p}]
    /\ UNCHANGED <<value, durable>>

Commit(w) ==
    /\ saving[w] # {}
    /\ value' \in saving[w]
    /\ saving' = [saving EXCEPT ![w] = {}]
    /\ UNCHANGED durable

Abort(w) ==
    /\ saving' = [saving EXCEPT ![w] = {}]
    /\ UNCHANGED <<value, durable>>

Remove == value' = Off /\ UNCHANGED <<durable, saving>>

Flush == durable' = value /\ UNCHANGED <<value, saving>>

Crash ==
    /\ value' = durable
    /\ saving' = [w \in Writers |-> {}]
    /\ UNCHANGED durable

Next ==
    \/ \E w \in Writers : Begin(w) \/ Commit(w) \/ Abort(w)
    \/ Remove
    \/ Flush
    \/ Crash

Spec == Init /\ [][Next]_vars
=============================================================================
