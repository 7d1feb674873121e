------------------------------ MODULE LoginRace ------------------------------
(***************************************************************************)
(* What a greeting promises, whatever its threads do: the proofs race for  *)
(* one place, and a greeting ends with the login of the connection that    *)
(* came first or with a failure -- never with anybody else's, and never    *)
(* twice.  The comment of `accept_until_login` (ravend/src/main.rs:387)    *)
(* is the promise; GreetLoop is shown to keep it.                          *)
(***************************************************************************)
CONSTANTS Conns, Nobody, Failed

VARIABLES winner,   \* the connection that came first
          outcome   \* Nobody while open, then the connection logged in or Failed

race == <<winner, outcome>>

Init == winner = Nobody /\ outcome = Nobody

Win(c) ==
    /\ winner = Nobody
    /\ winner' = c
    /\ UNCHANGED outcome

LogIn ==
    /\ outcome = Nobody
    /\ winner # Nobody
    /\ outcome' = winner
    /\ UNCHANGED winner

GiveUp ==
    /\ outcome = Nobody
    /\ outcome' = Failed
    /\ UNCHANGED winner

Again ==
    /\ outcome # Nobody
    /\ winner' = Nobody
    /\ outcome' = Nobody

Next ==
    \/ \E c \in Conns : Win(c)
    \/ LogIn
    \/ GiveUp
    \/ Again

Spec == Init /\ [][Next]_race
=============================================================================
