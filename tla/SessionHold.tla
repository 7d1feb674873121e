---------------------------- MODULE SessionHold ----------------------------
(***************************************************************************)
(* What a lock screen promises the owner of a session (raven-lock's module *)
(* documentation and `finish_unlock`): once the compositor has hidden the  *)
(* session it is revealed only to somebody who has proved who they are,    *)
(* unless the compositor itself takes the lock away, and whatever becomes  *)
(* of the lock screen.                                                     *)
(***************************************************************************)
VARIABLES session,  \* open, hidden, or revealed again
          proved    \* the daemon has accepted a password, a finger or a face

vars == <<session, proved>>

Init == session = "open" /\ proved = FALSE

Hide == session = "open" /\ session' = "hidden" /\ UNCHANGED proved

Prove == proved' = TRUE /\ UNCHANGED session

Reveal ==
    /\ session = "hidden"
    /\ proved
    /\ session' = "revealed"
    /\ UNCHANGED proved

TakeAway == session = "hidden" /\ session' = "open" /\ UNCHANGED proved

Next == Hide \/ Prove \/ Reveal \/ TakeAway

Spec == Init /\ [][Next]_vars
=============================================================================
