-------------------------------- MODULE Seat --------------------------------
(***************************************************************************)
(* What ravend promises of the machine's seat (ravend/src/main.rs): the    *)
(* greeter and a session never hold it together, and a login that the      *)
(* greeter let in starts one session, of that account, or none.            *)
(***************************************************************************)
CONSTANTS Accounts, Nobody, Greeter

VARIABLES holder,   \* who has the display: nobody, the greeter, or an account
          admitted  \* the account let in whose session has not begun

vars == <<holder, admitted>>

Init == holder = Nobody /\ admitted = Nobody

Greet ==
    /\ holder = Nobody
    /\ admitted = Nobody
    /\ holder' = Greeter
    /\ UNCHANGED admitted

Admit(a) ==
    /\ holder \in {Nobody, Greeter}
    /\ admitted = Nobody
    /\ admitted' = a
    /\ UNCHANGED holder

Leave == holder # Nobody /\ holder' = Nobody /\ UNCHANGED admitted

Start ==
    /\ holder = Nobody
    /\ admitted # Nobody
    /\ holder' = admitted
    /\ admitted' = Nobody

Forget == holder = Nobody /\ admitted' = Nobody /\ UNCHANGED holder

Next == Greet \/ (\E a \in Accounts : Admit(a)) \/ Leave \/ Start \/ Forget

Spec == Init /\ [][Next]_vars
=============================================================================
