------------------------------- MODULE Screen -------------------------------
(***************************************************************************)
(* The state of the login screen (raven-ui/src/screen.rs), as the greeter  *)
(* uses it: operators from a screen to a screen, one per method.  Words,   *)
(* colours and springs are left out; so are the message line, the password *)
(* typed, the time a throttle lasts, and the kind of a sensor's prompt     *)
(* beyond whether it is the one of an acceptance.                          *)
(***************************************************************************)
EXTENDS Integers, Sequences

CONSTANTS Users,  \* the accounts the daemon may list, in the order it does
          Nobody

ASSUME ScreenAssumption ==
    /\ Len(Users) \in Nat
    /\ \A i \in 1..Len(Users) : Users[i] # Nobody

Accounts == {Users[i] : i \in 1..Len(Users)}
Sensors == {"face", "finger"}
Rows == {"none", "prompt", "accepted"}

Screens == [users      : 0..Len(Users),  \* how many are offered
            selected   : 0..Len(Users),
            busy       : BOOLEAN,
            dismissing : BOOLEAN,
            row        : [Sensors -> Rows],
            flash      : BOOLEAN]

New(users) ==
    [users |-> users, selected |-> 0, busy |-> FALSE,
     dismissing |-> FALSE, row |-> [s \in Sensors |-> "none"],
     flash |-> FALSE]

Current(screen) ==
    IF screen.selected < screen.users THEN Users[screen.selected + 1]
    ELSE Nobody

(* Mutant of SetIdle: what was busy stays so. *)
SetIdleNever(screen) == screen

SetIdle(screen) ==
    IF screen.dismissing THEN screen ELSE [screen EXCEPT !.busy = FALSE]

SetBiometric(screen, sensor, row) == [screen EXCEPT !.row[sensor] = row]

SetFlash(screen, on) == [screen EXCEPT !.flash = on]

(* Mutant of Select: the list does not go round. *)
SelectUnwrapped(screen, step) ==
    IF screen.users < 2 THEN screen ELSE [screen EXCEPT !.selected = @ + 1]

(* next_user by a step of one, previous_user by one less than a round. *)
Select(screen, step) ==
    IF screen.users < 2 THEN screen
    ELSE [screen EXCEPT !.selected = (@ + step) % screen.users]

(* Whether Enter may be an attempt; if it is one, and no throttle refuses  *)
(* it, the screen is busy from here.                                       *)
MaySubmit(screen) == ~ screen.busy /\ Current(screen) # Nobody

Submit(screen) == [screen EXCEPT !.busy = TRUE]

Dismiss(screen) == [screen EXCEPT !.busy = TRUE, !.dismissing = TRUE]
=============================================================================
