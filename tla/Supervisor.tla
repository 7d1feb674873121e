----------------------------- MODULE Supervisor -----------------------------
(***************************************************************************)
(* The main thread of ravend (ravend/src/main.rs, session.rs): it brings   *)
(* the login screen up, waits for a login, takes the screen down, hands    *)
(* the password to the keyring, runs the session, and begins again.  Its   *)
(* children may exit at any moment and need not exit when they are asked.  *)
(*                                                                         *)
(* What happens between the greeter and `accept_until_login` is GreetLoop; *)
(* here it ends with a login or without.  Time is left out: a wait ends,   *)
(* or its deadline does.  A child that has exited and been waited for in   *)
(* passing (`try_wait`) counts as exited until its place is given up.      *)
(***************************************************************************)
EXTENDS Integers

CONSTANTS Accounts,
          LastDisplay,  \* the highest wayland-<n> that is looked for
          Nobody, Greeter

ASSUME SupervisorAssumption ==
    /\ LastDisplay \in Nat
    /\ Nobody # Greeter
    /\ Nobody \notin Accounts
    /\ Greeter \notin Accounts

VARIABLES
    at,        \* where the thread is
    child,     \* each child: none, running, or exited and not waited for
    sockets,   \* the greeter's wayland-<n>: none, stale, or its compositor's
    display,   \* the one the UI is pointed at
    who,       \* the account that was let in
    password,  \* and it proved itself with one
    door,      \* each account's keyring socket: none, stale, or its daemon's
    keys       \* the keyring daemon has opened the keyring

login == <<who, password>>
keyring == <<door, keys>>
vars == <<at, child, sockets, display, login, keyring>>

-----------------------------------------------------------------------------

Children == {"compositor", "ui", "keyring", "session"}

Displays == 0 .. LastDisplay

Found == {"none", "stale", "own"}

(* Where a greeting is, and where what a login starts. *)
Greeting == {"waitDisplay", "spawnUi", "accepting", "stopUi", "stopCompositor"}

Starting == {"prepareSession", "spawnKeyring", "waitKeyring", "handoff",
             "spawnSession"}

Places == {"prepare", "spawnCompositor", "backoff", "session", "stopKeyring"}
              \cup Greeting \cup Starting

Becomes(p, state) == child' = [child EXCEPT ![p] = state]

Init ==
    /\ at = "prepare"
    /\ child = [p \in Children |-> "none"]
    /\ sockets \in [Displays -> {"none", "stale"}]
    /\ display = 0
    /\ who = Nobody
    /\ password = FALSE
    /\ door \in [Accounts -> {"none", "stale"}]
    /\ keys = FALSE

(* A socket outlives whoever bound it, unless they removed it. *)
Aged(found) == IF found = "own" THEN "stale" ELSE found

-----------------------------------------------------------------------------
(* The children.                                                            *)

(* An exit takes the opened keys with it, and perhaps the socket. *)
Dies(p) ==
    /\ child[p] = "running"
    /\ Becomes(p, "exited")
    /\ keys' = (keys /\ p # "keyring")

ExitsTidily(p) ==
    /\ Dies(p)
    /\ sockets' = [n \in Displays |->
          IF p = "compositor" /\ sockets[n] = "own" THEN "none" ELSE sockets[n]]
    /\ door' = [a \in Accounts |->
          IF p = "keyring" /\ a = who /\ door[a] = "own" THEN "none" ELSE door[a]]
    /\ UNCHANGED <<at, display, login>>

Exits(p) == Dies(p) /\ UNCHANGED <<at, sockets, display, login, door>>

(* A compositor takes a number of its own choice. *)
CompositorBinds(n) ==
    /\ child["compositor"] = "running"
    /\ \A m \in Displays : sockets[m] # "own"
    /\ sockets' = [sockets EXCEPT ![n] = "own"]
    /\ UNCHANGED <<at, child, display, login, keyring>>

KeyringBinds ==
    /\ child["keyring"] = "running"
    /\ door[who] # "own"
    /\ door' = [door EXCEPT ![who] = "own"]
    /\ UNCHANGED <<at, child, sockets, display, login, keys>>

-----------------------------------------------------------------------------
(* `stop`: a child is asked to exit, given its time, and then killed; it is *)
(* "always waited for, never fired and forgotten".                          *)

Stopping(p) ==
    at = CASE p = "ui" -> "stopUi"
           [] p = "compositor" -> "stopCompositor"
           [] p = "keyring" -> "stopKeyring"
           [] OTHER -> "never"

(* Mutant of Kill: it is asked and then waited for. *)
KillNever(p) == FALSE /\ UNCHANGED vars

Kill(p) == Stopping(p) /\ Exits(p)

(* Mutant of Reaped: it is asked, and not waited for. *)
Asked(p) == Stopping(p) /\ UNCHANGED child

Reaped(p) == Stopping(p) /\ child[p] = "exited" /\ Becomes(p, "none")

-----------------------------------------------------------------------------
(* `greet` and `greet_inner`.                                               *)

(* Mutant of PrepareGreeter: what is left in the directory stays there. *)
PrepareUncleared ==
    /\ at = "prepare"
    /\ at' = "spawnCompositor"
    /\ UNCHANGED <<child, sockets, display, login, keyring>>

PrepareGreeter ==
    /\ at = "prepare"
    /\ at' = "spawnCompositor"
    /\ sockets' = [n \in Displays |-> "none"]
    /\ UNCHANGED <<child, display, login, keyring>>

(* At the directory, or at one of the entries in it. *)
PrepareFails ==
    /\ at = "prepare"
    /\ at' = "backoff"
    /\ \E removed \in SUBSET Displays :
          sockets' = [n \in Displays |->
              IF n \in removed THEN "none" ELSE sockets[n]]
    /\ UNCHANGED <<child, display, login, keyring>>

SpawnCompositor ==
    /\ at = "spawnCompositor"
    /\ at' = "waitDisplay"
    /\ Becomes("compositor", "running")
    /\ sockets' = [n \in Displays |-> Aged(sockets[n])]
    /\ UNCHANGED <<display, login, keyring>>

SpawnCompositorFails ==
    /\ at = "spawnCompositor"
    /\ at' = "backoff"
    /\ UNCHANGED <<child, sockets, display, login, keyring>>

(* The lowest number that is a socket, if the compositor still runs. *)
FindDisplay(n) ==
    /\ at = "waitDisplay"
    /\ child["compositor"] = "running"
    /\ sockets[n] # "none"
    /\ \A m \in 0 .. n - 1 : sockets[m] = "none"
    /\ display' = n
    /\ at' = "spawnUi"
    /\ UNCHANGED <<child, sockets, login, keyring>>

(* The compositor has exited, or has had its time. *)
NoDisplay ==
    /\ at = "waitDisplay"
    /\ \/ child["compositor"] = "exited"
       \/ \A n \in Displays : sockets[n] = "none"
    /\ at' = "stopCompositor"
    /\ UNCHANGED <<child, sockets, display, login, keyring>>

SpawnUi ==
    /\ at = "spawnUi"
    /\ at' = "accepting"
    /\ Becomes("ui", "running")
    /\ UNCHANGED <<sockets, display, login, keyring>>

SpawnUiFails ==
    /\ at = "spawnUi"
    /\ at' = "stopCompositor"
    /\ UNCHANGED <<child, sockets, display, login, keyring>>

(* `accept_until_login` looks for a login before it looks at the children. *)
LogsIn(a, typed) ==
    /\ at = "accepting"
    /\ at' = "stopUi"
    /\ who' = a
    /\ password' = typed
    /\ UNCHANGED <<child, sockets, display, keyring>>

ScreenGoes ==
    /\ at = "accepting"
    /\ child["compositor"] = "exited" \/ child["ui"] = "exited"
    /\ at' = "stopUi"
    /\ UNCHANGED <<child, sockets, display, login, keyring>>

AcceptFails ==
    /\ at = "accepting"
    /\ at' = "stopUi"
    /\ UNCHANGED <<child, sockets, display, login, keyring>>

UiStopped ==
    /\ Reaped("ui")
    /\ at' = "stopCompositor"
    /\ UNCHANGED <<sockets, display, login, keyring>>

(* The greeting ends with a login, or is to be tried again. *)
CompositorStopped ==
    /\ Reaped("compositor")
    /\ at' = IF who = Nobody THEN "backoff" ELSE "prepareSession"
    /\ UNCHANGED <<sockets, display, login, keyring>>

WaitsOut ==
    /\ at = "backoff"
    /\ at' = "prepare"
    /\ UNCHANGED <<child, sockets, display, login, keyring>>

-----------------------------------------------------------------------------
(* `run_session` and `handoff_keyring`, which never fails.                  *)

Back ==
    /\ at' = "prepare"
    /\ who' = Nobody
    /\ password' = FALSE

PrepareSession ==
    /\ at = "prepareSession"
    /\ at' = "spawnKeyring"
    /\ UNCHANGED <<child, sockets, display, login, keyring>>

PrepareSessionFails ==
    /\ at = "prepareSession"
    /\ Back
    /\ UNCHANGED <<child, sockets, display, keyring>>

SpawnKeyring ==
    /\ at = "spawnKeyring"
    /\ at' = "waitKeyring"
    /\ Becomes("keyring", "running")
    /\ door' = [a \in Accounts |-> Aged(door[a])]
    /\ UNCHANGED <<sockets, display, login, keys>>

(* Off, not installed, or it cannot be started. *)
NoKeyring ==
    /\ at = "spawnKeyring"
    /\ at' = "spawnSession"
    /\ UNCHANGED <<child, sockets, display, login, keyring>>

FindKeyring ==
    /\ at = "waitKeyring"
    /\ child["keyring"] = "running"
    /\ door[who] # "none"
    /\ at' = IF password THEN "handoff" ELSE "spawnSession"
    /\ UNCHANGED <<child, sockets, display, login, keyring>>

KeyringNotUp ==
    /\ at = "waitKeyring"
    /\ child["keyring"] = "exited" \/ door[who] = "none"
    /\ at' = "spawnSession"
    /\ UNCHANGED <<child, sockets, display, login, keyring>>

(* A stale socket refuses, and so may the keyring. *)
Handoff ==
    /\ at = "handoff"
    /\ at' = "spawnSession"
    /\ keys' \in {FALSE, child["keyring"] = "running" /\ door[who] = "own"}
    /\ UNCHANGED <<child, sockets, display, login, door>>

SpawnSession ==
    /\ at = "spawnSession"
    /\ at' = "session"
    /\ Becomes("session", "running")
    /\ UNCHANGED <<sockets, display, login, keyring>>

(* Mutant of SpawnSessionFails: it returns at once. *)
SpawnSessionReturns ==
    /\ at = "spawnSession"
    /\ Back
    /\ UNCHANGED <<child, sockets, display, keyring>>

SpawnSessionFails ==
    /\ at = "spawnSession"
    /\ at' = "stopKeyring"
    /\ UNCHANGED <<child, sockets, display, login, keyring>>

SessionEnds ==
    /\ at = "session"
    /\ child["session"] = "exited"
    /\ Becomes("session", "none")
    /\ at' = "stopKeyring"
    /\ UNCHANGED <<sockets, display, login, keyring>>

KeyringStopped ==
    /\ \/ Reaped("keyring")
       \/ at = "stopKeyring" /\ child["keyring"] = "none" /\ UNCHANGED child
    /\ Back
    /\ UNCHANGED <<sockets, display, keyring>>

-----------------------------------------------------------------------------

Greets ==
    \/ PrepareGreeter
    \/ PrepareFails
    \/ SpawnCompositor
    \/ SpawnCompositorFails
    \/ \E n \in Displays : FindDisplay(n)
    \/ NoDisplay
    \/ SpawnUi
    \/ SpawnUiFails
    \/ ScreenGoes
    \/ UiStopped
    \/ CompositorStopped
    \/ WaitsOut

RunsSession ==
    \/ PrepareSession
    \/ PrepareSessionFails
    \/ SpawnKeyring
    \/ NoKeyring
    \/ FindKeyring
    \/ KeyringNotUp
    \/ Handoff
    \/ SpawnSession
    \/ SpawnSessionFails
    \/ SessionEnds
    \/ KeyringStopped

Kills == \E p \in Children : Kill(p)

World ==
    \/ \E p \in Children : ExitsTidily(p) \/ Exits(p)
    \/ \E n \in Displays : CompositorBinds(n)
    \/ KeyringBinds
    \/ \E a \in Accounts, typed \in BOOLEAN : LogsIn(a, typed)
    \/ AcceptFails

Next == Greets \/ RunsSession \/ Kills \/ World

Spec == Init /\ [][Next]_vars

(* The thread goes on: its waits have deadlines, and the last thing `stop`  *)
(* does cannot be ignored.  Nothing is assumed of the children.             *)
FairSpec == Spec /\ WF_vars(Greets \/ RunsSession \/ Kills)

-----------------------------------------------------------------------------

(* The type invariant of the main thread. *)
TypeOK ==
    /\ at \in Places
    /\ child \in [Children -> {"none", "running", "exited"}]
    /\ sockets \in [Displays -> Found]
    /\ display \in Displays
    /\ who \in Accounts \cup {Nobody}
    /\ password \in BOOLEAN
    /\ door \in [Accounts -> Found]
    /\ keys \in BOOLEAN
    /\ at \in {"session", "stopKeyring"} \cup Starting => who # Nobody
    /\ who # Nobody => at \in {"stopUi", "stopCompositor", "session", "stopKeyring"}
                               \cup Starting

(* The seat as the people at it see it; see Seat.  "The session's           *)
(* compositor cannot acquire either" of display and seat while the          *)
(* greeter's runs (session.rs:507), however it ignores being asked to go.   *)
Holder ==
    IF child["session"] = "running" THEN who
    ELSE IF child["compositor"] = "running" THEN Greeter
    ELSE Nobody

Admitted == IF at \in {"session", "stopKeyring"} THEN Nobody ELSE who

Shared == INSTANCE Seat WITH holder <- Holder, admitted <- Admitted

SeatSpec == Shared!Spec

(* The UI is pointed at a socket of the compositor that was started for it  *)
(* (session.rs:464), never at one that an earlier compositor left.          *)
OwnDisplay ==
    at \in {"spawnUi", "accepting"} => sockets[display] # "stale"

(* "That memory has to die with the session" (main.rs:793): a keyring is    *)
(* open only by a password, and for the session of its owner; by the time   *)
(* of the next login screen its daemon is gone, whichever step failed.      *)
KeysDieWithSession ==
    /\ keys => password /\ at \in {"spawnSession", "session", "stopKeyring"}
    /\ child["keyring"] # "none"
           => at \in {"waitKeyring", "handoff", "spawnSession", "session",
                      "stopKeyring"}

(* "Returning to the login screen" (main.rs:188): however a session ends    *)
(* and whatever its children ignore, the login screen comes back, or the    *)
(* wait before the next try of it.                                          *)
ScreenReturns == at = "stopKeyring" ~> at \in {"accepting", "backoff"}
=============================================================================
