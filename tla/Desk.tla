-------------------------------- MODULE Desk --------------------------------
(***************************************************************************)
(* One sensor of the machine and those who use it, or its switches:        *)
(*                                                                         *)
(*   - the threads of the verify socket that answer a settings panel:      *)
(*     switches, enrolling and forgetting (ravend's verify.rs, finger.rs   *)
(*     and face.rs);                                                       *)
(*   - the helper that sudo runs (raven-finger-auth), reader only;         *)
(*   - the service that has the sensor, which takes one connection at a    *)
(*     time and leaves the others in its backlog.                          *)
(*                                                                         *)
(* The reader and the camera share nothing but the throttle of the         *)
(* passwords, which VerifySocket models, so a behaviour has one of them.   *)
(* A save or a removal of the switches is one step here; PolicyFile has    *)
(* the steps of it.                                                        *)
(***************************************************************************)
EXTENDS SensorLines, FiniteSets

CONSTANTS Threads,
          Uses,        \* what a switch allows; "sudo" is one
          MaxOrphans   \* bound on the requests nobody waits for any more

ASSUME DeskAssumption ==
    /\ "sudo" \in Uses
    /\ MaxOrphans \in Nat
    /\ \A x \in {Nobody, "helper"} : x \notin Threads

VARIABLES sensor,   \* which one it is
          stored,   \* the records the service has
          policy,   \* the switches on file, of each account
          holder,   \* whose connection the service has accepted
          orphans,  \* removals sent by somebody who has stopped waiting
          task,     \* the request each thread is about
          helper,   \* the process sudo has run
          echo,     \* the terminal shows what is typed
          blessed,  \* history: uses saved by somebody who knew the password
          old,      \* history: switches older than the last record's going
          excused,  \* history: why it may keep those: a removal that went
                    \* wrong or was somebody else's, or a late save
          late      \* history: threads that are to save switches allowed,
                    \* without a password, by those from before

desk == <<sensor, stored, policy, holder, orphans>>
past == <<blessed, old, excused, late>>
vars == <<desk, task, helper, echo, past>>

-----------------------------------------------------------------------------
Names == Known \cup Odd
All == "all"  \* in place of the name of a record to forget

Idle == [at |-> "idle", account |-> Nobody, want |-> {}, name |-> All,
         proved |-> FALSE]

Tasks == [at : {"idle", "loaded", "saving", "asked", "listing", "clearing",
                "connecting", "enrolling"},
          account : Accounts \cup {Nobody}, want : SUBSET Uses,
          name : Names \cup {All}, proved : BOOLEAN]

NoHelper == [at |-> "none", account |-> Nobody, misses |-> 0,
             matched |-> Nobody, handler |-> FALSE, guard |-> FALSE]

(* "lost": it left the terminal silent, with what it had to restore it. *)
Helpers == [at : {"none", "permitted", "listed", "silent", "watching",
                  "verdict", "granted", "lost"},
            account : Accounts \cup {Nobody}, misses : 0..MaxMisses,
            matched : Accounts \cup {Nobody},
            handler : BOOLEAN,  \* a signal restores the terminal
            guard : BOOLEAN]    \* so does the end of the function

Requests == [account : Accounts, name : Names \cup {All}]

TypeOK ==
    /\ sensor \in Sensors
    /\ stored \subseteq Records
    /\ policy \in [Accounts -> SUBSET Uses]
    /\ blessed \in [Accounts -> SUBSET Uses]
    /\ holder \in Threads \cup {"helper", Nobody}
    /\ orphans \subseteq Requests /\ Cardinality(orphans) <= MaxOrphans
    /\ task \in [Threads -> Tasks]
    /\ helper \in Helpers
    /\ echo \in BOOLEAN
    /\ old \subseteq Accounts /\ excused \subseteq Accounts
    /\ late \subseteq Threads

(* A machine that nobody has used yet; the reader may have been. *)
Init ==
    /\ sensor \in Sensors
    /\ stored \in {{}} \cup {{r} : r \in {r \in Records :
                                sensor = "finger" /\ r.name \in Odd}}
    /\ policy = [a \in Accounts |-> {}]
    /\ holder = Nobody
    /\ orphans = {}
    /\ task = [t \in Threads |-> Idle]
    /\ helper = NoHelper
    /\ echo = TRUE
    /\ blessed = [a \in Accounts |-> {}]
    /\ old = {} /\ excused = {} /\ late = {}

-----------------------------------------------------------------------------
Become(t, at) == task' = [task EXCEPT ![t].at = at]
Done(t) == task' = [task EXCEPT ![t] = Idle]
Free == holder = Nobody

HasNone(account) == Listed(sensor, account, stored) = {}

(* Records go: of some accounts the last one, whose switches stay on file, *)
(* or with a thread that has compared with them and is about to save.      *)
Erase(gone) ==
    LET left == stored \ gone
        bare == {a \in Accounts : /\ ~ HasNone(a)
                                  /\ Listed(sensor, a, left) = {}}
    IN /\ stored' = left
       /\ old' = old \cup {a \in bare : policy[a] # {}}
       /\ late' = late \cup {t \in Threads : /\ task[t].at = "saving"
                                            /\ ~ task[t].proved
                                            /\ task[t].account \in bare}

-----------------------------------------------------------------------------
(***************************************************************************)
(* Switches.                                                               *)
(***************************************************************************)
(* Mutant of Widens: the question the other way round. *)
WidensBack(current, next) == \E use \in current : use \notin next

Widens(current, next) == \E use \in next : use \notin current

(* The file is loaded, and the password asked for if anything is new.      *)
SetPolicy(t, account, next) ==
    /\ task[t] = Idle
    /\ task' = [task EXCEPT ![t] =
                  [Idle EXCEPT !.at = IF Widens(policy[account], next)
                                      THEN "loaded" ELSE "saving",
                               !.account = account, !.want = next]]
    /\ late' = IF Widens(policy[account], next) \/ account \notin old
               THEN late ELSE late \cup {t}
    /\ UNCHANGED <<desk, helper, echo, blessed, old, excused>>

(* The password is right, and not throttled; or the request is refused, as *)
(* it is without one.                                                      *)
CheckPassword(t, right) ==
    /\ task[t].at = "loaded"
    /\ IF right
       THEN task' = [task EXCEPT ![t].at = IF task[t].name = All
                                           THEN "saving" ELSE "connecting",
                                 ![t].proved = TRUE]
       ELSE Done(t)
    /\ UNCHANGED <<desk, helper, echo, past>>

(* The whole file is replaced; the status that is answered then only reads *)
(* the file and asks the service.  A late save leaves the account with     *)
(* switches from before, which a removal under way is still to take.       *)
Save(t) ==
    LET account == task[t].account
        again == t \in late /\ task[t].want # {}
    IN
    /\ task[t].at = "saving"
    /\ policy' = [policy EXCEPT ![account] = task[t].want]
    /\ blessed' = [blessed EXCEPT ![account] =
                     IF task[t].proved THEN @ \cup task[t].want ELSE @]
    /\ old' = IF again THEN old \cup {account} ELSE old \ {account}
    /\ excused' = IF again THEN excused \cup ({account} \ old)
                  ELSE excused \ {account}
    /\ late' = late \ {t}
    /\ Done(t)
    /\ UNCHANGED <<sensor, stored, holder, orphans, helper, echo>>

SaveFails(t) ==
    /\ task[t].at = "saving"
    /\ Done(t)
    /\ late' = late \ {t}
    /\ UNCHANGED <<desk, helper, echo, blessed, old, excused>>

-----------------------------------------------------------------------------
(***************************************************************************)
(* Forgetting.                                                             *)
(***************************************************************************)
(* One record by its name, or all; the line is sent at once, and waits in  *)
(* the backlog with the connection.                                        *)
Forget(t, account, name) ==
    /\ task[t] = Idle
    /\ task' = [task EXCEPT ![t] = [Idle EXCEPT !.at = "asked",
                                    !.account = account, !.name = name]]
    /\ UNCHANGED <<desk, helper, echo, past>>

ForgetAnswered(t, line) ==
    LET account == task[t].account
        gone == Erased(sensor, account, task[t].name, stored)
    IN /\ task[t].at = "asked"
       /\ Free
       /\ IF ForgetSays(line) = "done"
          THEN /\ Erase(gone)
               /\ excused' = {a \in excused \cup (old' \ old) :
                                a = account => Listed(sensor, a, stored') # {}}
               /\ holder' = t
               /\ task' = [task EXCEPT ![t].at = "listing", ![t].name = All]
          ELSE /\ Done(t)
               /\ UNCHANGED <<stored, old, excused, late, holder>>
       /\ UNCHANGED <<sensor, policy, orphans, helper, echo, blessed>>

(* No answer in QUICK, or the connection breaks: the request is given up   *)
(* on, though the service may still have the line.                         *)
ForgetGivenUp(t, heard) ==
    /\ task[t].at = "asked"
    /\ heard => Cardinality(orphans) < MaxOrphans
    /\ Done(t)
    /\ orphans' = IF heard
                  THEN orphans \cup {[account |-> task[t].account,
                                      name |-> task[t].name]}
                  ELSE orphans
    /\ UNCHANGED <<sensor, stored, policy, holder, helper, echo, past>>

(* Mutant of List: the connection is closed before the switches go. *)
ListLetsGo(t, listed) ==
    LET none == listed /\ HasNone(task[t].account) IN
    /\ task[t].at = "listing"
    /\ IF none THEN Become(t, "clearing") ELSE Done(t)
    /\ holder' = Nobody
    /\ excused' = IF listed THEN excused
                  ELSE excused \cup (old \cap {task[t].account})
    /\ UNCHANGED <<sensor, stored, policy, orphans, helper, echo, blessed, old,
                   late>>

(* On the connection that has forgotten: with nothing left, the switches   *)
(* go.  A listing that fails counts as something left.                     *)
List(t, listed) ==
    LET none == listed /\ HasNone(task[t].account) IN
    /\ task[t].at = "listing"
    /\ IF none THEN Become(t, "clearing") ELSE Done(t)
    /\ holder' = IF none THEN t ELSE Nobody
    /\ excused' = IF listed THEN excused
                  ELSE excused \cup (old \cap {task[t].account})
    /\ UNCHANGED <<sensor, stored, policy, orphans, helper, echo, blessed, old,
                   late>>

Clear(t, removed) ==
    LET account == task[t].account IN
    /\ task[t].at = "clearing"
    /\ IF removed
       THEN /\ policy' = [policy EXCEPT ![account] = {}]
            /\ old' = old \ {account} /\ excused' = excused \ {account}
       ELSE /\ excused' = excused \cup (old \cap {account})
            /\ UNCHANGED <<policy, old>>
    /\ holder' = Nobody
    /\ Done(t)
    /\ UNCHANGED <<sensor, stored, orphans, helper, echo, blessed, late>>

(* The service reads a line nobody waits for an answer to, or not. *)
OrphanServed(request, obeyed) ==
    /\ Free
    /\ request \in orphans
    /\ orphans' = orphans \ {request}
    /\ IF obeyed
       THEN /\ Erase(Erased(sensor, request.account, request.name, stored))
            /\ excused' = excused \cup (old' \ old)
       ELSE UNCHANGED <<stored, old, excused, late>>
    /\ UNCHANGED <<sensor, policy, holder, task, helper, echo, blessed>>

-----------------------------------------------------------------------------
(***************************************************************************)
(* Enrolling.                                                              *)
(***************************************************************************)
(* The password comes first, whatever is already stored. *)
Enrol(t, account, name) ==
    /\ task[t] = Idle
    /\ task' = [task EXCEPT ![t] = [Idle EXCEPT !.at = "loaded",
                                    !.account = account, !.name = name]]
    /\ UNCHANGED <<desk, helper, echo, past>>

(* The service says it has a sensor, within QUICK, and is asked; or it is  *)
(* busy, broken or not there, or the client has hung up.                   *)
Connected(t, served) ==
    /\ task[t].at = "connecting"
    /\ served => Free
    /\ IF served THEN Become(t, "enrolling") ELSE Done(t)
    /\ holder' = IF served THEN t ELSE holder
    /\ UNCHANGED <<sensor, stored, policy, orphans, helper, echo, past>>

(* The reading is over: the last line is a verdict, or the client hangs    *)
(* up, as late perhaps as the service has stored the template.             *)
Enrolled(t, line, kept) ==
    /\ task[t].at = "enrolling"
    /\ EnrolSays(sensor, line) # "again"
    /\ EnrolSays(sensor, line) = "done" => kept
    /\ stored' = IF kept THEN stored \cup {[owner |-> task[t].account,
                                            name |-> task[t].name]}
                 ELSE stored
    /\ holder' = Nobody
    /\ Done(t)
    /\ UNCHANGED <<sensor, policy, orphans, helper, echo, past>>

-----------------------------------------------------------------------------
(***************************************************************************)
(* A finger in place of sudo's password.                                   *)
(***************************************************************************)
Helper(at) == helper' = [helper EXCEPT !.at = at]

Gone == helper.at \in {"none", "granted"}

Lost == [NoHelper EXCEPT !.at = "lost", !.handler = helper.handler,
                         !.guard = helper.guard]

(* The process ends; `restored` if it turns the echo on as it does. *)
Leaves(left, restored) ==
    /\ echo' = (echo \/ restored)
    /\ helper' = IF echo' THEN left ELSE Lost
    /\ holder' = IF holder = "helper" THEN Nobody ELSE holder

(* Mutant of SudoAsks: the switch is not looked at. *)
SudoAsksAnyway(account) ==
    /\ sensor = "finger"
    /\ Gone
    /\ helper' = [NoHelper EXCEPT !.at = "permitted", !.account = account]
    /\ UNCHANGED <<desk, task, echo, past>>

(* sudo runs the helper, as root and for an account that has the switch on. *)
SudoAsks(account) ==
    /\ sensor = "finger"
    /\ Gone
    /\ "sudo" \in policy[account]
    /\ helper' = [NoHelper EXCEPT !.at = "permitted", !.account = account]
    /\ UNCHANGED <<desk, task, echo, past>>

(* Local, interactive, on a terminal, with sudo still there, and listed by *)
(* the service within three seconds.                                       *)
FingersListed ==
    /\ helper.at = "permitted"
    /\ Free
    /\ ~ HasNone(helper.account)
    /\ Helper("listed")
    /\ holder' = "helper"
    /\ UNCHANGED <<sensor, stored, policy, orphans, task, echo, past>>

(* Or one of those is not so. *)
StepsAside ==
    /\ helper.at \in {"permitted", "listed"}
    /\ Leaves(NoHelper, FALSE)
    /\ UNCHANGED <<sensor, stored, policy, orphans, task, past>>

(* `Tty::quiet`: the echo is turned off, unless the terminal will not say  *)
(* how it is set, and then those who restore it are installed, each of     *)
(* which needs a descriptor it may not get.                                *)
Quiet(off) ==
    /\ helper.at = "listed"
    /\ Helper(IF off THEN "silent" ELSE "watching")
    /\ echo' = ~ off
    /\ UNCHANGED <<desk, task, past>>

GuardsInstalled(handler, guard) ==
    /\ helper.at = "silent"
    /\ helper' = [helper EXCEPT !.at = "watching", !.handler = handler,
                                !.guard = guard]
    /\ UNCHANGED <<desk, task, echo, past>>

(* A line of the service's; a match is of a record that it has. *)
Sensed(line) ==
    LET said == VerifySays(line, helper.account)
        misses == helper.misses + 1
    IN /\ helper.at = "watching"
       /\ line.word = "match" =>
             line.owner \in {r.owner : r \in stored} \cup {Nobody}
       /\ CASE said = "matched" ->
                 helper' = [helper EXCEPT !.at = "verdict",
                                          !.matched = line.owner]
            [] said = "missed" ->
                 IF misses >= MaxMisses THEN Helper("verdict")
                 ELSE helper' = [helper EXCEPT !.misses = misses]
            [] said = "failed" -> Helper("verdict")
            [] said = "again"  -> UNCHANGED helper
       /\ UNCHANGED <<desk, task, echo, past>>

(* Enter, no line in TIMEOUT, or the connection is closed. *)
WaitEnds ==
    /\ helper.at = "watching"
    /\ Helper("verdict")
    /\ UNCHANGED <<desk, task, echo, past>>

(* The function returns. *)
HelperEnds ==
    /\ helper.at = "verdict"
    /\ Leaves(IF helper.matched = Nobody THEN NoHelper
              ELSE [NoHelper EXCEPT !.at = "granted",
                                    !.account = helper.account,
                                    !.matched = helper.matched],
              helper.guard)
    /\ UNCHANGED <<sensor, stored, policy, orphans, task, past>>

(* Mutant of Signalled: the handler only leaves. *)
SignalledLeaves ==
    /\ helper.at \notin {"none", "granted", "lost"}
    /\ helper' = IF echo THEN NoHelper ELSE Lost
    /\ holder' = IF holder = "helper" THEN Nobody ELSE holder
    /\ UNCHANGED <<sensor, stored, policy, orphans, task, echo, past>>

(* sudo is gone, or somebody signals the helper: the handler restores the  *)
(* terminal, and without one the process just ends.                        *)
Signalled ==
    /\ helper.at \notin {"none", "granted", "lost"}
    /\ Leaves(NoHelper, helper.handler)
    /\ UNCHANGED <<sensor, stored, policy, orphans, task, past>>

-----------------------------------------------------------------------------
Settings(t) ==
    \/ \E account \in Accounts :
          \/ \E next \in SUBSET Uses : SetPolicy(t, account, next)
          \/ \E name \in Known : Enrol(t, account, name)
          \/ \E name \in Known \cup {All} : Forget(t, account, name)
    \/ \E yes \in BOOLEAN :
          \/ CheckPassword(t, yes) \/ ForgetGivenUp(t, yes) \/ List(t, yes)
          \/ Clear(t, yes) \/ Connected(t, yes)
          \/ \E line \in Lines : Enrolled(t, line, yes)
    \/ Save(t) \/ SaveFails(t)
    \/ \E line \in Lines : ForgetAnswered(t, line)

Sudo ==
    \/ \E account \in Accounts : SudoAsks(account)
    \/ FingersListed \/ StepsAside
    \/ \E off \in BOOLEAN : Quiet(off)
    \/ \E handler, guard \in BOOLEAN : GuardsInstalled(handler, guard)
    \/ \E line \in Lines : Sensed(line)
    \/ WaitEnds \/ HelperEnds \/ Signalled

Next ==
    \/ \E t \in Threads : Settings(t)
    \/ \E request \in orphans, obeyed \in BOOLEAN : OrphanServed(request, obeyed)
    \/ Sudo

Spec == Init /\ [][Next]_vars

-----------------------------------------------------------------------------
(* Whatever is switched on was once switched on with the password.  Two    *)
(* changes that load, compare and save at the same time may put back a     *)
(* switch the other has turned off (verify.rs:323), but no order of        *)
(* changes, removals and failures turns on one that never was.             *)
OnlyByPassword == \A a \in Accounts : policy[a] \subseteq blessed[a]

(* "re-enrolling one finger quietly brought back fingerprint sudo"         *)
(* (finger.rs:161): the first record after the last had gone does not find *)
(* switches from before, whoever enrols meanwhile.  Switches saved with    *)
(* the password, whenever it was given, are not from before.  The record   *)
(* does find old ones, against the comment, where                          *)
(*   - a removal was somebody else's clearing of the reader, or its        *)
(*     answer, its listing or the deletion of the file failed;             *)
(*   - a change that took no password, for it widened nothing, was         *)
(*     compared with the switches before they were removed and saved       *)
(*     after it (verify.rs:324, finger.rs:175).                            *)
ForgottenStaysOff ==
    [][\A a \in Accounts :
          HasNone(a) /\ Listed(sensor', a, stored') # {}
          => a \notin old \/ a \in excused]_vars

(* A finger stands in for sudo's password only by a switch that was once   *)
(* turned on with it, and only a finger of the account's own               *)
(* (raven-finger-auth.rs:128, sensor.rs:257).                              *)
SudoGoesBackToPassword ==
    helper.at = "granted" =>
        /\ helper.matched = helper.account
        /\ "sudo" \in blessed[helper.account]

(* "A Ctrl-C mid-wait must not leave the terminal silent afterwards"       *)
(* (raven-finger-auth.rs:391), and nothing else must: a helper that leaves *)
(* it so, however its wait ends, had not come to install its handler and   *)
(* its guard, or had no descriptor for one of them.                        *)
EchoComesBack ==
    /\ Gone => echo
    /\ helper.at = "lost" => ~ helper.handler \/ ~ helper.guard
=============================================================================
