------------------------------ MODULE BioWatch ------------------------------
(***************************************************************************)
(* The conversations ravend holds with a sensor on behalf of a client:     *)
(* watches and enrolments (ravend/src/finger.rs, face.rs), the budget of   *)
(* misses an account has per sensor, and the thread that follows the       *)
(* client so that its going ends the conversation (bio.rs).  Each sensor   *)
(* has a daemon of its own that serves one connection at a time.           *)
(*                                                                         *)
(* What the sensor sees is a choice.  Time is left out but for a budget's  *)
(* growing old and a watch's having run for long.                          *)
(***************************************************************************)
EXTENDS Integers, FiniteSets

CONSTANTS Watches,     \* connections that may become a conversation
          Accounts,
          Account,     \* the account of each conversation
          MaxMisses,   \* MAX_MISSES, and Strikes.max
          MaxRebinds,  \* MAX_REBINDS
          Nobody, Elsewhere

Sensors == {"finger", "face"}

ASSUME WatchAssumption ==
    /\ IsFiniteSet(Watches)
    /\ Account \in [Watches -> Accounts]
    /\ MaxMisses \in Nat \ {0}
    /\ MaxRebinds \in Nat
    /\ Nobody \notin Watches
    /\ Elsewhere \notin Watches \cup {Nobody}

VARIABLES
    place,     \* where each conversation is
    task,      \* a watch or an enrolment
    sensor,    \* and of what
    strikes,   \* misses counted, per sensor and account
    aged,      \* counts whose last miss is STRIKES_LAST ago
    allowed,   \* the budget a watch read before it waited for the sensor
    misses,    \* misses of the present `Sensor::watch`
    rebinds,   \* failures in a row
    served,    \* whom each sensor's daemon serves
    handle,    \* Follow.hangup is a handle on the present connection
    cut,       \* that connection has been shut down by the follower
    follower,  \* where the thread that follows the client is
    gone,      \* Follow.gone
    hung       \* the client has gone

talk == <<place, task, sensor, allowed, misses, rebinds>>
counts == <<strikes, aged>>
follow == <<handle, cut, follower, gone, hung>>
vars == <<talk, counts, served, follow>>

-----------------------------------------------------------------------------

Least(a, b) == IF a < b THEN a ELSE b

Places == {"idle", "budget", "waiting", "attaching", "attached", "sensing",
           "admitting"}

(* Where a conversation has a connection that is being served. *)
Connected == {"attaching", "attached", "sensing", "admitting"}

Goto(w, where) == place' = [place EXCEPT ![w] = where]

(* The end of a conversation: the sensor's connection is dropped, and the  *)
(* client's is shut down.  The follower is woken by that, if by nothing    *)
(* else, and has nothing left to do; the locals are gone.                  *)
Over(w) ==
    /\ Goto(w, "idle")
    /\ task' = [task EXCEPT ![w] = "none"]
    /\ sensor' = [sensor EXCEPT ![w] = "none"]
    /\ allowed' = [allowed EXCEPT ![w] = 0]
    /\ misses' = [misses EXCEPT ![w] = 0]
    /\ rebinds' = [rebinds EXCEPT ![w] = 0]
    /\ served' = [served EXCEPT ![sensor[w]] = IF @ = w THEN Nobody ELSE @]
    /\ handle' = [handle EXCEPT ![w] = FALSE]
    /\ cut' = [cut EXCEPT ![w] = FALSE]
    /\ follower' = [follower EXCEPT ![w] = "none"]
    /\ gone' = [gone EXCEPT ![w] = FALSE]
    /\ hung' = [hung EXCEPT ![w] = FALSE]

StrikesOf(w) == strikes[sensor[w]][Account[w]]

AgedOf(w) == aged[sensor[w]][Account[w]]

Strike(w) ==
    /\ strikes' = [strikes EXCEPT ![sensor[w]][Account[w]] = Least(@ + 1, 255)]
    /\ aged' = [aged EXCEPT ![sensor[w]][Account[w]] = FALSE]

Clear(s, account) ==
    /\ strikes' = [strikes EXCEPT ![s][account] = 0]
    /\ aged' = [aged EXCEPT ![s][account] = FALSE]

Init ==
    /\ place = [w \in Watches |-> "idle"]
    /\ task = [w \in Watches |-> "none"]
    /\ sensor = [w \in Watches |-> "none"]
    /\ strikes = [s \in Sensors |-> [a \in Accounts |-> 0]]
    /\ aged = [s \in Sensors |-> [a \in Accounts |-> FALSE]]
    /\ allowed = [w \in Watches |-> 0]
    /\ misses = [w \in Watches |-> 0]
    /\ rebinds = [w \in Watches |-> 0]
    /\ served = [s \in Sensors |-> Nobody]
    /\ handle = [w \in Watches |-> FALSE]
    /\ cut = [w \in Watches |-> FALSE]
    /\ follower = [w \in Watches |-> "none"]
    /\ gone = [w \in Watches |-> FALSE]
    /\ hung = [w \in Watches |-> FALSE]

-----------------------------------------------------------------------------
(* The rest of the world.                                                  *)

(* A client goes, or says something, which comes to the same. *)
ClientGoes(w) ==
    /\ place[w] # "idle"
    /\ ~hung[w]
    /\ hung' = [hung EXCEPT ![w] = TRUE]
    /\ UNCHANGED <<talk, counts, served, handle, cut, follower, gone>>

(* `password_succeeded`, from either socket: both counts are cleared. *)
PasswordSucceeds(a) ==
    /\ strikes' = [s \in Sensors |-> [strikes[s] EXCEPT ![a] = 0]]
    /\ aged' = [s \in Sensors |-> [aged[s] EXCEPT ![a] = FALSE]]
    /\ UNCHANGED <<talk, served, follow>>

(* Fifteen minutes without a miss. *)
Age(s, a) ==
    /\ strikes[s][a] > 0
    /\ aged' = [aged EXCEPT ![s][a] = TRUE]
    /\ UNCHANGED <<talk, strikes, served, follow>>

(* sudo's helper, a status query or another program has the daemon. *)
TakenElsewhere(s) ==
    /\ served[s] \in {Nobody, Elsewhere}
    /\ served' = [served EXCEPT ![s] = IF @ = Nobody THEN Elsewhere ELSE Nobody]
    /\ UNCHANGED <<talk, counts, follow>>

-----------------------------------------------------------------------------
(* The thread that follows the client.                                     *)

(* Its read returns: anything ends the conversation. *)
FollowerFlags(w) ==
    /\ follower[w] = "reading"
    /\ hung[w]
    /\ follower' = [follower EXCEPT ![w] = "flagged"]
    /\ gone' = [gone EXCEPT ![w] = TRUE]
    /\ UNCHANGED <<talk, counts, served, handle, cut, hung>>

(* Mutant of FollowerShuts: the flag is all there is. *)
FollowerShutsNothing(w) ==
    /\ follower[w] = "flagged"
    /\ follower' = [follower EXCEPT ![w] = "done"]
    /\ UNCHANGED <<talk, counts, served, handle, cut, gone, hung>>

(* Then it shuts the sensor connection down, if there is one by then. *)
FollowerShuts(w) ==
    /\ follower[w] = "flagged"
    /\ follower' = [follower EXCEPT ![w] = "done"]
    /\ cut' = [cut EXCEPT ![w] = handle[w]]
    /\ UNCHANGED <<talk, counts, served, handle, gone, hung>>

-----------------------------------------------------------------------------
(* A conversation.                                                         *)

(* A watch.  One whose use is switched off, or that nobody can follow, is  *)
(* over before it is anything.                                             *)
StartWatch(w, s) ==
    /\ place[w] = "idle"
    /\ Goto(w, "budget")
    /\ task' = [task EXCEPT ![w] = "watch"]
    /\ sensor' = [sensor EXCEPT ![w] = s]
    /\ follower' = [follower EXCEPT ![w] = "reading"]
    /\ UNCHANGED <<allowed, misses, rebinds, counts, served, handle, cut, gone, hung>>

(* An enrolment, its password having been checked, tries the sensor once.  *)
StartEnrol(w, s) ==
    /\ place[w] = "idle"
    /\ Goto(w, "waiting")
    /\ task' = [task EXCEPT ![w] = "enrol"]
    /\ sensor' = [sensor EXCEPT ![w] = s]
    /\ UNCHANGED <<allowed, misses, rebinds, counts, served, follow>>

(* Mutant of ReadBudget: every watch starts with a whole budget. *)
ReadBudgetWhole(w) ==
    /\ place[w] = "budget"
    /\ Goto(w, "waiting")
    /\ allowed' = [allowed EXCEPT ![w] = MaxMisses]
    /\ UNCHANGED <<task, sensor, misses, rebinds, counts, served, follow>>

(* `Strikes::left`: an old count is forgotten; a spent one ends the watch. *)
ReadBudget(w) ==
    /\ place[w] = "budget"
    /\ \/ /\ AgedOf(w)
          /\ Clear(sensor[w], Account[w])
          /\ allowed' = [allowed EXCEPT ![w] = MaxMisses]
       \/ /\ ~AgedOf(w)
          /\ StrikesOf(w) < MaxMisses
          /\ allowed' = [allowed EXCEPT ![w] = MaxMisses - StrikesOf(w)]
          /\ UNCHANGED counts
    /\ Goto(w, "waiting")
    /\ UNCHANGED <<task, sensor, misses, rebinds, served, follow>>

BudgetSpent(w) ==
    /\ place[w] = "budget"
    /\ ~AgedOf(w)
    /\ StrikesOf(w) >= MaxMisses
    /\ Over(w)
    /\ UNCHANGED counts

(* The daemon serves this connection, and the account has something        *)
(* enrolled, or is about to; an enrolment starts its follower only now.    *)
Ready(w) ==
    /\ place[w] = "waiting"
    /\ served[sensor[w]] = Nobody
    /\ served' = [served EXCEPT ![sensor[w]] = w]
    /\ Goto(w, "attaching")
    /\ follower' = [follower EXCEPT ![w] = IF @ = "none" THEN "reading" ELSE @]
    /\ UNCHANGED <<task, sensor, allowed, misses, rebinds, counts,
                   handle, cut, gone, hung>>

(* Nothing enrolled, no service or no device by the deadline, the client   *)
(* seen to have gone between two tries, no room for another face, no more  *)
(* descriptors.                                                            *)
Unavailable(w) == place[w] = "waiting" /\ Over(w) /\ UNCHANGED counts

(* Follow::attach, first half: the handle is stored. *)
AttachStore(w) ==
    /\ place[w] = "attaching"
    /\ Goto(w, "attached")
    /\ handle' = [handle EXCEPT ![w] = TRUE]
    /\ UNCHANGED <<task, sensor, allowed, misses, rebinds, counts, served,
                   cut, follower, gone, hung>>

(* Mutant of AttachCheck: the client is not looked for again. *)
AttachUnchecked(w) ==
    /\ place[w] = "attached"
    /\ Goto(w, "sensing")
    /\ misses' = [misses EXCEPT ![w] = 0]
    /\ UNCHANGED <<task, sensor, allowed, rebinds, counts, served, follow>>

(* Second half: "a hang-up racing this either sees the handle and shuts it *)
(* or is seen here".                                                       *)
AttachCheck(w) ==
    /\ place[w] = "attached"
    /\ \/ gone[w] /\ Over(w)
       \/ /\ ~gone[w]
          /\ Goto(w, "sensing")
          /\ misses' = [misses EXCEPT ![w] = 0]
          /\ UNCHANGED <<task, sensor, allowed, rebinds, served, follow>>
    /\ UNCHANGED counts

Watching(w) == place[w] = "sensing" /\ task[w] = "watch"

(* A clean reading that is not this account's, or a spoofed face. *)
Miss(w) ==
    /\ Watching(w)
    /\ ~cut[w]
    /\ Strike(w)
    /\ \/ misses[w] + 1 >= allowed[w] /\ Over(w)
       \/ /\ misses[w] + 1 < allowed[w]
          /\ misses' = [misses EXCEPT ![w] = @ + 1]
          /\ UNCHANGED <<place, task, sensor, allowed, rebinds, served, follow>>

Match(w) ==
    /\ Watching(w)
    /\ ~cut[w]
    /\ Goto(w, "admitting")
    /\ UNCHANGED <<task, sensor, allowed, misses, rebinds, counts, served, follow>>

(* bio::admit: the account may come in and the claim is won, and the count *)
(* of the sensor that matched is cleared; or not.                          *)
Admit(w) ==
    /\ place[w] = "admitting"
    /\ Clear(sensor[w], Account[w]) \/ UNCHANGED counts
    /\ Over(w)

(* An enrolment succeeds, or fails for a reason of the sensor's. *)
EnrolEnds(w) ==
    /\ place[w] = "sensing"
    /\ task[w] = "enrol"
    /\ Over(w)
    /\ UNCHANGED counts

(* The follower's shutdown is seen as a close. *)
Cancelled(w) == place[w] = "sensing" /\ cut[w] /\ Over(w) /\ UNCHANGED counts

(* What a failed watch leaves when it is tried again: the handle in Follow *)
(* is on a dead connection.                                                *)
Rebind(w, failures) ==
    /\ Goto(w, "budget")
    /\ rebinds' = [rebinds EXCEPT ![w] = failures]
    /\ served' = [served EXCEPT ![sensor[w]] = Nobody]
    /\ handle' = [handle EXCEPT ![w] = FALSE]
    /\ UNCHANGED <<task, sensor, allowed, misses, cut, follower, gone, hung>>

(* Mutants of SensorFails: one more try than there should be; the old      *)
(* connection is kept while another is waited for.                         *)
SensorFailsOneMore(w) ==
    /\ Watching(w)
    /\ IF rebinds[w] > MaxRebinds THEN Over(w) ELSE Rebind(w, rebinds[w] + 1)
    /\ UNCHANGED counts

SensorFailsKeeps(w) ==
    /\ Watching(w)
    /\ rebinds[w] < MaxRebinds
    /\ Goto(w, "budget")
    /\ rebinds' = [rebinds EXCEPT ![w] = @ + 1]
    /\ UNCHANGED <<task, sensor, allowed, misses, counts, served, follow>>

(* The sensor or its daemon goes away under a watch, which may have run    *)
(* for long; a close is the end if the client is known to have gone.       *)
SensorFails(w) ==
    /\ Watching(w)
    /\ \/ gone[w] /\ Over(w)
       \/ \E sofar \in {rebinds[w], 0} :
             IF sofar + 1 > MaxRebinds THEN Over(w) ELSE Rebind(w, sofar + 1)
    /\ UNCHANGED counts

-----------------------------------------------------------------------------

World ==
    \/ \E w \in Watches : ClientGoes(w)
    \/ \E a \in Accounts : PasswordSucceeds(a)
    \/ \E s \in Sensors, a \in Accounts : Age(s, a)
    \/ \E s \in Sensors : TakenElsewhere(s)

Follower(w) == FollowerFlags(w) \/ FollowerShuts(w)

(* What a conversation does without the sensor's doing anything. *)
Proceed(w) ==
    \/ ReadBudget(w)
    \/ BudgetSpent(w)
    \/ AttachStore(w)
    \/ AttachCheck(w)
    \/ Admit(w)
    \/ Cancelled(w)

Converse(w) ==
    \/ \E s \in Sensors : StartWatch(w, s) \/ StartEnrol(w, s)
    \/ Proceed(w)
    \/ Ready(w)
    \/ Unavailable(w)
    \/ Miss(w)
    \/ Match(w)
    \/ EnrolEnds(w)
    \/ SensorFails(w)

Next == World \/ \E w \in Watches : Follower(w) \/ Converse(w)

Spec == Init /\ [][Next]_vars

(* Threads run on.  Waiting for the sensor has a deadline, so it ends one  *)
(* way or the other.  Nothing is assumed of the client or the sensor.      *)
Fairness ==
    \A w \in Watches :
        /\ WF_vars(Follower(w))
        /\ WF_vars(Proceed(w))
        /\ WF_vars(Ready(w) \/ Unavailable(w))

FairSpec == Spec /\ Fairness

-----------------------------------------------------------------------------

(* The type invariant of the conversations' state. *)
TypeOK ==
    /\ place \in [Watches -> Places]
    /\ task \in [Watches -> {"none", "watch", "enrol"}]
    /\ sensor \in [Watches -> Sensors \cup {"none"}]
    /\ strikes \in [Sensors -> [Accounts -> 0 .. 255]]
    /\ aged \in [Sensors -> [Accounts -> BOOLEAN]]
    /\ allowed \in [Watches -> 0 .. MaxMisses]
    /\ misses \in [Watches -> 0 .. MaxMisses]
    /\ rebinds \in [Watches -> 0 .. MaxRebinds]
    /\ served \in [Sensors -> Watches \cup {Nobody, Elsewhere}]
    /\ handle \in [Watches -> BOOLEAN]
    /\ cut \in [Watches -> BOOLEAN]
    /\ follower \in [Watches -> {"none", "reading", "flagged", "done"}]
    /\ gone \in [Watches -> BOOLEAN]
    /\ hung \in [Watches -> BOOLEAN]

(* Whoever waits on the sensor will be woken when its client goes: there   *)
(* is no order of hang-up and attaching in which a follower has done its   *)
(* work and the connection is still being watched (bio.rs:167).            *)
NeverDeaf ==
    \A w \in Watches : place[w] = "sensing" /\ follower[w] = "done" => cut[w]

(* A sensor answers one conversation at a time, and only one that has not  *)
(* ended: no way out keeps the connection (sensor.rs:13).                  *)
OneServed ==
    \A w \in Watches, s \in Sensors :
        served[s] = w <=> place[w] \in Connected /\ sensor[w] = s

(* The conversations of an account that can be open at a time bound its    *)
(* misses since its count was last cleared: by a right password, by a      *)
(* match of that sensor, or by a watch that reads its budget over fifteen  *)
(* minutes after the last miss (bio.rs:94).  So it is no bound on all the  *)
(* misses there ever are, and not the one of bio.rs:12, "counted across    *)
(* watches so that a client cannot buy three more by reconnecting", nor    *)
(* of bio.rs:74, where a new watch "gets only what is left": that is so    *)
(* of watches one after the other, but those that wait side by side have   *)
(* each read its budget before the others spent any (finger.rs:322).  What *)
(* holds is one budget for each; none starts once a budget is spent.       *)
MissesBounded ==
    \A s \in Sensors, a \in Accounts :
        strikes[s][a] <= MaxMisses * Cardinality({w \in Watches : Account[w] = a})

(* A conversation whose client has gone ends. *)
GoneIsOver == \A w \in Watches : hung[w] ~> ~hung[w]
=============================================================================
