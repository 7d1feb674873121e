------------------------------ MODULE GreetLoop ------------------------------
(***************************************************************************)
(* The login screen's side of ravend (ravend/src/main.rs): the supervising *)
(* accept loop of `accept_until_login`, one `serve` thread per greeter     *)
(* connection, the limiter they share under a mutex, the `granted` flag    *)
(* the first successful proof claims, and the channel a login travels      *)
(* through.  One greeting after another uses the same listening socket and *)
(* the same limiter.                                                       *)
(*                                                                         *)
(* The checks themselves are choices here: a password is right, wrong or   *)
(* cannot be checked; a sensor watch ends in a match or does not.          *)
(***************************************************************************)
EXTENDS RateLimit, Sequences, FiniteSets

CONSTANTS Conns,         \* connections the greeter may hold at a time
          Strangers,     \* those whose peer is neither the greeter nor root
          Accounts,
          MaxLive,       \* MAX_GREET_CONNECTIONS
          MaxClock,      \* bound on time
          MaxGreetings,  \* bound on greetings
          Nobody, Failed \* no connection; a greeting that failed

ASSUME GreetAssumption ==
    /\ Strangers \subseteq Conns
    /\ MaxLive \in Nat \ {0}
    /\ MaxClock \in Nat
    /\ MaxGreetings \in Nat \ {0}
    /\ Nobody \notin Conns \cup Accounts
    /\ Failed \notin Conns \cup {Nobody}

VARIABLES
    clock,     \* Instant::now()
    greeting,  \* how many times the accept loop has been entered
    sup,       \* where the accept loop is
    children,  \* which of the compositor and the UI are running
    outcome,   \* what this greeting's accept loop returned
    pc,        \* where each connection, and then its serve thread, is
    inbox,     \* the request a client has written and serve has not read
    hung,      \* connections one end has shut down
    job,       \* the account and the `now` of the request a thread works on
    holder,    \* the thread that holds the limiter's mutex
    winner,    \* the connection that set `granted`
    channel,   \* logins sent and not received
    records    \* the limiter's records

connVars == <<pc, inbox, hung, job>>
supVars  == <<greeting, sup, children, outcome>>
vars == <<clock, supVars, connVars, holder, winner, channel, records>>

-----------------------------------------------------------------------------

Requests == [kind : {"query", "authenticate", "watch"}, account : Accounts]
NoRequest == [kind |-> "none", account |-> Nobody]

NoJob == [account |-> Nobody, now |-> 0]

Logins == [by : Conns, account : Accounts]
Undecided == [by |-> Nobody, account |-> Nobody]
Failure == [by |-> Failed, account |-> Nobody]

Everything == {"compositor", "ui"}

(* Past read_message and not yet finished: what `live` counts. *)
Serving == {"reading", "queued", "checking", "replying", "granting",
            "watching", "admitted", "sending"}

(* Where an Authenticate owns the limiter. *)
Locked == {"checking", "replying", "granting"}

Open(c) == pc[c] \notin {"idle", "ended"}

live == Cardinality({c \in Conns : pc[c] \in Serving})

granted == winner # Nobody

Goto(c, place) == pc' = [pc EXCEPT ![c] = place]

(* The request is done with, and its locals are gone. *)
Finish(c, place) ==
    /\ Goto(c, place)
    /\ job' = [job EXCEPT ![c] = NoJob]

Init ==
    /\ clock = 0
    /\ greeting = 1
    /\ sup = "accept"
    /\ children = Everything
    /\ outcome = Undecided
    /\ pc = [c \in Conns |-> "idle"]
    /\ inbox = [c \in Conns |-> NoRequest]
    /\ hung = [c \in Conns |-> FALSE]
    /\ job = [c \in Conns |-> NoJob]
    /\ holder = Nobody
    /\ winner = Nobody
    /\ channel = <<>>
    /\ records = [a \in Accounts |-> NoRecord]

-----------------------------------------------------------------------------
(* The greeter, and time.                                                  *)

Tick ==
    /\ clock < MaxClock
    /\ clock' = clock + 1
    /\ UNCHANGED <<supVars, connVars, holder, winner, channel, records>>

Connect(c) ==
    /\ "ui" \in children
    /\ pc[c] = "idle"
    /\ Goto(c, "backlog")
    /\ UNCHANGED <<clock, supVars, inbox, hung, job,
                   holder, winner, channel, records>>

Send(c, request) ==
    /\ Open(c)
    /\ ~hung[c]
    /\ inbox[c] = NoRequest
    /\ inbox' = [inbox EXCEPT ![c] = request]
    /\ UNCHANGED <<clock, supVars, pc, hung, job,
                   holder, winner, channel, records>>

(* The greeter closes its end; what it had written can still be read. *)
HangUp(c) ==
    /\ Open(c)
    /\ ~hung[c]
    /\ hung' = [hung EXCEPT ![c] = TRUE]
    /\ UNCHANGED <<clock, supVars, pc, inbox, job,
                   holder, winner, channel, records>>

CompositorExits ==
    /\ "compositor" \in children
    /\ children' = children \ {"compositor"}
    /\ UNCHANGED <<clock, greeting, sup, outcome, connVars,
                   holder, winner, channel, records>>

UiExits ==
    /\ "ui" \in children
    /\ children' = children \ {"ui"}
    /\ hung' = [c \in Conns |-> hung[c] \/ Open(c)]
    /\ UNCHANGED <<clock, greeting, sup, outcome, pc, inbox, job,
                   holder, winner, channel, records>>

-----------------------------------------------------------------------------
(* The serve thread of one connection.                                     *)

(* The peer has closed, and everything it wrote has been read. *)
ReadClosed(c) ==
    /\ pc[c] = "reading"
    /\ hung[c]
    /\ inbox[c] = NoRequest
    /\ Goto(c, "ended")
    /\ UNCHANGED <<clock, supVars, inbox, hung, job,
                   holder, winner, channel, records>>

(* ListUsers, Wallpaper, and every request refused on this socket: one     *)
(* answer, nothing kept.  A failed write, an unreadable account database,  *)
(* or bytes that are no request end the thread.                            *)
ReadQuery(c) ==
    /\ pc[c] = "reading"
    /\ inbox[c].kind = "query"
    /\ inbox' = [inbox EXCEPT ![c] = NoRequest]
    /\ \/ ~hung[c] /\ Goto(c, "reading")
       \/ Goto(c, "ended")
    /\ UNCHANGED <<clock, supVars, hung, job,
                   holder, winner, channel, records>>

(* `now` is read here, before the mutex is waited for. *)
ReadAuthenticate(c) ==
    /\ pc[c] = "reading"
    /\ inbox[c].kind = "authenticate"
    /\ Goto(c, "queued")
    /\ inbox' = [inbox EXCEPT ![c] = NoRequest]
    /\ job' = [job EXCEPT ![c] = [account |-> inbox[c].account, now |-> clock]]
    /\ UNCHANGED <<clock, supVars, hung, holder, winner, channel, records>>

(* LoginByFinger and LoginByFace: the connection becomes the watch, unless *)
(* the account is not one the screen offers.                               *)
ReadWatch(c) ==
    /\ pc[c] = "reading"
    /\ inbox[c].kind = "watch"
    /\ inbox' = [inbox EXCEPT ![c] = NoRequest]
    /\ \/ /\ Goto(c, "watching")
          /\ job' = [job EXCEPT ![c].account = inbox[c].account]
       \/ Finish(c, "ended")
    /\ UNCHANGED <<clock, supVars, hung,
                   holder, winner, channel, records>>

(* Mutant of Throttle: the mutex is not kept for the attempt. *)
ThrottleUnlocked(c) ==
    /\ pc[c] = "queued"
    /\ holder = Nobody
    /\ Goto(c, IF DelayFor(records[job[c].account], job[c].now) = 0
               THEN "checking" ELSE "replying")
    /\ UNCHANGED <<clock, supVars, inbox, hung, job,
                   holder, winner, channel, records>>

(* The throttle, checked once the mutex is held. *)
Throttle(c) ==
    /\ pc[c] = "queued"
    /\ holder = Nobody
    /\ holder' = c
    /\ Goto(c, IF DelayFor(records[job[c].account], job[c].now) = 0
               THEN "checking" ELSE "replying")
    /\ UNCHANGED <<clock, supVars, inbox, hung, job,
                   winner, channel, records>>

(* Mutant of CheckGranted: `granted` is set, not claimed. *)
CheckGrantedUnclaimed(c) ==
    /\ pc[c] = "checking"
    /\ Goto(c, "granting")
    /\ winner' = c
    /\ records' = [records EXCEPT ![job[c].account] = RecordSuccess(@)]
    /\ UNCHANGED <<clock, supVars, inbox, hung, job, holder, channel>>

(* The password is right: the first to claim `granted` goes on, and any    *)
(* later one is told so.                                                   *)
CheckGranted(c) ==
    /\ pc[c] = "checking"
    /\ IF granted
       THEN /\ Goto(c, "replying")
            /\ UNCHANGED <<winner, records>>
       ELSE /\ Goto(c, "granting")
            /\ winner' = c
            /\ records' = [records EXCEPT ![job[c].account] = RecordSuccess(@)]
    /\ UNCHANGED <<clock, supVars, inbox, hung, job,
                   holder, channel>>

CheckDenied(c) ==
    /\ pc[c] = "checking"
    /\ Goto(c, "replying")
    /\ records' = [records EXCEPT ![job[c].account] = RecordFailure(@, job[c].now)]
    /\ UNCHANGED <<clock, supVars, inbox, hung, job,
                   holder, winner, channel>>

(* The account database cannot be read: nothing is recorded. *)
CheckFails(c) ==
    /\ pc[c] = "checking"
    /\ Goto(c, "replying")
    /\ UNCHANGED <<clock, supVars, inbox, hung, job,
                   holder, winner, channel, records>>

(* The answer to an attempt is written with the mutex held; a write that   *)
(* fails returns from serve, and drops the guard as well.                  *)
Reply(c) ==
    /\ pc[c] = "replying"
    /\ Finish(c, IF hung[c] THEN "ended" ELSE "reading")
    /\ holder' = Nobody
    /\ UNCHANGED <<clock, supVars, inbox, hung,
                   winner, channel, records>>

(* Mutant of ReplyGranted: the thread goes back to reading. *)
ReplyGrantedAndReads(c) ==
    /\ pc[c] = "granting"
    /\ Finish(c, IF hung[c] THEN "ended" ELSE "reading")
    /\ holder' = Nobody
    /\ UNCHANGED <<clock, supVars, inbox, hung, winner, channel, records>>

(* Another mutant: the attempt is forgotten before its login is built. *)
ReplyGrantedForgets(c) ==
    /\ pc[c] = "granting"
    /\ Finish(c, IF hung[c] THEN "ended" ELSE "sending")
    /\ holder' = Nobody
    /\ UNCHANGED <<clock, supVars, inbox, hung, winner, channel, records>>

(* The same write for a granted attempt: if it fails, `?` returns before   *)
(* the login does.                                                         *)
ReplyGranted(c) ==
    /\ pc[c] = "granting"
    /\ IF hung[c]
       THEN Finish(c, "ended")
       ELSE Goto(c, "sending") /\ UNCHANGED job
    /\ holder' = Nobody
    /\ UNCHANGED <<clock, supVars, inbox, hung,
                   winner, channel, records>>

(* No match, not admitted, cancelled, or no sensor. *)
WatchEnds(c) ==
    /\ pc[c] = "watching"
    /\ Finish(c, "ended")
    /\ UNCHANGED <<clock, supVars, inbox, hung,
                   holder, winner, channel, records>>

(* A match that is admitted: `bio::admit` claims, and ignores whether its  *)
(* answer could be written.                                                *)
WatchMatches(c) ==
    /\ pc[c] = "watching"
    /\ IF granted
       THEN Finish(c, "ended") /\ UNCHANGED winner
       ELSE Goto(c, "admitted") /\ winner' = c /\ UNCHANGED job
    /\ UNCHANGED <<clock, supVars, inbox, hung,
                   holder, channel, records>>

RecordWatch(c) ==
    /\ pc[c] = "admitted"
    /\ holder = Nobody
    /\ Goto(c, "sending")
    /\ records' = [records EXCEPT ![job[c].account] = RecordSuccess(@)]
    /\ UNCHANGED <<clock, supVars, inbox, hung, job,
                   holder, winner, channel>>

SendLogin(c) ==
    /\ pc[c] = "sending"
    /\ Finish(c, "ended")
    /\ channel' = Append(channel, [by |-> c, account |-> job[c].account])
    /\ UNCHANGED <<clock, supVars, inbox, hung,
                   holder, winner, records>>

-----------------------------------------------------------------------------
(* The accept loop, in the order of one turn of it.                        *)

(* A connection past the limit is dropped, and so is one whose stream      *)
(* cannot be cloned; a peer with the wrong credentials is refused by the   *)
(* first thing its thread does.                                            *)
Accept(c) ==
    /\ sup = "accept"
    /\ pc[c] = "backlog"
    /\ sup' = "receive"
    /\ \/ live < MaxLive /\ c \notin Strangers /\ Goto(c, "reading")
       \/ Goto(c, "ended")
    /\ UNCHANGED <<clock, greeting, children, outcome,
                   inbox, hung, job,
                   holder, winner, channel, records>>

AcceptNone ==
    /\ sup = "accept"
    /\ \A c \in Conns : pc[c] # "backlog"
    /\ sup' = "receive"
    /\ UNCHANGED <<clock, greeting, children, outcome, connVars,
                   holder, winner, channel, records>>

AcceptFails ==
    /\ sup = "accept"
    /\ sup' = "shut"
    /\ outcome' = Failure
    /\ UNCHANGED <<clock, greeting, children, connVars,
                   holder, winner, channel, records>>

Receive ==
    /\ sup = "receive"
    /\ IF channel # <<>>
       THEN /\ outcome' = Head(channel)
            /\ channel' = Tail(channel)
            /\ sup' = "shut"
       ELSE /\ sup' = "supervise"
            /\ UNCHANGED <<outcome, channel>>
    /\ UNCHANGED <<clock, greeting, children, connVars, holder, winner, records>>

(* A dead child ends the greeting; otherwise a minute may have passed      *)
(* since the last sweep, or not.                                           *)
Supervise ==
    /\ sup = "supervise"
    /\ IF children # Everything
       THEN sup' = "shut" /\ outcome' = Failure
       ELSE sup' \in {"sweep", "accept"} /\ UNCHANGED outcome
    /\ UNCHANGED <<clock, greeting, children, connVars,
                   holder, winner, channel, records>>

Sweep ==
    /\ sup = "sweep"
    /\ holder = Nobody
    /\ sup' = "accept"
    /\ records' = [a \in Accounts |-> ForgetOld(records[a], clock)]
    /\ UNCHANGED <<clock, greeting, children, outcome, connVars,
                   holder, winner, channel>>

(* Mutant of Shut: the connections are left as they are. *)
ShutNothing ==
    /\ sup = "shut"
    /\ sup' = "join"
    /\ UNCHANGED <<clock, greeting, children, outcome, connVars,
                   holder, winner, channel, records>>

(* `open` holds a handle on every connection this greeting accepted. *)
Shut ==
    /\ sup = "shut"
    /\ sup' = "join"
    /\ hung' = [c \in Conns |-> hung[c] \/ pc[c] \in Serving]
    /\ UNCHANGED <<clock, greeting, children, outcome,
                   pc, inbox, job,
                   holder, winner, channel, records>>

(* The scope has joined its threads; greet stops the UI and the            *)
(* compositor, which closes the greeter's ends.                            *)
Join ==
    /\ sup = "join"
    /\ \A c \in Conns : pc[c] \notin Serving
    /\ sup' = "over"
    /\ children' = {}
    /\ hung' = [c \in Conns |-> hung[c] \/ Open(c)]
    /\ UNCHANGED <<clock, greeting, outcome, pc, inbox, job,
                   holder, winner, channel, records>>

(* run comes round again, after the session or the backoff: fresh mutex,   *)
(* flag, channel and children, the old listener and the old limiter.  What *)
(* waits in the listener's backlog waits on.                               *)
Greet ==
    LET kept == {c \in Conns : pc[c] = "backlog"}
    IN  /\ sup = "over"
        /\ greeting < MaxGreetings
        /\ greeting' = greeting + 1
        /\ sup' = "accept"
        /\ children' = Everything
        /\ outcome' = Undecided
        /\ holder' = Nobody
        /\ winner' = Nobody
        /\ channel' = <<>>
        /\ pc' = [c \in Conns |-> IF c \in kept THEN pc[c] ELSE "idle"]
        /\ inbox' = [c \in Conns |-> IF c \in kept THEN inbox[c] ELSE NoRequest]
        /\ hung' = [c \in Conns |-> c \in kept /\ hung[c]]
        /\ job' = [c \in Conns |-> NoJob]
        /\ UNCHANGED <<clock, records>>

-----------------------------------------------------------------------------

Greeter ==
    \/ \E c \in Conns : Connect(c) \/ HangUp(c)
    \/ \E c \in Conns, request \in Requests : Send(c, request)
    \/ CompositorExits
    \/ UiExits

Answer(c) == Reply(c) \/ ReplyGranted(c)

Read(c) ==
    \/ ReadClosed(c)
    \/ ReadQuery(c)
    \/ ReadAuthenticate(c)
    \/ ReadWatch(c)

Check(c) == CheckGranted(c) \/ CheckDenied(c) \/ CheckFails(c)

Serve(c) ==
    \/ Read(c)
    \/ Throttle(c)
    \/ Check(c)
    \/ Answer(c)
    \/ WatchEnds(c)
    \/ WatchMatches(c)
    \/ RecordWatch(c)
    \/ SendLogin(c)

AcceptLoop ==
    \/ \E c \in Conns : Accept(c)
    \/ AcceptNone
    \/ AcceptFails
    \/ Receive
    \/ Supervise
    \/ Sweep
    \/ Shut
    \/ Join

(* Nothing happens after the last greeting. *)
Done == sup = "over" /\ greeting = MaxGreetings /\ UNCHANGED vars

Next ==
    \/ Tick
    \/ Greeter
    \/ \E c \in Conns : Serve(c)
    \/ AcceptLoop
    \/ Greet
    \/ Done

Spec == Init /\ [][Next]_vars

(***************************************************************************)
(* Fairness.  The accept loop polls and never waits for a client, and a    *)
(* thread that is neither reading nor watching runs on; a watch whose      *)
(* client has gone is cancelled (`bio::follow_client`).  A step that takes *)
(* the mutex is fair in the strong sense: the mutex is released between    *)
(* any two attempts, each of which has to come through a socket first, and *)
(* releasing it wakes a waiter.  No fairness on the greeter, on time, on   *)
(* matches or on failures.                                                 *)
(***************************************************************************)
LoopStep ==
    \/ \E c \in Conns : Accept(c)
    \/ AcceptNone
    \/ Receive
    \/ Supervise
    \/ Shut
    \/ Join

ThreadStep(c) ==
    \/ Read(c)
    \/ Check(c)
    \/ Answer(c)
    \/ hung[c] /\ WatchEnds(c)
    \/ SendLogin(c)

TakeMutex(c) == Throttle(c) \/ RecordWatch(c)

Fairness ==
    /\ WF_vars(LoopStep)
    /\ SF_vars(Sweep)
    /\ \A c \in Conns : WF_vars(ThreadStep(c)) /\ SF_vars(TakeMutex(c))

FairSpec == Spec /\ Fairness

-----------------------------------------------------------------------------

(* The type invariant of the greeting's state. *)
TypeOK ==
    /\ clock \in 0 .. MaxClock
    /\ greeting \in 1 .. MaxGreetings
    /\ sup \in {"accept", "receive", "supervise", "sweep", "shut", "join", "over"}
    /\ children \subseteq Everything
    /\ outcome \in Logins \cup {Undecided, Failure}
    /\ pc \in [Conns -> Serving \cup {"idle", "backlog", "ended"}]
    /\ inbox \in [Conns -> Requests \cup {NoRequest}]
    /\ hung \in [Conns -> BOOLEAN]
    /\ job \in [Conns -> [account : Accounts \cup {Nobody}, now : 0 .. MaxClock]]
    /\ holder \in Conns \cup {Nobody}
    /\ winner \in Conns \cup {Nobody}
    /\ channel \in Seq(Logins)
    /\ records \in [Accounts -> Record]

(* A password is only ever checked while its account's throttle is open,   *)
(* as the records stand during the check and not only as they stood when   *)
(* the throttle was read ("so that a second connection cannot slip an      *)
(* attempt in between", main.rs:682).                                      *)
ThrottleStillOpen ==
    \A c \in Conns :
        pc[c] = "checking" => DelayFor(records[job[c].account], job[c].now) = 0

Claimed == {"granting", "admitted", "sending"}

(* At most one login of a greeting is on its way, in the channel or        *)
(* returned, wherever the password and the two sensors' watches stand      *)
(* ("exactly one connection can win", main.rs:389).                        *)
OneLogin ==
    /\ \A c, d \in Conns : pc[c] \in Claimed /\ pc[d] \in Claimed => c = d
    /\ (\E c \in Conns : pc[c] \in Claimed) => channel = <<>> /\ outcome \notin Logins
    /\ Len(channel) <= 1
    /\ outcome \in Logins => channel = <<>>

(* A failure that follows penalised failures is counted from an attempt    *)
(* made at least the whole penalty after the last of them.                 *)
PenaltiesArePaid ==
    [][\A a \in Accounts :
          /\ records'[a].failures > records[a].failures
          /\ records[a].failures > FreeAttempts
          => Monus(records'[a].last, records[a].last)
                 >= Required(records[a].failures)]_vars

(* The end of a greeting wakes every thread, so the scope always joins     *)
(* ("Wake every connection thread ... so the scope can end", main.rs:474). *)
ShutdownCompletes == (sup = "shut") ~> (sup = "over")

(* A claim decides the greeting, unless the client that made it hangs up.  *)
ClaimDecides ==
    \A c \in Conns : (winner = c) ~> (outcome # Undecided \/ hung[c])

(* What the accept loop promises its caller; see LoginRace. *)
Race == INSTANCE LoginRace WITH outcome <- outcome.by

RaceSpec == Race!Spec
=============================================================================
