---------------------------- MODULE VerifySocket ----------------------------
(***************************************************************************)
(* The lock screen's socket (ravend/src/verify.rs): the accept loop with   *)
(* its count of connections, one `serve` thread per connection, and a      *)
(* limiter whose mutex is taken for each look at it and for each record,   *)
(* but is free while the password is checked.  A connection speaks for the *)
(* one account that owns its process.                                      *)
(*                                                                         *)
(* A request is read in the step that writes it: what is left to a thread  *)
(* whose client has gone is the same either way.                           *)
(***************************************************************************)
EXTENDS RateLimit, FiniteSets

CONSTANTS Conns,
          Accounts,
          Owner,           \* the account behind each connection
          MaxConnections,  \* MAX_CONNECTIONS
          MaxClock,        \* bound on time
          Nobody

ASSUME VerifyAssumption ==
    /\ IsFiniteSet(Conns)
    /\ Owner \in [Conns -> Accounts]
    /\ MaxConnections \in Nat \ {0}
    /\ MaxClock \in Nat
    /\ Nobody \notin Conns

VARIABLES
    clock,    \* Instant::now()
    door,     \* where the accept loop is
    guest,    \* the connection it is letting in
    live,     \* the AtomicUsize
    pc,       \* where each connection, and then its thread, is
    hung,     \* connections whose client has closed its end
    asked,    \* what a thread checks a password for, and its `now`
    records   \* the limiter's records

vars == <<clock, door, guest, live, pc, hung, asked, records>>

-----------------------------------------------------------------------------

(* What a right password is followed by: an answer on the same connection, *)
(* as for Verify and the two policies, or an enrolment that ends it.       *)
Purposes == {"answer", "enrol"}

NotAsked == [for |-> "nothing", now |-> 0]

(* From the spawning of the thread to its last statement. *)
Threads == {"starting", "reading", "throttled", "checking", "replying",
            "enrolling", "watching", "matched", "closing"}

Serving == {c \in Conns : pc[c] \in Threads}

Goto(c, place) == pc' = [pc EXCEPT ![c] = place]

Answered(c, place) ==
    /\ Goto(c, place)
    /\ asked' = [asked EXCEPT ![c] = NotAsked]

Init ==
    /\ clock = 0
    /\ door = "accept"
    /\ guest = Nobody
    /\ live = 0
    /\ pc = [c \in Conns |-> "idle"]
    /\ hung = [c \in Conns |-> FALSE]
    /\ asked = [c \in Conns |-> NotAsked]
    /\ records = [a \in Accounts |-> NoRecord]

-----------------------------------------------------------------------------
(* Clients, and time.                                                      *)

Tick ==
    /\ clock < MaxClock
    /\ clock' = clock + 1
    /\ UNCHANGED <<door, guest, live, pc, hung, asked, records>>

(* A process connects, for the first time or again. *)
Connect(c) ==
    /\ pc[c] \in {"idle", "ended"}
    /\ Goto(c, "backlog")
    /\ hung' = [hung EXCEPT ![c] = FALSE]
    /\ UNCHANGED <<clock, door, guest, live, asked, records>>

HangUp(c) ==
    /\ pc[c] \notin {"idle", "ended"}
    /\ ~hung[c]
    /\ hung' = [hung EXCEPT ![c] = TRUE]
    /\ UNCHANGED <<clock, door, guest, live, pc, asked, records>>

-----------------------------------------------------------------------------
(* The accept loop.  Between its look at the count and its own increment   *)
(* only threads that end touch the count.                                  *)

Accept(c) ==
    /\ door = "accept"
    /\ pc[c] = "backlog"
    /\ IF live >= MaxConnections
       THEN Goto(c, "ended") /\ UNCHANGED <<door, guest>>
       ELSE /\ Goto(c, "held")
            /\ door' = "counting"
            /\ guest' = c
    /\ UNCHANGED <<clock, live, hung, asked, records>>

CountIn ==
    /\ door = "counting"
    /\ door' = "spawning"
    /\ live' = live + 1
    /\ UNCHANGED <<clock, guest, pc, hung, asked, records>>

(* Mutant of Spawn: a thread that cannot be started keeps its slot. *)
SpawnLeaks ==
    /\ door = "spawning"
    /\ door' = "accept"
    /\ guest' = Nobody
    /\ Goto(guest, "starting") \/ Goto(guest, "ended")
    /\ UNCHANGED <<clock, live, hung, asked, records>>

(* Another: the slot is given back here and by the thread's last statement. *)
SpawnReturnsTwice ==
    /\ door = "spawning"
    /\ door' = "accept"
    /\ guest' = Nobody
    /\ \/ Goto(guest, "starting") /\ UNCHANGED live
       \/ Goto(guest, "closing") /\ live' = live - 1
    /\ UNCHANGED <<clock, hung, asked, records>>

(* "The slot has to be given back here or the cap leaks one." *)
Spawn ==
    /\ door = "spawning"
    /\ door' = "accept"
    /\ guest' = Nobody
    /\ \/ Goto(guest, "starting") /\ UNCHANGED live
       \/ Goto(guest, "ended") /\ live' = live - 1
    /\ UNCHANGED <<clock, hung, asked, records>>

-----------------------------------------------------------------------------
(* The thread of one connection.                                           *)

(* The peer's uid is resolved to a regular account, or it is not. *)
Resolve(c) ==
    /\ pc[c] = "starting"
    /\ Goto(c, "reading") \/ Goto(c, "closing")
    /\ UNCHANGED <<clock, door, guest, live, hung, asked, records>>

(* End of file, the read timeout, or bytes that are no request. *)
ReadEnds(c) ==
    /\ pc[c] = "reading"
    /\ Goto(c, "closing")
    /\ UNCHANGED <<clock, door, guest, live, hung, asked, records>>

(* Requests that need no password: questions, refusals, a switch turned    *)
(* off, a finger or a face forgotten.                                      *)
ReadFree(c) ==
    /\ pc[c] = "reading"
    /\ Goto(c, "replying")
    /\ UNCHANGED <<clock, door, guest, live, hung, asked, records>>

ReadWatch(c) ==
    /\ pc[c] = "reading"
    /\ Goto(c, "watching")
    /\ UNCHANGED <<clock, door, guest, live, hung, asked, records>>

(* Verify, EnrolFinger, EnrolFace, or a policy that is widened: `now` is   *)
(* read before the limiter's mutex is waited for.                          *)
ReadSecret(c, purpose) ==
    /\ pc[c] = "reading"
    /\ Goto(c, "throttled")
    /\ asked' = [asked EXCEPT ![c] = [for |-> purpose, now |-> clock]]
    /\ UNCHANGED <<clock, door, guest, live, hung, records>>

(* Mutant of Throttle: the delay is looked at and nothing is refused. *)
ThrottleNone(c) ==
    /\ pc[c] = "throttled"
    /\ Goto(c, "checking")
    /\ UNCHANGED <<clock, door, guest, live, hung, asked, records>>

(* One look at the limiter, after which the mutex is free again. *)
Throttle(c) ==
    /\ pc[c] = "throttled"
    /\ IF DelayFor(records[Owner[c]], asked[c].now) = 0
       THEN Goto(c, "checking") /\ UNCHANGED asked
       ELSE Answered(c, "replying")
    /\ UNCHANGED <<clock, door, guest, live, hung, records>>

CheckGranted(c) ==
    /\ pc[c] = "checking"
    /\ records' = [records EXCEPT ![Owner[c]] = RecordSuccess(@)]
    /\ Answered(c, IF asked[c].for = "enrol" THEN "enrolling" ELSE "replying")
    /\ UNCHANGED <<clock, door, guest, live, hung>>

CheckDenied(c) ==
    /\ pc[c] = "checking"
    /\ records' = [records EXCEPT ![Owner[c]] = RecordFailure(@, asked[c].now)]
    /\ Answered(c, "replying")
    /\ UNCHANGED <<clock, door, guest, live, hung>>

(* The account database cannot be read. *)
CheckFails(c) ==
    /\ pc[c] = "checking"
    /\ Answered(c, "replying")
    /\ UNCHANGED <<clock, door, guest, live, hung, records>>

Reply(c) ==
    /\ pc[c] = "replying"
    /\ Goto(c, IF hung[c] THEN "closing" ELSE "reading")
    /\ UNCHANGED <<clock, door, guest, live, hung, asked, records>>

(* An enrolment ends by itself, or because its client went, and shuts the  *)
(* connection down.                                                        *)
EnrolEnds(c) ==
    /\ pc[c] = "enrolling"
    /\ Goto(c, "closing")
    /\ UNCHANGED <<clock, door, guest, live, hung, asked, records>>

(* Mutant of WatchEnds: nobody follows the client. *)
WatchEndsAlone(c) ==
    /\ pc[c] = "watching"
    /\ ~hung[c]
    /\ Goto(c, "closing")
    /\ UNCHANGED <<clock, door, guest, live, hung, asked, records>>

WatchEnds(c) ==
    /\ pc[c] = "watching"
    /\ Goto(c, "closing")
    /\ UNCHANGED <<clock, door, guest, live, hung, asked, records>>

(* Admitted; on this socket every claim is granted. *)
WatchMatches(c) ==
    /\ pc[c] = "watching"
    /\ Goto(c, "matched")
    /\ UNCHANGED <<clock, door, guest, live, hung, asked, records>>

RecordWatch(c) ==
    /\ pc[c] = "matched"
    /\ Goto(c, "closing")
    /\ records' = [records EXCEPT ![Owner[c]] = RecordSuccess(@)]
    /\ UNCHANGED <<clock, door, guest, live, hung, asked>>

(* counter.fetch_sub, however `serve` returned. *)
CountOut(c) ==
    /\ pc[c] = "closing"
    /\ Goto(c, "ended")
    /\ live' = live - 1
    /\ UNCHANGED <<clock, door, guest, hung, asked, records>>

-----------------------------------------------------------------------------

Client(c) == Connect(c) \/ HangUp(c)

Read(c) ==
    \/ ReadEnds(c)
    \/ ReadFree(c)
    \/ ReadWatch(c)
    \/ \E purpose \in Purposes : ReadSecret(c, purpose)

Check(c) == CheckGranted(c) \/ CheckDenied(c) \/ CheckFails(c)

Serve(c) ==
    \/ Resolve(c)
    \/ Read(c)
    \/ Throttle(c)
    \/ Check(c)
    \/ Reply(c)
    \/ EnrolEnds(c)
    \/ WatchEnds(c)
    \/ WatchMatches(c)
    \/ RecordWatch(c)
    \/ CountOut(c)

Door == (\E c \in Conns : Accept(c)) \/ CountIn \/ Spawn

Next ==
    \/ Tick
    \/ \E c \in Conns : Client(c) \/ Serve(c)
    \/ Door

Spec == Init /\ [][Next]_vars

(* The accept loop blocks only for want of a connection; a thread runs on  *)
(* by itself except where it waits for its client, and there the client's  *)
(* hang-up ends the wait: a read returns, a watch is cancelled by          *)
(* `bio::follow_client` and an enrolment by its own follower.              *)
ThreadStep(c) ==
    \/ Resolve(c)
    \/ hung[c] /\ (ReadEnds(c) \/ WatchEnds(c) \/ EnrolEnds(c))
    \/ Throttle(c)
    \/ Check(c)
    \/ Reply(c)
    \/ RecordWatch(c)
    \/ CountOut(c)

Fairness ==
    /\ WF_vars(CountIn) /\ WF_vars(Spawn)
    /\ \A c \in Conns : SF_vars(Accept(c)) /\ WF_vars(ThreadStep(c))

FairSpec == Spec /\ Fairness

-----------------------------------------------------------------------------

(* The type invariant of the socket's state. *)
TypeOK ==
    /\ clock \in 0 .. MaxClock
    /\ door \in {"accept", "counting", "spawning"}
    /\ guest \in Conns \cup {Nobody}
    /\ live \in Nat
    /\ pc \in [Conns -> Threads \cup {"idle", "backlog", "held", "ended"}]
    /\ hung \in [Conns -> BOOLEAN]
    /\ asked \in [Conns -> [for : Purposes \cup {"nothing"}, now : 0 .. MaxClock]]
    /\ records \in [Accounts -> Record]

(* Every slot taken is a thread's, or about to be: none leaks on any of    *)
(* the ways a thread ends or fails to start, and the cap holds though the  *)
(* look at the count and the increment are two steps (verify.rs:162).      *)
SlotsKept ==
    /\ live = Cardinality(Serving) + (IF door = "spawning" THEN 1 ELSE 0)
    /\ live <= MaxConnections

(* However its checks overlap, one account's connections get only so many  *)
(* past the throttle (verify.rs:421).  A full house of them may be let in  *)
(* at once, and keep their old `now`; one that then fails winds the record *)
(* back and opens the throttle again, for itself and for those before it:  *)
(* 1 + 2 + ... + MaxConnections for each penalty served.                   *)
Overrun == (MaxConnections * (MaxConnections + 1)) \div 2

OverrunBounded ==
    \A a \in Accounts :
        records[a].failures
            <= FreeAttempts + MaxConnections + Overrun * (clock \div BaseDelay)

(* A slot whose client has gone comes back, whatever its thread was doing. *)
SlotsComeBack == \A c \in Conns : hung[c] ~> pc[c] \notin Threads
=============================================================================
