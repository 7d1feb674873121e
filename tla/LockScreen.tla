----------------------------- MODULE LockScreen -----------------------------
(***************************************************************************)
(* The lock screen (raven-lock): one thread that handles the compositor's  *)
(* events, keys, timers and what the sensors' watches report, and that     *)
(* blocks while a password is checked; a thread per watch; the connection  *)
(* on which passwords are asked about.  The compositor and the daemon are  *)
(* modelled by what the lock screen sees of them.                          *)
(*                                                                         *)
(* Painting is left out but for its asking for frames and for its finding  *)
(* that a dismissed screen has gone.                                       *)
(***************************************************************************)
EXTENDS Integers, Sequences

CONSTANTS Outputs,
          Sensors,    \* those this machine has, of "finger" and "face"
          MaxInbox,   \* bound on a watch's unread events
          MaxOwed     \* bound on the daemon's unread answers

ASSUME LockAssumption ==
    /\ Sensors \subseteq {"finger", "face"}
    /\ MaxInbox \in Nat \ {0}
    /\ MaxOwed \in Nat \ {0}

VARIABLES
    session,    \* what the compositor shows: open, hidden, revealed
    notices,    \* what it has told the lock and the lock has not heard
    surface,    \* per output: unplugged, bare, new, or ready once configured
    pending,    \* outputs whose frame_pending is set
    callbacks,  \* frames asked for and not signalled
    locked,     \* Lock.locked
    held,       \* Lock.lock is there
    unlock,     \* the unlock request: unsent, buffered, flushed
    exit,       \* Lock.exit
    unlocking,  \* Lock.unlocking
    deadline,   \* the unlock timer is armed
    life,       \* of the process: running, left, dead
    busy,       \* of the screen, as the next three
    typed,      \* the field is not empty
    throttled,
    flash,      \* the screen is washed for the camera
    watch,      \* sensors with a watch
    thread,     \* watches' threads that still listen
    inbox,      \* their events, not yet handled
    retry,      \* watches' timers
    call,       \* the password being checked
    conn,       \* the connection it goes by
    owed,       \* requests on it whose answers have not been read
    proved      \* the daemon has accepted somebody

compositor == <<session, notices>>
paint == <<pending, callbacks>>
hold == <<held, unlock, exit>>
screen == <<busy, typed, throttled>>
watches == <<watch, thread, inbox, retry>>
wire == <<conn, owed>>
vars == <<compositor, surface, paint, locked, hold, unlocking, deadline, life,
          screen, flash, watches, call, wire, proved>>

-----------------------------------------------------------------------------

Secrets == {"right", "wrong"}

NoCall == [stage |-> "none", try |-> 0, secret |-> "none"]

(* Handlers run one at a time, and none while a password is checked.  Those *)
(* of one dispatch still run after `exit` is set.                           *)
Free == life = "running" /\ call = NoCall

(* `finish_unlock`.  The toolkit sends the request only for a lock that the *)
(* compositor has confirmed.                                                *)
FinishUnlock ==
    /\ held' = FALSE
    /\ unlock' = IF held /\ locked THEN "buffered" ELSE unlock
    /\ exit' = TRUE

(* "Exactly one frame callback in flight on this surface". *)
Asks(drawn, waiting, asked) ==
    /\ pending' = waiting \cup drawn
    /\ callbacks' = [o \in Outputs |->
          asked[o] + IF o \in drawn \ waiting THEN 1 ELSE 0]

(* Those of the configured outputs that get a buffer. *)
Drawable(outputs) == SUBSET {o \in outputs : surface'[o] = "ready"}

(* `draw` of each.  A dismissed screen may be found gone at any of them.    *)
Draw(outputs, waiting, asked, dismissed) ==
    \E drawn \in Drawable(outputs) :
        /\ Asks(drawn, waiting, asked)
        /\ \/ dismissed /\ drawn # {} /\ FinishUnlock
           \/ UNCHANGED hold

DrawAll == Draw(Outputs, pending, callbacks, unlocking)

(* `accept`.  Its timer may fail to be armed, and then there is no waiting. *)
Accept ==
    /\ unlocking' = TRUE
    /\ busy' = TRUE
    /\ watch' = {}
    /\ flash' = FALSE
    /\ \/ Draw(Outputs, pending, callbacks, TRUE) /\ deadline' = TRUE
       \/ /\ \E drawn \in Drawable(Outputs) : Asks(drawn, pending, callbacks)
          /\ FinishUnlock
          /\ UNCHANGED deadline

Init ==
    /\ session = "open"
    /\ notices = <<>>
    /\ surface \in [Outputs -> {"unplugged", "bare"}]
    /\ pending = {}
    /\ callbacks = [o \in Outputs |-> 0]
    /\ locked = FALSE
    /\ held = TRUE
    /\ unlock = "unsent"
    /\ exit = FALSE
    /\ unlocking = FALSE
    /\ deadline = FALSE
    /\ life = "running"
    /\ busy = FALSE
    /\ typed = FALSE
    /\ throttled = FALSE
    /\ flash = FALSE
    /\ watch \in SUBSET Sensors
    /\ thread = watch
    /\ inbox = [s \in Sensors |-> <<>>]
    /\ retry = {}
    /\ call = NoCall
    /\ conn = "up"
    /\ owed = <<>>
    /\ proved = FALSE

-----------------------------------------------------------------------------
(* The compositor.                                                          *)

Hides ==
    /\ session = "open"
    /\ notices = <<>>
    /\ ~locked
    /\ held
    /\ session' = "hidden"
    /\ notices' = <<"locked">>
    /\ UNCHANGED <<surface, paint, locked, hold, unlocking, deadline, life,
                   screen, flash, watches, call, wire, proved>>

(* "Refused, or took the lock away." *)
Refuses ==
    /\ session = "open"
    /\ notices = <<>>
    /\ ~locked
    /\ held
    /\ notices' = <<"finished">>
    /\ UNCHANGED <<session, surface, paint, locked, hold, unlocking, deadline,
                   life, screen, flash, watches, call, wire, proved>>

TakesAway ==
    /\ session = "hidden"
    /\ session' = "open"
    /\ notices' = Append(notices, "finished")
    /\ UNCHANGED <<surface, paint, locked, hold, unlocking, deadline, life,
                   screen, flash, watches, call, wire, proved>>

Reveals ==
    /\ session = "hidden"
    /\ unlock = "flushed"
    /\ session' = "revealed"
    /\ UNCHANGED <<notices, surface, paint, locked, hold, unlocking, deadline,
                   life, screen, flash, watches, call, wire, proved>>

-----------------------------------------------------------------------------
(* What the compositor tells the lock.                                      *)

(* `cover`, of outputs that have no surface. *)
Cover(outputs) ==
    surface' = [o \in Outputs |->
        IF held /\ o \in outputs /\ surface[o] = "bare" THEN "new" ELSE surface[o]]

OnLocked ==
    /\ Free
    /\ notices # <<>> /\ Head(notices) = "locked"
    /\ notices' = Tail(notices)
    /\ locked' = TRUE
    /\ Cover(Outputs)
    /\ UNCHANGED <<session, paint, hold, unlocking, deadline, life, screen,
                   flash, watches, call, wire, proved>>

OnFinished ==
    /\ Free
    /\ notices # <<>> /\ Head(notices) = "finished"
    /\ notices' = Tail(notices)
    /\ held' = FALSE
    /\ exit' = TRUE
    /\ UNCHANGED <<session, surface, paint, locked, unlock, unlocking, deadline,
                   life, screen, flash, watches, call, wire, proved>>

(* Mutant of Plug: an output that comes later is left to the compositor. *)
PlugBare(o) ==
    /\ Free
    /\ surface[o] = "unplugged"
    /\ surface' = [surface EXCEPT ![o] = "bare"]
    /\ UNCHANGED <<compositor, paint, locked, hold, unlocking, deadline, life,
                   screen, flash, watches, call, wire, proved>>

Plug(o) ==
    /\ Free
    /\ surface[o] = "unplugged"
    /\ surface' = [surface EXCEPT ![o] = IF locked /\ held THEN "new" ELSE "bare"]
    /\ UNCHANGED <<compositor, paint, locked, hold, unlocking, deadline, life,
                   screen, flash, watches, call, wire, proved>>

(* The surface goes, and what was asked for on it. *)
Unplug(o) ==
    /\ Free
    /\ surface[o] # "unplugged"
    /\ surface' = [surface EXCEPT ![o] = "unplugged"]
    /\ pending' = pending \ {o}
    /\ callbacks' = [callbacks EXCEPT ![o] = 0]
    /\ UNCHANGED <<compositor, locked, hold, unlocking, deadline, life, screen,
                   flash, watches, call, wire, proved>>

(* A size, the first or another, or a scale. *)
Configure(o) ==
    /\ Free
    /\ surface[o] \in {"new", "ready"}
    /\ surface' = [surface EXCEPT ![o] = "ready"]
    /\ Draw({o}, pending, callbacks, unlocking)
    /\ UNCHANGED <<compositor, locked, unlocking, deadline, life, screen, flash,
                   watches, call, wire, proved>>

Frame(o) ==
    /\ Free
    /\ callbacks[o] > 0
    /\ UNCHANGED surface
    /\ Draw({o}, pending \ {o}, [callbacks EXCEPT ![o] = @ - 1], unlocking)
    /\ UNCHANGED <<compositor, locked, unlocking, deadline, life, screen, flash,
                   watches, call, wire, proved>>

-----------------------------------------------------------------------------
(* The watches: their threads, and what the lock does about their events.   *)

Events(s) ==
    {"prompt", "verified", "denied", "unavailable", "ended"}
        \cup IF s = "face" THEN {"wash", "clear"} ELSE {}

Verdicts == {"verified", "denied", "unavailable", "ended"}

(* `listen`: a verdict is the last event of a watch. *)
Hear(s, event) ==
    /\ life = "running"
    /\ s \in thread
    /\ Len(inbox[s]) < MaxInbox
    /\ inbox' = [inbox EXCEPT ![s] = Append(@, event)]
    /\ thread' = IF event \in Verdicts THEN thread \ {s} ELSE thread
    /\ proved' = (proved \/ event = "verified")
    /\ UNCHANGED <<compositor, surface, paint, locked, hold, unlocking, deadline,
                   life, screen, flash, watch, retry, call, wire>>

(* The next event of a watch, taken from its channel by its handler. *)
Takes(s, events) ==
    /\ Free
    /\ inbox[s] # <<>>
    /\ Head(inbox[s]) \in events
    /\ inbox' = [inbox EXCEPT ![s] = Tail(@)]

(* Nothing is heard once the screen is leaving. *)
IgnoresEvent(s) ==
    /\ unlocking
    /\ Takes(s, Events(s))
    /\ UNCHANGED <<compositor, surface, paint, locked, hold, unlocking, deadline,
                   life, screen, flash, watch, thread, retry, call, wire, proved>>

ShowsEvent(s) ==
    /\ ~unlocking
    /\ Takes(s, Events(s) \ Verdicts)
    /\ flash' = CASE Head(inbox[s]) = "wash" -> TRUE
                  [] Head(inbox[s]) = "clear" -> FALSE
                  [] OTHER -> flash
    /\ UNCHANGED surface
    /\ DrawAll
    /\ UNCHANGED <<compositor, locked, unlocking, deadline, life, screen,
                   watch, thread, retry, call, wire, proved>>

(* Mutant of AcceptsEvent: any verdict about the person will do. *)
AcceptsVerdict(s) ==
    /\ ~unlocking
    /\ Takes(s, {"verified", "denied"})
    /\ UNCHANGED surface
    /\ Accept
    /\ UNCHANGED <<compositor, locked, life, typed, throttled, thread, retry,
                   call, wire, proved>>

AcceptsEvent(s) ==
    /\ ~unlocking
    /\ Takes(s, {"verified"})
    /\ UNCHANGED surface
    /\ Accept
    /\ UNCHANGED <<compositor, locked, life, typed, throttled, thread, retry,
                   call, wire, proved>>

UnwatchedWashed(s) ==
    /\ watch' = watch \ {s}
    /\ UNCHANGED flash

(* A watch is dropped; "one that ended mid-sequence must not leave the      *)
(* screen washed".                                                          *)
Unwatched(s) ==
    /\ watch' = watch \ {s}
    /\ flash' = IF s = "face" THEN FALSE ELSE flash

(* A watch that broke is tried again by a timer, if one can be had. *)
DropsWatch(s) ==
    /\ ~unlocking
    /\ Takes(s, Verdicts \ {"verified"})
    /\ Unwatched(s)
    /\ UNCHANGED surface
    /\ DrawAll
    /\ \/ UNCHANGED retry
       \/ Head(inbox[s]) = "ended" /\ retry' = retry \cup {s}
    /\ UNCHANGED <<compositor, locked, unlocking, deadline, life, screen, thread,
                   call, wire, proved>>

(* `start_finger`, `start_face`: a watch is started, or cannot be. *)
RetryFires(s) ==
    /\ Free
    /\ s \in retry
    /\ retry' = retry \ {s}
    /\ \/ unlocking /\ UNCHANGED <<watch, thread, flash>>
       \/ ~unlocking /\ Unwatched(s) /\ UNCHANGED thread
       \/ /\ ~unlocking
          /\ watch' = watch \cup {s}
          /\ thread' = thread \cup {s}
          /\ flash' = IF s = "face" THEN FALSE ELSE flash
    /\ UNCHANGED <<compositor, surface, paint, locked, hold, unlocking, deadline,
                   life, screen, inbox, call, wire, proved>>

-----------------------------------------------------------------------------
(* Keys.  A busy screen takes none; every other key ends with a draw.       *)

Key ==
    /\ Free
    /\ ~busy
    /\ UNCHANGED surface
    /\ DrawAll
    /\ UNCHANGED <<compositor, locked, unlocking, deadline, life, throttled,
                   flash, watches, wire, proved>>

(* A character, or an Enter that is refused: the field is not empty. *)
Types == Key /\ typed' = TRUE /\ UNCHANGED <<busy, call>>

(* Backspace, Escape, Ctrl-U; or an Enter in an empty field. *)
Erases == Key /\ typed' = FALSE /\ UNCHANGED <<busy, call>>

(* Enter.  The screen is busy before anything is asked. *)
Submit(secret) ==
    /\ Key
    /\ typed
    /\ ~throttled
    /\ Len(owed) < MaxOwed
    /\ busy' = TRUE
    /\ typed' = FALSE
    /\ call' = [stage |-> "send", try |-> 1, secret |-> secret]

ThrottleEnds ==
    /\ throttled
    /\ throttled' = FALSE
    /\ UNCHANGED <<compositor, surface, paint, locked, hold, unlocking, deadline,
                   life, busy, typed, flash, watches, call, wire, proved>>

-----------------------------------------------------------------------------
(* `exchange`, on one connection that is replaced once if it does not do.   *)

Calling(stage) == life = "running" /\ call.stage = stage

(* Mutant of Idle: the screen stays as it is. *)
StillBusy == call' = NoCall /\ UNCHANGED <<busy, surface>> /\ DrawAll

(* `set_idle`, and the draws that follow the attempt. *)
Idle ==
    /\ call' = NoCall
    /\ busy' = FALSE
    /\ UNCHANGED surface
    /\ DrawAll

(* The first failure is the connection's; the second is the daemon's. *)
ExchangeFails ==
    \/ /\ call.try = 1
       /\ call' = [call EXCEPT !.stage = "reconnect"]
       /\ UNCHANGED <<busy, surface, paint, hold>>
    \/ /\ call.try = 2
       /\ Idle

OffLoop ==
    UNCHANGED <<compositor, locked, life, typed, watches, flash, proved,
                unlocking, deadline>>

Send ==
    /\ Calling("send")
    /\ \/ /\ conn = "up"
          /\ owed' = Append(owed, [secret |-> call.secret, answer |-> "none"])
          /\ call' = [call EXCEPT !.stage = "await"]
          /\ UNCHANGED <<busy, surface, paint, hold>>
       \/ /\ conn = "down"
          /\ ExchangeFails
          /\ UNCHANGED owed
    /\ UNCHANGED <<conn, throttled>>
    /\ OffLoop

(* The read times out, or finds the connection shut. *)
AwaitFails ==
    /\ Calling("await")
    /\ Head(owed).answer = "none"
    /\ ExchangeFails
    /\ UNCHANGED <<wire, throttled>>
    /\ OffLoop

Reconnect ==
    /\ Calling("reconnect")
    /\ \/ /\ conn' = "up"
          /\ owed' = <<>>
          /\ call' = [call EXCEPT !.stage = "send", !.try = 2]
          /\ UNCHANGED <<busy, surface, paint, hold>>
       \/ /\ Idle
          /\ UNCHANGED wire
    /\ UNCHANGED throttled
    /\ OffLoop

(* The next answer on the connection is taken for this attempt's. *)
Answered(answer) ==
    /\ Calling("await")
    /\ Head(owed).answer = answer
    /\ owed' = Tail(owed)
    /\ UNCHANGED conn

AnsweredVerified ==
    /\ Answered("verified")
    /\ call' = NoCall
    /\ UNCHANGED surface
    /\ Accept
    /\ UNCHANGED <<compositor, locked, life, typed, throttled, thread, inbox,
                   retry, proved>>

(* With a time to wait for, or none. *)
AnsweredDenied ==
    /\ Answered("denied")
    /\ throttled' \in BOOLEAN
    /\ Idle
    /\ OffLoop

AnsweredFailed ==
    /\ Answered("failed")
    /\ Idle
    /\ UNCHANGED throttled
    /\ OffLoop

-----------------------------------------------------------------------------
(* The daemon, which answers a connection's requests in turn; and which     *)
(* hangs up on one that has been silent for long, or restarts.              *)

Answers(request) ==
    IF request.secret = "right" THEN {"verified", "denied", "failed"}
    ELSE {"denied", "failed"}

DaemonAnswers(i, answer) ==
    /\ conn = "up"
    /\ i \in DOMAIN owed
    /\ owed[i].answer = "none"
    /\ \A j \in 1 .. i - 1 : owed[j].answer # "none"
    /\ answer \in Answers(owed[i])
    /\ owed' = [owed EXCEPT ![i].answer = answer]
    /\ proved' = (proved \/ answer = "verified")
    /\ UNCHANGED <<compositor, surface, paint, locked, hold, unlocking, deadline,
                   life, screen, flash, watches, call, conn>>

DaemonHangsUp ==
    /\ conn = "up"
    /\ conn' = "down"
    /\ UNCHANGED <<compositor, surface, paint, locked, hold, unlocking, deadline,
                   life, screen, flash, watches, call, owed, proved>>

-----------------------------------------------------------------------------
(* Leaving.                                                                 *)

DeadlineFires ==
    /\ Free
    /\ deadline
    /\ deadline' = FALSE
    /\ FinishUnlock
    /\ UNCHANGED <<compositor, surface, paint, locked, unlocking, life, screen,
                   flash, watches, call, wire, proved>>

(* Mutant of Leave: what was not flushed is lost. *)
LeaveAtOnce ==
    /\ Free
    /\ exit
    /\ life' = "left"
    /\ UNCHANGED <<compositor, surface, paint, locked, hold, unlocking, deadline,
                   screen, flash, watches, call, wire, proved>>

(* The loop ends, and a round trip flushes the unlock. *)
Leave ==
    /\ Free
    /\ exit
    /\ life' = "left"
    /\ unlock' = IF unlock = "buffered" THEN "flushed" ELSE unlock
    /\ UNCHANGED <<compositor, surface, paint, locked, held, exit, unlocking,
                   deadline, screen, flash, watches, call, wire, proved>>

(* Killed, or lost its compositor. *)
Dies ==
    /\ life = "running"
    /\ life' = "dead"
    /\ UNCHANGED <<compositor, surface, paint, locked, hold, unlocking, deadline,
                   screen, flash, watches, call, wire, proved>>

-----------------------------------------------------------------------------

Compositor == Hides \/ Refuses \/ TakesAway \/ Reveals

Told ==
    \/ OnLocked
    \/ OnFinished
    \/ \E o \in Outputs : Plug(o) \/ Unplug(o) \/ Configure(o) \/ Frame(o)

Watching(s) ==
    \/ \E event \in Events(s) : Hear(s, event)
    \/ IgnoresEvent(s)
    \/ ShowsEvent(s)
    \/ AcceptsEvent(s)
    \/ DropsWatch(s)
    \/ RetryFires(s)

Keys == Types \/ Erases \/ (\E secret \in Secrets : Submit(secret)) \/ ThrottleEnds

Exchange ==
    \/ Send
    \/ AwaitFails
    \/ Reconnect
    \/ AnsweredVerified
    \/ AnsweredDenied
    \/ AnsweredFailed

Daemon ==
    \/ \E i \in 1 .. MaxOwed, answer \in {"verified", "denied", "failed"} :
          DaemonAnswers(i, answer)
    \/ DaemonHangsUp

Next ==
    \/ Compositor
    \/ Told
    \/ \E s \in Sensors : Watching(s)
    \/ Keys
    \/ Exchange
    \/ Daemon
    \/ DeadlineFires \/ Leave \/ Dies

Spec == Init /\ [][Next]_vars

(* The socket has timeouts, so an exchange goes on; timers fire; a loop     *)
(* that has been told to end does; and the compositor honours an unlock.    *)
(* Nothing is assumed of frames, of the daemon, or of anybody at the keys.  *)
Fairness ==
    /\ WF_vars(Exchange)
    /\ WF_vars(DeadlineFires)
    /\ WF_vars(Leave)
    /\ WF_vars(Reveals)

FairSpec == Spec /\ Fairness

-----------------------------------------------------------------------------

(* The type invariant of the lock screen's state, with what goes together:  *)
(* a call that waits has a request to wait for, and no sensor is watched    *)
(* that is about to be watched again.                                       *)
TypeOK ==
    /\ session \in {"open", "hidden", "revealed"}
    /\ notices \in Seq({"locked", "finished"})
    /\ surface \in [Outputs -> {"unplugged", "bare", "new", "ready"}]
    /\ pending \subseteq Outputs
    /\ callbacks \in [Outputs -> Nat]
    /\ unlock \in {"unsent", "buffered", "flushed"}
    /\ locked \in BOOLEAN /\ held \in BOOLEAN /\ exit \in BOOLEAN
    /\ unlocking \in BOOLEAN /\ deadline \in BOOLEAN /\ proved \in BOOLEAN
    /\ busy \in BOOLEAN /\ typed \in BOOLEAN /\ throttled \in BOOLEAN
    /\ flash \in BOOLEAN
    /\ life \in {"running", "left", "dead"}
    /\ watch \subseteq Sensors
    /\ thread \subseteq Sensors
    /\ inbox \in [Sensors -> Seq(UNION {Events(s) : s \in Sensors})]
    /\ retry \subseteq Sensors \ (watch \cup thread)
    /\ call \in {NoCall} \cup
          [stage : {"send", "await", "reconnect"}, try : {1, 2}, secret : Secrets]
    /\ conn \in {"up", "down"}
    /\ owed \in Seq([secret : Secrets,
                     answer : {"none", "verified", "denied", "failed"}])
    /\ call.stage = "await" => owed # <<>>

(* The session as its owner sees it; see SessionHold: hidden until somebody *)
(* has proved who they are, whatever the lock screen goes through and       *)
(* however it ends ("staying locked and saying so is still the right side   *)
(* to fail on", main.rs:670).                                               *)
Hold == INSTANCE SessionHold

HoldSpec == Hold!Spec

(* No output shows what is behind the lock: each has a surface of the       *)
(* lock's as soon as the lock has been confirmed, whenever it was plugged   *)
(* in (main.rs:978).                                                        *)
Covered ==
    locked /\ held => \A o \in Outputs : surface[o] # "bare"

(* "Never a second" frame callback on a surface (main.rs:355), whether it   *)
(* is drawn for a frame, a key, a size or a sensor.                         *)
OneCallback == \A o \in Outputs : callbacks[o] <= 1

(* The screen is washed only while the camera is watched (main.rs:464): no  *)
(* way for a watch to end, and no acceptance, leaves the colour behind.     *)
WashedForCamera == flash => "face" \in watch /\ ~unlocking

(* Whoever has proved who they are gets in (main.rs:41, "the one failure a  *)
(* lock screen must never have"): a confirmed lock that is leaving reveals  *)
(* the session though no frame ever comes, unless the process is killed.    *)
AcceptedOpens ==
    unlocking /\ locked /\ held ~> session # "hidden" \/ life = "dead"

(* A password is always decided, and the keyboard taken again, however the  *)
(* connection fails (client.rs:49).                                         *)
KeyboardComesBack == busy ~> ~busy \/ unlocking \/ life = "dead"
=============================================================================
