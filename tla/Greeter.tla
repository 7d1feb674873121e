------------------------------- MODULE Greeter ------------------------------
(***************************************************************************)
(* The login screen's process (raven-greeter): one thread that answers the *)
(* compositor's events, blocks in the exchange with ravend while a         *)
(* password is checked, and drains what the finger's and the camera's      *)
(* reading threads have put in their channels whenever it draws.           *)
(*                                                                         *)
(* The daemon is the other side as GreetLoop has it: a serve thread per    *)
(* connection, and one login a greeting, claimed by whoever is first.      *)
(* A connection the greeter has dropped may still be served to its end:    *)
(* its account is a stray, whose proof may yet be accepted with nobody to  *)
(* read the answer.                                                        *)
(***************************************************************************)
EXTENDS Screen

CONSTANTS MaxInbox,  \* bound on the events of a watch not yet drained
          Offers,    \* how many accounts the daemon may have listed
          MaxOwed    \* bound on the requests of a connection not yet answered

ASSUME GreeterAssumption ==
    /\ MaxInbox \in Nat \ {0}
    /\ MaxOwed \in Nat \ {0}
    /\ Offers \subseteq 0..Len(Users)

VARIABLES screen,
          watch,   \* the watch of each sensor, its channel included
          frame,   \* the frame callback: coming, gone or failed
          call,    \* the exchange the thread is blocked in
          conn,    \* the connection passwords go down
          strays,  \* accounts of dropped connections still being served
          winner,  \* the account whose proof the daemon has accepted
          late,    \* history: a grant was read that answers an older request
          exit     \* the process has ended

ui == <<screen, watch, frame>>
greeter == <<screen, watch, frame, call, conn, strays, winner, late, exit>>

-----------------------------------------------------------------------------
(* "ended" is also a Denied: neither leaves anything but words behind. *)
Events == {"prompt", "wash", "unwash", "granted", "ended"}

NoWatch == [account |-> Nobody, inbox |-> <<>>, open |-> FALSE]
Watching(account) == [account |-> account, inbox |-> <<>>, open |-> TRUE]

NoCall == [stage |-> "none", account |-> Nobody]

(* A request; `own` as long as the exchange it was sent for goes on. *)
Ask(account) == [account |-> account, own |-> TRUE]
NewConn(asked) == [up |-> TRUE, asked |-> asked, said |-> <<>>]

Requests == [account : Accounts \cup {Nobody}, own : BOOLEAN]
(* "Refused" is Denied, Failed or a reply of the wrong kind: each says     *)
(* something and frees the keyboard.                                       *)
Verdicts == {"Granted", "Refused"}
Replies == [verdict : Verdicts, own : BOOLEAN]

GreeterTypeOK ==
    /\ screen \in Screens
    /\ watch \in [Sensors -> [account : Accounts \cup {Nobody},
                              inbox : Seq(Events), open : BOOLEAN]]
    /\ frame \in {"coming", "gone", "failed"}
    /\ late \in BOOLEAN /\ exit \in BOOLEAN
    /\ call \in [stage : {"none", "first", "second"},
                 account : Accounts \cup {Nobody}]
    /\ conn \in [up : BOOLEAN, asked : Seq(Requests), said : Seq(Replies)]
    /\ strays \subseteq Accounts
    /\ winner \in Accounts \cup {Nobody}

-----------------------------------------------------------------------------
(***************************************************************************)
(* What the screen and the watches are made of one event, one poll and one *)
(* drawing.  A pair `u` is a screen with its watches.                      *)
(***************************************************************************)
Pair == [screen |-> screen, watch |-> watch]

(* Mutant of Unwatch: the wash stays. *)
UnwatchWashed(u, sensor) ==
    [screen |-> SetBiometric(u.screen, sensor, "none"),
     watch  |-> [u.watch EXCEPT ![sensor] = NoWatch]]

Unwatch(u, sensor) ==
    LET bare == SetBiometric(u.screen, sensor, "none") IN
    [screen |-> IF sensor = "face" THEN SetFlash(bare, FALSE) ELSE bare,
     watch  |-> [u.watch EXCEPT ![sensor] = NoWatch]]

(* Granted at a sensor: the screen leaves.  A finger ends both watches, a  *)
(* face its own; the wash goes either way.                                 *)
Recognised(u, sensor) ==
    [screen |-> Dismiss(SetFlash(SetBiometric(u.screen, sensor, "accepted"),
                                 FALSE)),
     watch  |-> IF sensor = "finger" THEN [s \in Sensors |-> NoWatch]
                ELSE [u.watch EXCEPT !.face = NoWatch]]

(* The rest of what was drained goes with a watch that is over. *)
Hear(u, sensor, event) ==
    IF u.watch[sensor] = NoWatch THEN u
    ELSE CASE event = "prompt" ->
                [u EXCEPT !.screen = SetBiometric(@, sensor, "prompt")]
           [] event \in {"wash", "unwash"} ->
                [u EXCEPT !.screen = SetFlash(@, event = "wash")]
           [] event = "granted" -> Recognised(u, sensor)
           [] OTHER             -> Unwatch(u, sensor)

Drain(u, sensor) ==
    LET inbox == u.watch[sensor].inbox
        heard[i \in 0 .. Len(inbox)] ==
            IF i = 0 THEN [u EXCEPT !.watch[sensor].inbox = <<>>]
            ELSE Hear(heard[i - 1], sensor, inbox[i])
    IN  heard[Len(inbox)]

Poll(u) == Drain(Drain(u, "face"), "finger")

(* Mutant of Painted: a callback is only ever asked for once. *)
PaintedOnce(before, painted) == before

(* The callback after a drawing: one is committed with the frame if none   *)
(* is in flight; without a buffer, or with one that cannot be attached,    *)
(* nothing is.                                                             *)
Painted(before, painted) ==
    IF before = "coming" \/ painted THEN "coming" ELSE "failed"

(* `draw`: poll, then one frame. *)
Draw(u, painted) ==
    LET v == Poll(u) IN
    /\ screen' = v.screen
    /\ watch' = v.watch
    /\ frame' = Painted(frame, painted)

(* Dropping a watch shuts its socket; the daemon sees that later, which    *)
(* matters only while the login is still to be had.                        *)
Stray(accounts) ==
    strays' = IF winner = Nobody THEN strays \cup (accounts \ {Nobody}) ELSE {}

Dropping ==
    Stray({watch[s].account : s \in {s \in Sensors :
        watch[s].open /\ watch'[s].account # watch[s].account}})

-----------------------------------------------------------------------------
(***************************************************************************)
(* Keys and the compositor's events.                                       *)
(***************************************************************************)
Running == ~ exit /\ call.stage = "none"

(* Watch a sensor for whoever is selected, if that is not already who it   *)
(* is watched for; `reached` if the daemon could be connected to.          *)
WatchFor(u, sensor, reached) ==
    LET account == Current(u.screen) IN
    IF account = Nobody \/ u.watch[sensor].account = account THEN u
    ELSE LET v == Unwatch(u, sensor) IN
         IF sensor \in reached
         THEN [v EXCEPT !.watch[sensor] = Watching(account)]
         ELSE v

WatchBoth(u, reached) ==
    WatchFor(WatchFor(u, "finger", reached), "face", reached)

(* Users listed, watches started and the first configure answered.  The    *)
(* question about the wallpaper may have been given up on, and its answer  *)
(* still be owed.                                                          *)
GreeterInit ==
    /\ \E users \in Offers, reached \in SUBSET Sensors :
          LET u == WatchBoth([screen |-> New(users),
                              watch |-> [s \in Sensors |-> NoWatch]], reached)
          IN screen = u.screen /\ watch = u.watch
    /\ frame \in {"coming", "failed"}
    /\ call = NoCall
    /\ conn \in {NewConn(<<>>),
                 NewConn(<<[account |-> Nobody, own |-> FALSE]>>)}
    /\ strays = {}
    /\ winner = Nobody
    /\ late = FALSE /\ exit = FALSE

Frame(painted) ==
    /\ Running
    /\ frame = "coming"
    /\ LET v == Poll(Pair) IN screen' = v.screen /\ watch' = v.watch
    /\ frame' = Painted("gone", painted)
    /\ Dropping
    /\ UNCHANGED <<call, conn, winner, late, exit>>

(* A new size or scale; a key that only edits the password; an Enter that  *)
(* is refused, for a throttle or for want of an account.                   *)
Redraw(painted) ==
    /\ Running
    /\ Draw(Pair, painted)
    /\ Dropping
    /\ UNCHANGED <<call, conn, winner, late, exit>>

(* Mutant of Tab: the watches are left to their account. *)
TabKeepsWatches(step, reached, painted) ==
    /\ Running
    /\ ~ screen.busy
    /\ Draw([screen |-> Select(screen, step), watch |-> watch], painted)
    /\ Dropping
    /\ UNCHANGED <<call, conn, winner, late, exit>>

Tab(step, reached, painted) ==
    /\ Running
    /\ ~ screen.busy
    /\ Draw(WatchBoth([screen |-> Select(screen, step), watch |-> watch],
                      reached), painted)
    /\ Dropping
    /\ UNCHANGED <<call, conn, winner, late, exit>>

Owed == Len(conn.asked) + Len(conn.said)

Disown(msgs) == [i \in DOMAIN msgs |-> [msgs[i] EXCEPT !.own = FALSE]]

(* Enter: busy, a drawing that drains the sensors once more, and the       *)
(* password on its way; the thread is blocked from here.                   *)
Enter(painted) ==
    /\ Running
    /\ MaySubmit(screen)
    /\ Owed < MaxOwed
    /\ Draw([screen |-> Submit(screen), watch |-> watch], painted)
    /\ call' = [stage |-> "first", account |-> Current(screen)]
    /\ conn' = [conn EXCEPT
                  !.asked = IF conn.up THEN Disown(@) \o <<Ask(Current(screen))>>
                            ELSE @,
                  !.said = Disown(@)]
    /\ Dropping
    /\ UNCHANGED <<winner, late, exit>>

-----------------------------------------------------------------------------
(***************************************************************************)
(* The exchange: one resend on a new connection, then an error.            *)
(***************************************************************************)
Silent == conn.said = <<>>  \* a read fails: end of file, or the time is up

(* After `submit` the key's own drawing. *)
Replied(s, w, painted) ==
    /\ Draw([screen |-> s, watch |-> w], painted)
    /\ call' = NoCall
    /\ Dropping
    /\ UNCHANGED <<winner, exit>>

ReadReply(painted) ==
    /\ ~ exit /\ call.stage # "none"
    /\ ~ Silent
    /\ LET reply == Head(conn.said)
           granted == reply.verdict = "Granted"
       IN /\ IF granted
             THEN Replied(Dismiss(screen),
                           [watch EXCEPT !.finger = NoWatch], painted)
             ELSE Replied(SetIdle(screen), watch, painted)
          /\ late' = (late \/ (granted /\ ~ reply.own))
    /\ conn' = [conn EXCEPT !.said = Tail(@)]

(* The new connection replaces the old one, whose requests may be served. *)
Reconnect ==
    /\ ~ exit /\ call.stage = "first"
    /\ Silent
    /\ call' = [call EXCEPT !.stage = "second"]
    /\ conn' = NewConn(<<Ask(call.account)>>)
    /\ Stray({conn.asked[i].account : i \in DOMAIN conn.asked})
    /\ UNCHANGED <<ui, winner, late, exit>>

(* No new connection, or the second try fails too: the connection in hand  *)
(* stays in use, with whatever is owed on it.                              *)
GiveUp(painted) ==
    /\ ~ exit /\ call.stage # "none"
    /\ Silent
    /\ Replied(SetIdle(screen), watch, painted)
    /\ UNCHANGED <<conn, late>>

-----------------------------------------------------------------------------
(***************************************************************************)
(* The daemon.                                                             *)
(***************************************************************************)
(* A serve thread answers the first request of the connection; a password  *)
(* that is right claims the login, if nobody has, and ends the thread.     *)
Serve(verdict) ==
    /\ ~ exit /\ conn.up
    /\ conn.asked # <<>>
    /\ LET request == Head(conn.asked)
           wins == verdict = "Granted" /\ winner = Nobody
           said == IF verdict = "Granted" /\ ~ wins THEN "Refused" ELSE verdict
       IN /\ request.account = Nobody => verdict = "Refused"
          /\ winner' = IF wins THEN request.account ELSE winner
          /\ conn' = [up    |-> ~ wins,
                      asked |-> IF wins THEN <<>> ELSE Tail(conn.asked),
                      said  |-> Append(conn.said, [verdict |-> said,
                                                   own |-> request.own])]
    /\ strays' = IF winner' = Nobody THEN strays ELSE {}
    /\ UNCHANGED <<ui, call, late, exit>>

HangUp ==
    /\ ~ exit /\ conn.up
    /\ conn' = [conn EXCEPT !.up = FALSE, !.asked = <<>>]
    /\ UNCHANGED <<ui, call, strays, winner, late, exit>>

(* A conversation about a sensor, through the thread that reads it.  The   *)
(* first match of the greeting wins it; one that comes after is refused.   *)
Say(sensor, event) ==
    /\ ~ exit
    /\ watch[sensor].open
    /\ Len(watch[sensor].inbox) < MaxInbox
    /\ event \in {"wash", "unwash"} => sensor = "face"
    /\ event = "granted" => winner = Nobody
    /\ watch' = [watch EXCEPT
                   ![sensor].inbox = Append(@, event),
                   ![sensor].open = event \in {"prompt", "wash", "unwash"}]
    /\ winner' = IF event = "granted" THEN watch[sensor].account ELSE winner
    /\ strays' = IF winner' = Nobody THEN strays ELSE {}
    /\ UNCHANGED <<screen, frame, call, conn, late, exit>>

(* A stray's proof is accepted, or it is noticed that nobody listens. *)
StrayEnds(account, wins) ==
    /\ ~ exit
    /\ account \in strays
    /\ strays' = IF wins THEN {} ELSE strays \ {account}
    /\ winner' = IF wins THEN account ELSE winner
    /\ UNCHANGED <<ui, call, conn, late, exit>>

(* Closed by the compositor, or stopped by ravend for the session: the     *)
(* greeting is over, and all there was goes with it.                       *)
Closed ==
    /\ ~ exit
    /\ exit' = TRUE
    /\ screen' = New(0)
    /\ watch' = [s \in Sensors |-> NoWatch]
    /\ frame' = "failed"
    /\ call' = NoCall /\ conn' = NewConn(<<>>)
    /\ strays' = {} /\ winner' = Nobody /\ late' = FALSE

-----------------------------------------------------------------------------
Exchanges ==
    \/ \E painted \in BOOLEAN : ReadReply(painted)
    \/ Reconnect
    \/ \E painted \in BOOLEAN : GiveUp(painted)

Draws == \E painted \in BOOLEAN : Frame(painted)

GreeterNext ==
    \/ \E painted \in BOOLEAN :
          \/ Redraw(painted) \/ Enter(painted)
          \/ \E step \in {1, screen.users - 1}, reached \in SUBSET Sensors :
                Tab(step, reached, painted)
    \/ Draws \/ Exchanges
    \/ \E verdict \in Verdicts : Serve(verdict)
    \/ HangUp
    \/ \E sensor \in Sensors, event \in Events : Say(sensor, event)
    \/ \E account \in Accounts, wins \in BOOLEAN : StrayEnds(account, wins)
    \/ Closed

GreeterSpec == GreeterInit /\ [][GreeterNext]_greeter

(* The compositor signals a committed frame; an exchange ends, by its two  *)
(* timeouts if by nothing else.                                            *)
FairGreeterSpec == GreeterSpec /\ WF_greeter(Exchanges) /\ WF_greeter(Draws)

-----------------------------------------------------------------------------
(* Whoever the screen lets go is who the session is for, whatever keys,    *)
(* sensors, resends and strays come together (main.rs:720, 704-747); save  *)
(* where a grant that answers an older request was read for a newer one.   *)
NameStays ==
    screen.dismissing => winner = Current(screen) \/ late

(* The screen speaks of a sensor only while it is watched, and lights the  *)
(* room only for the camera: however a watch ends, its row goes, and the   *)
(* wash with the camera's (main.rs:271-425, 498-515).  On its way out the  *)
(* screen keeps the rows it had.                                           *)
SensorsShown ==
    /\ screen.flash => watch["face"] # NoWatch
    /\ ~ screen.dismissing =>
          \A s \in Sensors : screen.row[s] # "none" =>
             watch[s] # NoWatch /\ watch[s].account = Current(screen)

(* A match heard is a match shown: a Granted in a channel is drained and   *)
(* the screen leaves, though the thread be blocked in two timeouts first;  *)
(* unless somebody else is selected, or a frame has failed and no callback *)
(* is on its way (main.rs:428-495).                                        *)
MatchSeen ==
    (\E s \in Sensors : \E i \in DOMAIN watch[s].inbox :
        watch[s].inbox[i] = "granted")
    ~> \/ screen.dismissing \/ exit
       \/ Current(screen) # winner
       \/ frame = "failed"

(* The keyboard comes back after every attempt that does not end the       *)
(* screen, however the exchange with the daemon fails (main.rs:498-546).   *)
KeyboardReturns ==
    screen.busy ~> ~ screen.busy \/ screen.dismissing \/ exit
=============================================================================
