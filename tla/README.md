# RavenLogin in TLA+

A verification development for RavenLogin: the login daemon `ravend`, its
graphical greeter and lock screen, and the libraries they share.  The modules
are translated from the source under `src/`; every definition that models code
is listed in `PROJECT.json` under `map` with the lines it stands for.

## 1. The system

| Part | State it keeps | Operations | Talks to |
|---|---|---|---|
| `ravend` supervisor (`main.rs` 119-372, 769-822, `session.rs`) | backoff count, the children it spawned, the listener, the limiter | `run`, `greet`, `run_session`, keyring start and hand-off, stopping | compositor, UI, session, keyring |
| `ravend` greet loop (`main.rs` 374-766) | `live`, `open`, `granted`, a channel of logins | `accept_until_login`, `serve` | greeter over a Unix socket, `raven-auth`, sensors, limiter |
| `ravend` verify socket (`verify.rs`) | connection slots, a limiter of its own | `accept_loop`, `serve`, `answer`, `verify` | lock screens of any user, policy store, sensors |
| rate limiter (`ratelimit.rs`) | failures and time of the last one, per account | `delay_for`, `record_failure`, `record_success`, `forget_old` | the two loops above, each under a mutex |
| biometric watches (`bio.rs`, `finger.rs`, `face.rs`) | strikes per account, the follower's cancel handle | `watch`, `enrol`, `forget`, `set_policy` | fprintd, camera, policy store |
| policy store (`raven-finger/policy.rs`, `raven-face/policy.rs`) | a file per account | `load`, `save`, `remove` | the file system |
| sudo helper (`raven-finger-auth.rs`) | the terminal's echo, a signal handler | one verification in place of sudo's password | policy store, fprintd, a terminal |
| `raven-auth` | none | `people`, `admit`, `authenticate` | `/etc/passwd`, `/etc/shadow`, which others edit |
| `raven-greet-proto` | none | framing, encoding | every socket |
| `raven-lock` | lock state, workers, unlock deadline | key handling, workers' answers, frames | compositor, verify socket |
| `raven-greeter`, `raven-ui` | selected account, screen phase, watches | key handling, polling workers | greet socket |

What makes it hard: one thread per connection sharing a mutex held across
password checks and socket writes; three ways to prove who one is that race to
a single claim; clients that vanish at any step; a listener that outlives the
loop that serves it; a sensor that serves one caller at a time; files replaced
by rename; children that exit on their own; account files edited between two
reads; a terminal that is silent while a helper waits.

What each part has to get right:

* rate limiter: penalties neither wrap, nor lock anybody out, nor are
  forgotten early; guessing is bounded over any stretch of time;
* greet loop: no password is checked while its account is throttled; at most
  one login per greeting; the end of a greeting reaches every thread;
* verify socket: slots returned on every path; how far attempts that overlap can
  outrun the throttle; no slot kept by a client that has gone;
* watches: misses counted per account and sensor, no watch without a listener,
  one user of each sensor;
* policy store: a reader sees an old file or a new one, a crash leaves either;
* lock screen: never opened but by an accepted proof, always opened by one, and
  every output covered meanwhile;
* supervisor: children never outlive their phase, restarts slow down;
* greeter: the name the screen leaves with is the one that logs in, a sensor is
  shown only while it is watched, a screen is never left busy;
* `raven-auth`: nobody comes in whom a file shuts out, refusals that read the
  same cost the same, a finger opens what a password would;
* settings and sudo: no use of a finger is ever switched on without the
  password, switches do not outlive the records they were made for, the
  terminal speaks again.

`PROJECT.json` lists under `hazards` the places where each could go wrong and
that a test would hardly reach, with the properties about them.  Section 5 has
those that no property covers.

## 2. Modules

| Module | Models |
|---|---|
| `RateLimit` | the limiter, as operators on one account's record |
| `Guessing` | one account guessed at over time, one attempt after another |
| `GreetLoop` | the accept loop and its serve threads; composes `RateLimit` |
| `LoginRace` | abstract: a greeting returns the first claimant, or nobody; implemented by `GreetLoop` |
| `VerifySocket` | the verify socket's accept loop, slots and threads; composes `RateLimit` |
| `BioWatch` | conversations with the two sensors: budgets, the follower, rebinding |
| `PolicyFile` | one account's policy file, inode by inode, with crashes |
| `PolicyRegister` | abstract: a register with atomic saves; implemented by `PolicyFile` with one writer |
| `LockScreen` | the lock screen's one thread, its compositor, its watches and the connection it asks on |
| `SessionHold` | abstract: a hidden session is revealed only after a proof; implemented by `LockScreen` |
| `Supervisor` | the main thread of `ravend`: greetings, sessions, their children and the sockets these leave |
| `Seat` | abstract: the display has one holder, and a login starts its own session or none; implemented by `Supervisor` |
| `Accounts` | `raven-auth`'s rules about one passwd line and one shadow line, as operators |
| `Admission` | one attempt at a time on the two files, while others edit them; composes `Accounts` |
| `Screen` | the login screen's state, as operators on it |
| `Greeter` | the greeter's one thread, its watches, its exchange with the daemon, and the daemon; composes `Screen` |
| `SensorLines` | what each line of a sensor's service comes to, as operators |
| `Desk` | settings requests and the sudo helper around one sensor; composes `SensorLines` |
| `MCGreetLoop`, `MCVerifySocket`, `MCBioWatch`, `MCPolicyFile`, `MCAdmission`, `MCGreeter`, `MCDesk` | values of constants, and symmetry sets, for TLC |
| `GreetLoopProofs` (with those of `RateLimit` and `Guessing`), `VerifySocketProofs`, `BioWatchProofs`, `PolicyFileProofs`, `LockScreenProofs`, `SupervisorProofs`, `AdmissionProofs` (with those of `Screen` and `Greeter`), `DeskProofs` | theorems |

A module also holds, just before the definitions they vary, the mutants of its
definitions that `PROJECT.json` names; nothing but that list uses them.

### RateLimit and Guessing

A record is `[failures, last]`; a missing entry of the map is `NoRecord`, which
has no failures and so no delay.  `DelayFor` is the code's delay: the penalty
doubles per failure past the free ones by a shift whose amount is capped,
saturates, is cut at `MaxDelay`, and counts from the last failure by saturating
subtraction (`Monus`).  The failure counter saturates at the width of its type,
a constant, so that its boundary is reached.  `Guessing` lets time pass, guesses
be made whenever the limiter allows one, a success clear the record, and the
sweep run at any moment.  Its state has names of its own (`time`, `guesses`), so
that `GreetLoopProofs` can extend it beside `GreetLoop`.

### GreetLoop

Each connection is a place `pc[c]`: it waits in the listener's `backlog`, its
thread is `reading`, `queued` for the mutex, `checking` a password with the
mutex held, `replying` or `granting` (the write of the answer, still with the
mutex), `watching` a sensor, `admitted` (claimed, waiting for the mutex to
clear the record), `sending` the login, `ended`.  `inbox` is what the client
wrote and nobody has read; `hung` says that one end is shut.  `winner` is the
`granted` flag, with the connection that set it; `channel` is the mpsc of
logins.  The accept loop is `sup`: accept, receive, supervise, sweep in the
code's order, then `shut` (hang up every accepted stream), `join` (the scope),
`over`; `Greet` is the next turn of `run`, with a fresh flag, mutex and channel
but the same listener and limiter.

Abstracted: whether a password is right, whether a sensor matches, and whether
`admit` lets the account in are choices; messages without effect on the state
(`ListUsers`, `Wallpaper`, refused ones) are one kind, `query`; 200 ms sleeps
are absent, so an accept turn may follow another at once.  A thread killed by a
panic is not modelled.

### VerifySocket

`door` is the accept loop: it accepts, looks at the count of connections and
refuses at the cap (`CountIn`), then increments and spawns (`Spawn`), whose
failure gives the slot back.  `live` is the `AtomicUsize`.  A thread resolves
who is asking, reads requests, and for one with a password looks at the limiter
under its mutex (`Throttle`), checks without it, and takes it again to record
(`CheckDenied`, `CheckGranted`): `asked` keeps the `now` read before the check,
which is the time a failure is recorded at.  A watch that matches clears the
record.  `CountOut` is the thread's last statement.

What the settings requests change after a right password is the business of
`Desk` and `PolicyFile`; here they are an answer, or an enrolment that ends the
connection.

### BioWatch

A conversation is `idle`, reading its `budget`, `waiting` for the sensor,
`attaching` and `attached` (the handle stored, then the follower's flag looked
at), `sensing`, or `admitting` a match.  The follower of a client waits for its
hang-up, sets `gone`, and shuts the connection whose handle is stored: the two
orders of flag and handle on either side are the race the module is about.
`strikes` is the count per sensor and account, `aged` says that its last miss is
old enough for it to be forgotten, `misses` is the count of one `Sensor::watch`,
`rebinds` the failures in a row.  A sensor's daemon serves one connection at a
time (`served`), or somebody else altogether (`TakenElsewhere`).
`PasswordSucceeds` is what the greet loop and the verify socket do to an
account's strikes after a right password, and is here with the strikes; a match
(`Admit`) clears those of its sensor, and a watch that finds the last miss `aged`
(`ReadBudget`) does too.  A
watch's policy is read only when it starts.

### PolicyFile

The directory entries `live` and `tmp` point at inodes; `data` is what an inode
holds, `synced` and `onDisk` what the disk has of it and of the entries.  A save
opens the temporary name with truncation, writes, syncs and renames, each a
step that may fail; `WriteBack` and `FlushEntries` are the kernel's, and `Crash`
goes back to what the disk has.  Text is a policy, blank, or garbled: writing
over a longer text leaves a tail that does not parse, unless it is one line end.

### LockScreen

The process handles one thing at a time: compositor events (`OnLocked`,
`OnFinished`, `Plug`, `Unplug`, `Configure`, `Frame`), a sensor's events, keys,
timers.  `Free` is the guard of all of them: the process runs and no password is
being asked about, since `exchange` blocks the loop.  Handlers that follow in
the same dispatch still run after `exit` is set.  `surface` is an output's
surface on its way to being drawable, `pending` and `callbacks` are a surface's
`frame_pending` and what is really in flight.  `Accept` is `accept`: it takes
the watches down and draws; a draw of a dismissed screen may find that it has
gone (`is_dismissed` is a choice, the animation being data) and then
`FinishUnlock`; otherwise the deadline does.  `exchange` is `Send`, `AwaitFails`,
`Reconnect` and the `Answered...` actions, with its one retry; `owed` holds the
requests written to the present connection whose answers nobody has read.

The compositor and the daemon are modelled by what the lock screen sees of them.
The toolkit sends the unlock request only for a lock that the compositor has
confirmed, and the buffer of a first draw is always attached.  `proved` is a
history variable: the daemon, or a sensor by way of it, has accepted somebody.

### Supervisor

One place `at` in the loop of `run`, inside `greet`, `run_session` or
`handoff_keyring`; four children, each none, running, or exited and not given up
yet.  `greet` always comes through `stopUi` and `stopCompositor`, as
`run_session` does through `stopKeyring`: `Reaped` is the `try_wait` of `stop`,
`Kill` what it does when the grace is over.  A login ends the accept loop
(`LogsIn`), and so does the loss of a child or of the listener; how it comes
about is `GreetLoop`'s, and `LoginRace` is what the two share.

Sockets are what one part believes of another: `sockets[n]` is `wayland-<n>` in
the greeter's directory and `door[a]` the keyring socket of an account, none,
stale, or bound by the child that runs now.  A child that exits may remove its
socket or leave it, and the next one of its kind makes it stale.  `keys` says
that the keyring daemon has opened the keyring.

Abstracted: time (a wait ends, or its deadline does, and so the backoff's
length), the environment and ownership of what is started, the user's own
Wayland sockets, and the check that a pid still means the child.  A panic of
the main thread, and the daemon dying while its children live on, are not
modelled.

### Accounts and Admission

`Accounts` has `is_person`, `status`, `admit`, `authenticate` and the display
message as operators.  A passwd line is its uid and shell; a shadow line is a
kind of hash and the aging fields in days, each possibly unset.  An answer is a
result with the hashes computed to reach it, which is what a stopwatch sees.
`Admission` runs them as the code does: the day is asked once (`Begin`), passwd
is read (`ReadPasswd`), then shadow (`ReadShadow`), either may fail
(`ReadFails`), and `useradd`, `chsh`, `passwd`, `chage` or midnight come in
between.  `opened` is a history variable: which file was open to this attempt at
some moment of it.  It is said by `LineOpen` and `EntryOpen`, written apart from
the code's operators, so that the property compares two descriptions.

Abstracted: the splitting of a line (one that does not parse is absent), the hash
function (a well-formed hash is that of the password "right"), and the listing
of people, which changes nothing.

### Screen and Greeter

`Screen` has the methods of the screen's state that the greeter calls: who is
selected, busy, leaving, each sensor's row, the wash that lights a face.  The
springs of dots, words and colours are left out.

`Greeter` is the process: a compositor event or a key ends in `Draw`, which
first drains both watches' channels in the code's order (`Poll`) and then asks
for a frame callback, unless one is in flight or no buffer could be had
(`Painted`).  Inside a drain, one event may end a watch and with it the events
behind it (`Hear`); the loop over the events is the recursive function in
`Drain`, one turn per event.  `Enter` draws the busy screen, draining the sensors once
more, and blocks in the exchange: `ReadReply`, or on a failed read `Reconnect`
with one resend, or `GiveUp`.  `conn` holds the requests served and not read;
`own` tells those of the present exchange from older ones.  `strays` are the
accounts of dropped connections and watches the daemon still serves: their proof
may win the login with nobody there to read it.  Strays are forgotten once a
login is claimed, since no other can be.

Abstracted: a refusal, a failure and a reply of the wrong kind are one verdict,
as each says something and frees the keyboard; a sensor's denial and its end
are one event; a throttle may refuse any `Enter` (`Redraw`); the first
configure is answered in `Init`, where the answer about the wallpaper may still
be owed; `Closed` resets what the process had, which the run needs to be finite
and no property reads.

### SensorLines and Desk

`SensorLines` says what the clients of the two services make of a line, and what
the services do to their records: whose a listing counts, which a removal takes.

`Desk` is one sensor, the verify socket's threads that a settings panel talks to,
and the helper sudo runs.  The reader and the camera share nothing here, so a
behaviour has one of them (`sensor`).  A service accepts one connection at a
time (`holder`).  Setting switches is `SetPolicy` (load, compare), perhaps
`CheckPassword`, then `Save`.  Forgetting is `Forget`, then on the answered
connection `List` and, with nothing left, `Clear` the switches; a thread that
gives up leaves an `orphan`, a line that the service may still obey.  Enrolling
is the password, `Connected`, `Enrolled`, which may store its record after the
client has gone.  The helper asks (`SudoAsks`), turns the echo off (`Quiet`),
installs its handler and its guard (`GuardsInstalled`), waits for a line
(`Sensed`) or the end of the wait, and leaves in one of three ways.  "lost" is a
helper that is gone and has left the terminal silent.

History variables: `blessed`, the uses somebody who knew the password has saved;
`old`, the accounts whose switches are older than the going of their last
record; `late`, the threads about to save, without a password, switches that
were allowed by comparison with those; `excused`, the accounts for whom a step
of the removal failed, whose records somebody else has cleared, or whose old
switches a late save has put back after the removal.  Only the removal of the
switches, a save with the password (or of none), and a save compared after the
removal make an account's switches its own again.  A later removal that is the
account's own ends its excuse.

A save and a removal of the switches are one step here, since `PolicyFile` has
the steps of each.  The line of the PAM file that makes sudo run the helper is
not modelled.

## 3. Runs

| Run | Question | Bounds |
|---|---|---|
| `Guessing` | is guessing bounded and the owner never locked out? | 9 guesses in 16 ticks, one free, ceiling 3, width 3: the counter, the shift and the ceiling are all reached |
| `GreetSafe` | can a second connection slip an attempt in, or two logins come out of one greeting? | 2 connections, 1 account, 2 greetings, 2 threads, 1 tick |
| `GreetLive` | does a greeting end when it should, and a claim decide it? | 2 connections, 1 greeting, time frozen, fair threads |
| `VerifySafe` | are slots conserved, how far can attempts outrun the throttle, does a slot come back? | 3 connections on 2 slots, 1 account, no free attempt, 1 tick, fair threads |
| `BioWatch` | is every watch ended for a client that goes, and are budgets kept apart? | 2 conversations of 1 account, 2 sensors, 1 miss, 1 rebind, fair threads |
| `PolicyOneWriter` | is the file an atomic register? | 1 writer, 5 inodes, policies with none, one and all of 3 switches |
| `LockSafe` | is the session revealed only after a proof, and always after one? | 1 output, the camera, inboxes of 1, 2 owed answers, fair loop |
| `Supervisor` | is the seat ever shared, do keys outlive a session, does the login screen come back? | 2 accounts, 2 display numbers, children that may ignore being asked to exit, fair thread |
| `Admission` | does anybody come in past a file that is closed to them, and what do refusals give away? | 1 name, passwd lines of four kinds, shadow entries with every hash and every aging field at its edges, days 0 to 2 |
| `Greeter` | are the types kept, does the name stay, the row go, the match show and the keyboard come back? | none or 2 accounts, inboxes of 1, 2 owed answers, fair exchange and frames |
| `Desk` | can a switch come on, come back, or stand for sudo without the password, and can the echo stay off? | 2 threads, 2 accounts, 1 name of ours and 1 of another stack, 1 use, 1 miss, 1 orphan |
| `PolicyTwoWriters` (violation) | is the file whole after a crash? | 2 writers |

Two connections are enough for the races, which are all between a claimant, or
a checker, and one other.  A third is needed in `VerifySafe` to be refused at
the cap.  Two greetings are enough for what is carried over, the limiter and the
backlog.  `Guessing` is where time runs long; in `GreetSafe` and `VerifySafe`
one tick serves one whole penalty, the base delay being one.  The policies are
chosen for their lengths: a text with one switch more or less differs by one
character, which parses, and others by more, which do not.  `LockSafe` has the
camera and not the finger, which has the same handlers less the wash; an inbox
of one event still has a verdict unread while the screen leaves.  `Supervisor`
has a second account because keys and stale sockets pass from one to the next,
and a second display number because the lowest one found is not always the one
bound; its state is finite without a bound on greetings or sessions.

`Admission` has one name because an attempt reads the lines of one only; the
lines and days put every comparison on both sides of its edge.  In `Greeter` a
second account is what a Tab moves to, one unread event is enough for a drain to
find a verdict, and two owed answers for one exchange to read another's.  In
`Desk` two threads are every race of two requests, and the helper is a third
party; the odd name is a record the stack does not count, one orphan a removal
that comes late.  One use is enough, since switches are compared and kept
member by member.  Its 2.2 million states are the largest space here and take a
little over a minute.

`GreetSafe` declares its connections symmetric, `Desk` its threads and its
accounts, and the two policy runs their inodes; no run with a liveness property
uses symmetry.  `LockSafe` and `Greeter` do not check deadlock: the process ends.

The bound of `OverrunBounded` was found with TLC: attempts whose `now` is old
may reopen the throttle for others that are waiting, so the passwords checked
beyond the free ones are at most the triangular number of the slots per penalty
served, and no smaller bound holds with two slots.  `VerifySocketProofs` proves
it for any number of slots.  That there is any overrun is
the price of checking without the mutex, which `verify.rs:421` does not mention:
`GreetLoop`, which keeps it, has `PenaltiesArePaid` instead, an action property
that is proved and no run repeats.

### Where a comment and the code disagree

* `PolicyTwoWriters`: two saves of one account share the temporary file's name,
  and the second empties the inode that the first is about to rename
  (`policy.rs:79` promises the old file after a crash).

Reading turned up others, which no run here exhibits but the models allow where
they have the code concerned:

* a thread claims `granted` and then writes its answer; if the write fails the
  login is never sent and the flag stays set, so that every later password of
  the greeting is refused as "already starting" (`main.rs:719`; in `GreetLoop`);
* the misses an account gets are "counted across watches so that a client cannot
  buy three more by reconnecting" (`bio.rs:12`), and a new watch "gets only what
  is left" (`bio.rs:74`).  That is so of watches one after the other.  But a
  watch reads its budget before it waits for the sensor and keeps it, although
  the watch before it may have used some of it up (`finger.rs:322`): watches that
  wait side by side have a budget each.  `MissesBounded` of `BioWatch` is what
  does hold, one budget for each conversation that can be open, since the count
  was last cleared;
* an exchange that times out on its second attempt leaves its connection in use
  with an answer to come, which the next exchange reads as its own
  (`client.rs:63` of both screens; `late` in `Greeter`, `owed` in `LockScreen`,
  where a proof is still a proof, of an earlier password);
* two changes of switches that load, compare and save at the same time may put
  back a switch the other has turned off (`verify.rs:323`): what `Desk` shows is
  that it was once allowed;
* "re-enrolling one finger quietly brought back fingerprint sudo" is what the
  removal of the switches with the last record is there to prevent
  (`finger.rs:158-160`).  A change that widens nothing takes no password; one
  that is compared with the switches (`verify.rs:324-334`), held up while the
  last record and the switches go, and then saved, puts them back, and the next
  record finds them.  `Desk` has that behaviour: `ForgottenStaysOff` is violated
  at once if such a save (`late`) does not make its account `excused`;
* clearing the reader takes everybody's fingers, and the switches of the one who
  asked only (`finger.rs:149`): such accounts are `excused` in `Desk`;
* the helper's echo stays off if a signal comes between turning it off and the
  handler, or if neither descriptor for restoring it can be had
  (`raven-finger-auth.rs:389-413`): "lost" in `Desk`;
* a finger opens an account whose hash this build cannot check, though a
  password cannot (`lib.rs:237` of `raven-auth`): the exception
  `FingerFollowsPassword` states.

### Fairness

`GreetLoop`: weak fairness of the accept loop's steps, which only poll, and of
each thread's steps that do not wait for anybody: reading what is there, a
check, a write, ending a watch whose client is gone (the follower cancels it).
Steps that take the mutex are strongly fair: it is free between any two
attempts, each of which must come through a socket first.  A write to a client
that neither reads nor closes blocks for at most the socket's 10 s timeout and
then fails as for a closed one; `GreetLoop` has that failure for closed clients
only.

`VerifySocket`: weak fairness of the accept loop's two steps after an accept and
of the same steps of a thread; strong fairness of accepting each connection,
since the listener's queue is served in order.

`BioWatch`: the follower and the conversation's own steps run on, and waiting
for the sensor ends one way or the other, since it has a deadline.

`LockScreen`: an exchange goes on, since its socket has timeouts; the unlock
timer fires; a loop that has been told to end does; the compositor honours an
unlock.  Frames, keys, sensors and the daemon's answers are not assumed.

`Supervisor`: weak fairness of the thread's own steps taken together.  Each of its
waits has a deadline, `stop` ends in a kill that cannot be ignored, and the call
to the keyring is taken to return.  The wait for the session has no deadline and
none is assumed.

`Greeter`: the exchange goes on, since each of its reads has a timeout, and a
committed frame is signalled.  Nothing is assumed of keys, sensors, the daemon's
answers or of frames that failed.

`Desk` and `Admission` have safety properties only, and assume no fairness.

Nothing is assumed of clients, of time, of matches, or of failures: a client
that says nothing is never assumed to speak.

## 4. Theorems

All are proved for any value of the constants that the modules' assumptions
allow.  Two need the limits to be what an administrator means by them, which
`config.rs:174` does not check: it takes any numbers.  They are hypotheses of
the theorems, named where they are used: `LimitsBite` (a delay and a ceiling
that are not zero, and fewer free attempts than the counter can count) and
`LimitsOrdered` (a delay that is not zero, and neither longer than the ceiling
nor than the time after which failures are forgotten).

`GreetLoopProofs`, of the limiter, for every account record and all limits:

* `CeilingIsADelay`: `MaxDelay` after its last failure an account is open;
* `SweepChangesNothing`: a record old enough to be swept gives no delay now or
  later, and the next failure leaves the same entry with or without it.

`GreetLoopProofs`, of `Guessing`, for any limits, time and number of guesses:

* `GuessingTypes`, and `NeverLockedOut`: `[]NoLockout`, from `CeilingIsADelay`;
* `GuessingIsSlow`: under `LimitsBite`, `[]GuessRateBounded`.  `Slowed` relates
  the entry to the whole history: either it remembers the last guess and counts
  every guess less than `ForgetAfter` before it (`Remembered`), or all of them
  are older (`Forgotten`).  So a guess that passes the throttle has its delay
  behind it, a step for each guess past the free ones (`StepsPaid`), whatever
  the sweep has done; the last lemma turns the product into a quotient.

`GreetLoopProofs`, of the greeting, for any connections, accounts, limits and greetings:

* `TypeCorrect`, and `ThrottleHolds`: `[]ThrottleStillOpen`.  The invariant is
  not inductive: another thread could record a failure during the check.  The
  strengthening is `LockOwner` (a thread in the locked places is the holder of
  the mutex), so that only the checker itself can change a record by a failure;
* `PenaltiesPaid`: the action property follows from `ThrottleStillOpen`, since
  the step that adds a failure is made from `checking`;
* `AtMostOneLogin` and `ImplementsRace`, from `RaceInv`: a connection in a
  claimed place is the winner, an undelivered or delivered login is the
  winner's, and the three exclude each other.  `ImplementsRace` maps every step
  to a claim, a return or a stutter of `LoginRace`.

`VerifySocketProofs`, for any cap and any number of connections:

* `TypeCorrect` and `SlotsConserved`.  The look at the count and the increment
  are two steps, so `SlotsKept` needs `RoomSeen` (between them there is still
  room, because only the door adds) and `GuestHeld` (the connection being let
  in has no thread yet); the count is then the cardinality of the threads;
* `OverrunIsBounded`: under `LimitsOrdered`, `[]OverrunBounded`.  Time is counted
  in turns of one base delay.  Nothing passes the throttle within a turn in which
  a failure of that turn is on record (`PassesLate`): it is *shut*.  What opens it
  again is a failure of an *old* attempt, one asked in an earlier turn, which
  winds the record back; and an attempt can be old only in the slots there are.
  `WithinBudget` keeps, per account, twice the failures so far and to come in
  this turn below what the turns so far allow: `Cost` counts two for each failure,
  two for each attempt under way while the throttle is shut (a full house of them
  while it is open), and `Ways(j)`, which is what `j` old attempts, failing
  one by one and letting a full house in each time, come to.  A failure takes an
  old attempt or a fresh one away and pays for itself; the next turn makes the
  fresh ones old and adds `Overrun` to the budget (`CostOfTurn`), and the
  triangular number is `Ways(MaxConnections)`.  The invariant says nothing while
  the free attempts last, and needs the slots conserved (`SlotInv`), by which
  attempts under way are no more than the slots.

`BioWatchProofs`, for any number of conversations:

* `TypeCorrect`; its `Typed` adds what a conversation that is under way has;
* `AlwaysWoken`: `[]NeverDeaf`, by `FlagIsFollowers` (the flag is set exactly
  from the follower's first step) and `HandleStored` (a conversation past its
  attaching has its handle where the follower looks): whichever of the two comes
  second sees the other;
* `SensorsExclusive`: `[]OneServed`;
* `GuessesAtSensorsBounded`: `[]MissesBounded`, for the misses since the count
  was last cleared, not for all there ever are.  A watch reads its budget long
  before it uses it, so the count of misses alone is not inductive.  `Tokens` has
  one element for each miss that a conversation may still count, and
  `BudgetsKept` bounds misses counted and tokens together by a whole budget for
  each conversation of the account: a miss spends a token, and a new watch is
  given no more tokens than `MaxMisses` less what has been counted.

`PolicyFileProofs`, all but the types under `OneWriter`, which the two-writer
run shows to be needed:

* `TypeCorrect`, `CrashSafe`, `ReaderSafe` and `ImplementsRegister`.  The
  invariant keeps the live inode, the one on disk and the temporary one apart,
  and has a save's inode written before it is synced and synced before renamed.

`LockScreenProofs`, for any outputs, sensors and bounds:

* `TypeCorrect`.  That a sensor waiting to be retried has no watch is in the
  type invariant; it needs `VerdictLast` (a verdict is the last event of its
  watch, whose thread ends with it) and `RetryHeard`;
* `HoldsSession`: every step is one of `SessionHold`.  `Witnessed` follows a
  proof from where it is given (a sensor's event, an answer on the connection)
  to where it is read, whatever order the rest comes in, and `ProofFirst` from
  there through `unlocking` and the deadline to the unlock request;
* `AlwaysCovered`, from the types; `NeverTwoCallbacks`, from `Counted` (a
  surface has a callback in flight exactly when its flag is set);
  `NeverLeftWashed`, from `Watched` (whatever may yet be heard has a watch).

`SupervisorProofs`, for any accounts and any number of display numbers:

* `TypeCorrect`, and `ImplementsSeat`: `Spec => SeatSpec`.  The invariant behind it
  is `Placed`: each child can be anything but none only in the places between
  its start and the end of its stop, whichever way the thread came there, so the
  session starts when no compositor is left and the greeter's when no session is;
* `AlwaysOwnDisplay`, from `Cleared` and `Unbound`: between the preparation of the
  directory and the stop of the compositor no socket is stale, since only a
  spawn ages sockets and there is none bound at that time;
* `KeysDie`, from `Opened`: keys are open only in a daemon that runs.

`AdmissionProofs`, for any names, passwd lines, shadow lines and days:

* `AdmissionTypes` and `ClosedAccountsStayOut`.  The history is what makes the
  invariant inductive: `Underwritten` says that an attempt past passwd has seen
  it open, and the lemmas `PasswdPasses`, `UsableIsOpen` and `PasswordlessIsOpen`
  that what the code lets through is open by the other description;
* `RefusalsCost`, by cases on the status, from `Paid`;
* `FingerFollows`, which needs no history: it is a fact about every pair of
  lines (`FingerFollowsOnALine`), and so about the files at any moment.

`AdmissionProofs`, of the greeter, for any list of accounts and any length of the
channels and of what the daemon owes:

* `GreeterTypes`; `SessionIsForWhoLeaves`: `[]NameStays`; and `RowsFollowWatches`:
  `[]SensorsShown`, all from `GreeterInvariant`.  It says that a match still
  unread in a channel is the one that won, for whoever that watch is for
  (`ChannelOf`); that a watch is for the account that is selected (`For`), which
  may fail in the middle of a key's handler and so is apart from what holds even
  there (`Sound`); and that answers of the present exchange are about its account
  (`CallRight`).  `late` exempts the reply of an older exchange, as in the
  property;
* a drain is a loop over a channel of any length, and keeps the invariant because
  each event does (`DrainKeeps`).  The induction is over a *set* of turns
  (`TurnByTurn`, from `LeastElement`, from the well-foundedness of finite sets),
  and `LoopRuns` shows that the recursive function of the loop is well defined.

`DeskProofs`, for any threads, accounts, names of records, uses and bounds:

* `DeskTypes`; with it that whoever is about something is so for an account, and
  that what is enrolled has a name;
* `SwitchesGoBackToPassword`, from `Backed`: a thread that saves without having
  asked for a password saves nothing that was not allowed when it compared, and
  what has been allowed once stays so (`Kept`), however long the save is away;
* `FingerStandsForPassword`, from `Allowed`, which follows the helper from the
  switch it was started by to the verdict;
* `TerminalSpeaksAgain`: only a helper before its guards, or short of one of
  them, can leave the terminal silent;
* `OldSwitchesStayOff`, an action property.  The strengthening is `ClearInv`: an
  account with old switches and no excuse has no record, and the connection that
  took the last one is still held by the thread that is to take the switches.
  No enrolment can come in between, because it needs that connection.  A late
  save can: while the removal is under way it leaves the switches old, for the
  removal to take, and after it the account is excused, which is all the theorem
  gives away for it.

What is left to TLC is all liveness (`ShutdownCompletes`, `ClaimDecides`,
`SlotsComeBack`, `GoneIsOver`, `AcceptedOpens`, `KeyboardComesBack`,
`ScreenReturns`, `MatchSeen`, `KeyboardReturns`), which the prover does not do:
the fairness it rests on is a statement about `ENABLED`.  Every invariant, action
property and refinement that a passing run checks is proved.

## 5. Not modelled

* Drawing, fonts, themes, wallpaper and previews: no state another part depends
  on.
* The hash function: tested against vectors, a choice here.
* The framing of a message and its encoding: a message is a value, and a stream
  that stops in the middle of one is a read that fails.
* The line of sudo's PAM file, installed and removed by hand: two steps of one
  process.
* Parsing of configuration, dropping of privileges, installation scripts.

`PROJECT.json` lists each with its reason.

Hazards that no property covers:

* `ravend/src/main.rs:413`, `:419`: tabbing through faces opens a watch for each,
  which holds a slot until its thread notices the hang-up, and the accept loop
  keeps a clone of every stream to the end of the greeting.  `GreetLoop` has the
  slots but no client that opens without bound.
* `ravend/src/verify.rs:156`: a listener that keeps failing makes the loop spin.
  No state changes.
* `ravend/src/session.rs:337`: the keyring daemon's socket is not cleared as the
  compositor's is, so an older one may be taken for it.  `Supervisor` has it
  (`door`), and no promise of the code's to hold it to.
* `raven-lock/src/main.rs:385`, `:441`: the deadline passes before the compositor
  has confirmed the lock; a watch whose restart cannot connect is not tried
  again.  Both are steps of `LockScreen`.
* `raven-finger/src/policy.rs:57`: a policy that cannot be read counts as none,
  and the next change saves over it.

## 6. Bounds

`MaxClock` bounds time, and `MaxTime` that of `Guessing`, `MaxGreetings` the
turns of `run`, `MaxGuesses` the history of `Guessing`, `MaxDay` the days of `Admission`, `MaxInbox` a watch's
unread events, `MaxOwed` the daemon's unread answers and `MaxOrphans` the
removals nobody waits for; each is in the guards of the step that would pass it.
`Width` stands for the width of the limiter's counter and shift, and `Offers`
for the numbers of accounts the daemon may list.  `MaxLive`, `MaxConnections`,
`MaxMisses` and `MaxRebinds` are limits of the code itself.

## 7. Plan

The system's core is modelled: the daemon's loops and throttle, its sensors and
switches, the account rules, both screens, the sudo helper and the policy files.
What would add to it, in this order:

1. `Framing`: messages over a stream that stops anywhere, and a reader with a
   limit, as the lower half of every exchange.
2. `Greeter` by way of an abstract specification, as `LockScreen` has in
   `SessionHold`: what its proof keeps of the winner and the name on the screen
   is most of the mapping.
3. The lock screen with both sensors, once the runs can afford its states.
