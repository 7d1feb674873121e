-------------------------- MODULE LockScreenProofs --------------------------
(***************************************************************************)
(* Theorems about LockScreen, for any outputs, sensors and bounds: its     *)
(* types; that it implements SessionHold, so that the session is revealed  *)
(* only to somebody who has proved who they are; that every output is      *)
(* covered; that no surface has two callbacks in flight; and that the      *)
(* screen is washed only while the camera is watched.                      *)
(***************************************************************************)
EXTENDS LockScreen, SequenceTheorems, TLAPS

(* A verdict is the last event of its watch, whose thread ends with it. *)
VerdictLast ==
    \A s \in Sensors : \A i \in 1 .. Len(inbox[s]) :
        inbox[s][i] \in Verdicts => i = Len(inbox[s]) /\ s \notin thread

(* A watch to be retried has been heard to the end. *)
RetryHeard == \A s \in retry : inbox[s] = <<>>

Heard == UNION {Events(s) : s \in Sensors}

Request == [secret : Secrets, answer : {"none", "verified", "denied", "failed"}]

-----------------------------------------------------------------------------
(* What a draw leaves alone.                                               *)

HoldTyped ==
    /\ unlock \in {"unsent", "buffered", "flushed"}
    /\ held \in BOOLEAN
    /\ exit \in BOOLEAN

PaintTyped == pending \subseteq Outputs /\ callbacks \in [Outputs -> Nat]

LEMMA AsksTyped ==
    ASSUME NEW outputs \in SUBSET Outputs, NEW waiting \in SUBSET Outputs,
           NEW asked \in [Outputs -> Nat], NEW drawn \in Drawable(outputs),
           Asks(drawn, waiting, asked)
    PROVE  PaintTyped'
<1>1. drawn \subseteq Outputs
  BY DEF Drawable
<1>2. pending' \subseteq Outputs
  BY <1>1 DEF Asks
<1>3. callbacks' \in [Outputs -> Nat]
  BY <1>1 DEF Asks
<1> QED
  BY <1>2, <1>3 DEF PaintTyped

LEMMA FinishTyped == HoldTyped /\ FinishUnlock => HoldTyped'
  BY DEF HoldTyped, FinishUnlock

LEMMA DrawTyped ==
    ASSUME NEW outputs \in SUBSET Outputs, NEW waiting \in SUBSET Outputs,
           NEW asked \in [Outputs -> Nat], NEW dismissed,
           Draw(outputs, waiting, asked, dismissed), HoldTyped
    PROVE  PaintTyped' /\ HoldTyped'
<1>1. PICK drawn \in Drawable(outputs) :
         /\ Asks(drawn, waiting, asked)
         /\ \/ FinishUnlock
            \/ UNCHANGED hold
  BY DEF Draw
<1>2. PaintTyped'
  BY <1>1, AsksTyped
<1>3. HoldTyped'
  BY <1>1, FinishTyped DEF HoldTyped, hold
<1> QED
  BY <1>2, <1>3

LEMMA DrawAllTyped ==
    ASSUME DrawAll, HoldTyped, PaintTyped
    PROVE  PaintTyped' /\ HoldTyped'
  BY DrawTyped DEF DrawAll, PaintTyped

LEMMA AcceptTyped ==
    ASSUME Accept, HoldTyped, PaintTyped, deadline \in BOOLEAN
    PROVE  PaintTyped' /\ HoldTyped' /\ deadline' \in BOOLEAN
<1>1. CASE Draw(Outputs, pending, callbacks, TRUE) /\ deadline' = TRUE
  BY <1>1, DrawTyped DEF PaintTyped
<1>2. CASE /\ \E drawn \in Drawable(Outputs) : Asks(drawn, pending, callbacks)
           /\ FinishUnlock
           /\ UNCHANGED deadline
  <2>1. PaintTyped'
    BY <1>2, AsksTyped DEF PaintTyped
  <2> QED
    BY <1>2, <2>1, FinishTyped
<1> QED
  BY <1>1, <1>2 DEF Accept

-----------------------------------------------------------------------------
(* The parts of the state that change together.                            *)

ScreenTyped ==
    /\ session \in {"open", "hidden", "revealed"}
    /\ notices \in Seq({"locked", "finished"})
    /\ surface \in [Outputs -> {"unplugged", "bare", "new", "ready"}]
    /\ life \in {"running", "left", "dead"}
    /\ locked \in BOOLEAN /\ unlocking \in BOOLEAN /\ deadline \in BOOLEAN
    /\ busy \in BOOLEAN /\ typed \in BOOLEAN /\ throttled \in BOOLEAN
    /\ flash \in BOOLEAN /\ proved \in BOOLEAN

InboxTyped == inbox \in [Sensors -> Seq(Heard)]

WatchTyped ==
    /\ watch \subseteq Sensors
    /\ thread \subseteq Sensors
    /\ InboxTyped
    /\ retry \subseteq Sensors \ (watch \cup thread)
    /\ VerdictLast
    /\ RetryHeard

CallTyped ==
    /\ call \in {NoCall} \cup
          [stage : {"send", "await", "reconnect"}, try : {1, 2}, secret : Secrets]
    /\ conn \in {"up", "down"}
    /\ owed \in Seq(Request)
    /\ call.stage = "await" => owed # <<>>

Typed == ScreenTyped /\ PaintTyped /\ HoldTyped /\ WatchTyped /\ CallTyped

LEMMA TypedParts == Typed => TypeOK
  BY DEF Typed, TypeOK, ScreenTyped, PaintTyped, HoldTyped, WatchTyped,
         InboxTyped, CallTyped, Heard, Request

LEMMA InitTyped == Init => Typed
<1> SUFFICES ASSUME Init PROVE Typed
  OBVIOUS
<1>a. notices \in Seq({"locked", "finished"})
  BY DEF Init
<1>1. PaintTyped /\ HoldTyped
  BY DEF Init, PaintTyped, HoldTyped
<1>b. ScreenTyped
  BY <1>a DEF Init, ScreenTyped
<1>2. InboxTyped /\ VerdictLast /\ RetryHeard
  BY DEF Init, InboxTyped, VerdictLast, RetryHeard
<1>3. WatchTyped
  BY <1>2 DEF Init, WatchTyped
<1>4. CallTyped
  BY DEF Init, CallTyped, NoCall
<1> QED
  BY <1>1, <1>b, <1>3, <1>4 DEF Typed

(* What is taken from an inbox was its head, and leaves the rest in order. *)
LEMMA TakesTyped ==
    ASSUME NEW s \in Sensors, NEW events, WatchTyped, Takes(s, events)
    PROVE  /\ inbox' \in [Sensors -> Seq(Heard)]
           /\ Head(inbox[s]) = inbox[s][1]
           /\ \A r \in Sensors \ {s} : inbox'[r] = inbox[r]
           /\ Len(inbox'[s]) = Len(inbox[s]) - 1
           /\ \A i \in 1 .. Len(inbox'[s]) : inbox'[s][i] = inbox[s][i + 1]
           /\ inbox[s][1] \in Verdicts => inbox'[s] = <<>> /\ s \notin thread
           /\ s \notin retry
<1>1. inbox[s] \in Seq(Heard) /\ inbox[s] # <<>>
  BY DEF WatchTyped, InboxTyped, Takes
<1>2. /\ Tail(inbox[s]) \in Seq(Heard)
      /\ Len(Tail(inbox[s])) = Len(inbox[s]) - 1
      /\ \A i \in 1 .. Len(Tail(inbox[s])) : Tail(inbox[s])[i] = inbox[s][i + 1]
      /\ Head(inbox[s]) = inbox[s][1]
  BY <1>1
<1>3. inbox' = [inbox EXCEPT ![s] = Tail(inbox[s])]
  BY DEF Takes
<1>4. inbox'[s] = Tail(inbox[s])
  BY <1>3 DEF WatchTyped, InboxTyped
<1>5. inbox' \in [Sensors -> Seq(Heard)]
  BY <1>2, <1>3 DEF WatchTyped, InboxTyped
<1>6. \A r \in Sensors \ {s} : inbox'[r] = inbox[r]
  BY <1>3 DEF WatchTyped, InboxTyped
<1>7. ASSUME inbox[s][1] \in Verdicts
      PROVE  inbox'[s] = <<>> /\ s \notin thread
  <2>1. 1 \in 1 .. Len(inbox[s])
    BY <1>1
  <2>2. Len(inbox[s]) = 1 /\ s \notin thread
    BY <2>1, <1>7 DEF WatchTyped, VerdictLast
  <2>3. Len(Tail(inbox[s])) = 0
    BY <2>2, <1>2
  <2>4. Tail(inbox[s]) = <<>>
    BY <2>3, <1>2, EmptySeq
  <2> QED
    BY <2>2, <2>4, <1>4
<1>8. s \notin retry
  BY <1>1 DEF WatchTyped, RetryHeard
<1> QED
  BY <1>2, <1>4, <1>5, <1>6, <1>7, <1>8

(* Taking an event keeps the watches in order, whatever becomes of a watch *)
(* whose verdict has been taken.                                           *)
LEMMA TakenTyped ==
    ASSUME NEW s \in Sensors, NEW events, WatchTyped, Takes(s, events),
           watch' \subseteq watch, thread' = thread,
           retry' = retry \/ /\ retry' = retry \cup {s}
                             /\ s \notin watch'
                             /\ Head(inbox[s]) \in Verdicts
    PROVE  WatchTyped'
<1>1. InboxTyped'
  BY TakesTyped DEF InboxTyped
<1>2. VerdictLast'
  <2> SUFFICES ASSUME NEW r \in Sensors, NEW i \in 1 .. Len(inbox'[r]),
                      inbox'[r][i] \in Verdicts
               PROVE  i = Len(inbox'[r]) /\ r \notin thread'
    BY DEF VerdictLast
  <2>1. CASE r # s
    BY <2>1, TakesTyped DEF WatchTyped, VerdictLast
  <2>2. CASE r = s
    <3>1. inbox[s] \in Seq(Heard) /\ inbox'[s] \in Seq(Heard)
      BY TakesTyped DEF WatchTyped, InboxTyped
    <3>2. /\ inbox'[s][i] = inbox[s][i + 1]
          /\ Len(inbox'[s]) = Len(inbox[s]) - 1
      BY <2>2, TakesTyped
    <3>3. i + 1 \in 1 .. Len(inbox[s])
      BY <3>1, <3>2, <2>2
    <3> QED
      BY <3>1, <3>2, <3>3, <2>2 DEF WatchTyped, VerdictLast
  <2> QED
    BY <2>1, <2>2
<1>3. RetryHeard'
  <2> SUFFICES ASSUME NEW r \in retry' PROVE inbox'[r] = <<>>
    BY DEF RetryHeard
  <2>1. CASE r # s
    BY <2>1, TakesTyped DEF WatchTyped, RetryHeard
  <2>2. CASE r = s
    BY <2>2, TakesTyped
  <2> QED
    BY <2>1, <2>2
<1>4. retry' \subseteq Sensors \ (watch' \cup thread')
  BY TakesTyped DEF WatchTyped
<1> QED
  BY <1>1, <1>2, <1>3, <1>4 DEF WatchTyped

LEMMA HearTyped ==
    ASSUME NEW s \in Sensors, NEW event \in Events(s), WatchTyped, Hear(s, event)
    PROVE  WatchTyped'
<1>1. event \in Heard /\ inbox[s] \in Seq(Heard)
  BY DEF Heard, WatchTyped, InboxTyped
<1>2. inbox' = [inbox EXCEPT ![s] = Append(inbox[s], event)]
  BY DEF Hear
<1>3. /\ Append(inbox[s], event) \in Seq(Heard)
      /\ Len(Append(inbox[s], event)) = Len(inbox[s]) + 1
      /\ \A i \in 1 .. Len(inbox[s]) : Append(inbox[s], event)[i] = inbox[s][i]
      /\ Append(inbox[s], event)[Len(inbox[s]) + 1] = event
  BY <1>1
<1>4. InboxTyped' /\ inbox'[s] = Append(inbox[s], event)
      /\ \A r \in Sensors \ {s} : inbox'[r] = inbox[r]
  BY <1>2, <1>3 DEF WatchTyped, InboxTyped
<1>5. /\ s \in thread /\ UNCHANGED <<watch, retry>>
      /\ thread' = IF event \in Verdicts THEN thread \ {s} ELSE thread
  BY DEF Hear
<1>6. VerdictLast'
  <2> SUFFICES ASSUME NEW r \in Sensors, NEW i \in 1 .. Len(inbox'[r]),
                      inbox'[r][i] \in Verdicts
               PROVE  i = Len(inbox'[r]) /\ r \notin thread'
    BY DEF VerdictLast
  <2>1. CASE r # s
    BY <2>1, <1>4, <1>5 DEF WatchTyped, VerdictLast
  <2>2. CASE r = s /\ i \in 1 .. Len(inbox[s])
    BY <2>2, <1>3, <1>4, <1>5 DEF WatchTyped, VerdictLast
  <2>3. CASE r = s /\ i = Len(inbox[s]) + 1
    BY <2>3, <1>3, <1>4, <1>5
  <2> QED
    BY <2>1, <2>2, <2>3, <1>1, <1>3, <1>4
<1>7. RetryHeard'
  BY <1>4, <1>5 DEF WatchTyped, RetryHeard
<1> QED
  BY <1>4, <1>5, <1>6, <1>7 DEF WatchTyped

-----------------------------------------------------------------------------
(* Each group of steps keeps the types.                                    *)

LEMMA Same ==
    /\ PaintTyped /\ UNCHANGED paint => PaintTyped'
    /\ HoldTyped /\ UNCHANGED hold => HoldTyped'
    /\ WatchTyped /\ UNCHANGED watches => WatchTyped'
    /\ CallTyped /\ UNCHANGED <<call, wire>> => CallTyped'
<1>1. PaintTyped /\ UNCHANGED paint => PaintTyped'
  BY DEF PaintTyped, paint
<1>2. HoldTyped /\ UNCHANGED hold => HoldTyped'
  BY DEF HoldTyped, hold
<1>3. WatchTyped /\ UNCHANGED watches => WatchTyped'
  BY DEF WatchTyped, InboxTyped, VerdictLast, RetryHeard, watches
<1>4. CallTyped /\ UNCHANGED <<call, wire>> => CallTyped'
  BY DEF CallTyped, wire
<1> QED
  BY <1>1, <1>2, <1>3, <1>4

LEMMA CompositorTyped == Typed /\ Compositor => Typed'
<1> SUFFICES ASSUME Typed, Compositor PROVE Typed'
  OBVIOUS
<1>1. /\ UNCHANGED paint /\ UNCHANGED hold /\ UNCHANGED watches
      /\ UNCHANGED <<call, wire>>
  BY DEF Compositor, Hides, Refuses, TakesAway, Reveals
<1>2. notices' \in Seq({"locked", "finished"})
  <2>1. notices \in Seq({"locked", "finished"})
    BY DEF Typed, ScreenTyped
  <2>2. \/ notices' = notices
        \/ notices' = <<"locked">>
        \/ notices' = <<"finished">>
        \/ notices' = Append(notices, "finished")
    BY DEF Compositor, Hides, Refuses, TakesAway, Reveals, compositor
  <2>3. <<"locked">> \in Seq({"locked", "finished"})
        /\ <<"finished">> \in Seq({"locked", "finished"})
    OBVIOUS
  <2>4. Append(notices, "finished") \in Seq({"locked", "finished"})
    BY <2>1
  <2> QED
    BY <2>1, <2>2, <2>3, <2>4
<1>3. /\ session' \in {"open", "hidden", "revealed"}
      /\ UNCHANGED <<surface, life, locked, unlocking, deadline, screen, flash,
                     proved>>
  BY DEF Compositor, Hides, Refuses, TakesAway, Reveals, Typed, ScreenTyped
<1>4. ScreenTyped'
  BY <1>2, <1>3 DEF Typed, ScreenTyped, screen
<1> QED
  BY <1>1, <1>4, Same DEF Typed

LEMMA ToldTyped == Typed /\ Told => Typed'
<1> SUFFICES ASSUME Typed, Told PROVE Typed'
  OBVIOUS
<1>a. ScreenTyped /\ PaintTyped /\ HoldTyped /\ WatchTyped /\ CallTyped
  BY DEF Typed
<1>b. notices # <<>> => Tail(notices) \in Seq({"locked", "finished"})
  BY <1>a DEF ScreenTyped
<1>1. CASE OnLocked
  <2>1. ScreenTyped'
    BY <1>1, <1>a, <1>b DEF OnLocked, Cover, ScreenTyped, screen
  <2> QED
    BY <1>1, <2>1, <1>a, Same DEF OnLocked, Typed
<1>2. CASE OnFinished
  <2>1. ScreenTyped'
    BY <1>2, <1>a, <1>b DEF OnFinished, ScreenTyped, screen
  <2>2. HoldTyped'
    BY <1>2, <1>a DEF OnFinished, HoldTyped
  <2> QED
    BY <1>2, <2>1, <2>2, <1>a, Same DEF OnFinished, Typed
<1>3. ASSUME NEW o \in Outputs, Plug(o) PROVE Typed'
  <2>1. ScreenTyped'
    BY <1>3, <1>a DEF Plug, ScreenTyped, screen, compositor
  <2> QED
    BY <1>3, <2>1, <1>a, Same DEF Plug, Typed
<1>4. ASSUME NEW o \in Outputs, Unplug(o) PROVE Typed'
  <2>1. ScreenTyped'
    BY <1>4, <1>a DEF Unplug, ScreenTyped, screen, compositor
  <2>2. PaintTyped'
    BY <1>4, <1>a DEF Unplug, PaintTyped
  <2> QED
    BY <1>4, <2>1, <2>2, <1>a, Same DEF Unplug, Typed
<1>5. ASSUME NEW o \in Outputs, Configure(o) PROVE Typed'
  <2>1. ScreenTyped'
    BY <1>5, <1>a DEF Configure, ScreenTyped, screen, compositor
  <2>2. PaintTyped' /\ HoldTyped'
    <3>1. Draw({o}, pending, callbacks, unlocking)
      BY <1>5 DEF Configure
    <3> QED
      BY <3>1, <1>a, DrawTyped DEF PaintTyped
  <2> QED
    BY <1>5, <2>1, <2>2, <1>a, Same DEF Configure, Typed
<1>6. ASSUME NEW o \in Outputs, Frame(o) PROVE Typed'
  <2>1. ScreenTyped'
    BY <1>6, <1>a DEF Frame, ScreenTyped, screen, compositor
  <2>2. PaintTyped' /\ HoldTyped'
    <3>1. /\ Draw({o}, pending \ {o}, [callbacks EXCEPT ![o] = @ - 1], unlocking)
          /\ callbacks[o] > 0
      BY <1>6 DEF Frame
    <3>2. [callbacks EXCEPT ![o] = @ - 1] \in [Outputs -> Nat]
      BY <3>1, <1>a DEF PaintTyped
    <3>3. pending \ {o} \in SUBSET Outputs
      BY <1>a DEF PaintTyped
    <3> QED
      BY <3>1, <3>2, <3>3, <1>a, DrawTyped
  <2> QED
    BY <1>6, <2>1, <2>2, <1>a, Same DEF Frame, Typed
<1> QED
  BY <1>1, <1>2, <1>3, <1>4, <1>5, <1>6 DEF Told

LEMMA WatchingTyped ==
    ASSUME NEW s \in Sensors, Typed, Watching(s)
    PROVE  Typed'
<1>a. ScreenTyped /\ PaintTyped /\ HoldTyped /\ WatchTyped /\ CallTyped
  BY DEF Typed
<1>b. deadline \in BOOLEAN /\ watch \subseteq Sensors
  BY <1>a DEF ScreenTyped, WatchTyped
<1>1. ASSUME NEW event \in Events(s), Hear(s, event) PROVE Typed'
  <2>1. ScreenTyped'
    BY <1>1, <1>a DEF Hear, ScreenTyped, screen, compositor
  <2> QED
    BY <1>1, <2>1, <1>a, HearTyped, Same DEF Hear, Typed
<1>2. CASE IgnoresEvent(s)
  <2>1. ScreenTyped'
    BY <1>2, <1>a DEF IgnoresEvent, ScreenTyped, screen, compositor
  <2>2. WatchTyped'
    BY <1>2, <1>a, TakenTyped DEF IgnoresEvent
  <2> QED
    BY <1>2, <2>1, <2>2, <1>a, Same DEF IgnoresEvent, Typed
<1>3. CASE ShowsEvent(s)
  <2>1. ScreenTyped'
    BY <1>3, <1>a DEF ShowsEvent, ScreenTyped, screen, compositor
  <2>2. WatchTyped'
    BY <1>3, <1>a, TakenTyped DEF ShowsEvent
  <2> QED
    BY <1>3, <2>1, <2>2, <1>a, DrawAllTyped, Same DEF ShowsEvent, Typed
<1>4. CASE AcceptsEvent(s)
  <2>1. Accept /\ UNCHANGED <<surface, compositor, locked, life, typed,
                              throttled, proved>>
    BY <1>4 DEF AcceptsEvent
  <2>2. PaintTyped' /\ HoldTyped' /\ deadline' \in BOOLEAN
    BY <2>1, <1>a, <1>b, AcceptTyped
  <2>3. ScreenTyped'
    BY <2>1, <2>2, <1>a DEF Accept, ScreenTyped, compositor
  <2>4. WatchTyped'
    BY <1>4, <1>a, TakenTyped DEF AcceptsEvent, Accept
  <2> QED
    BY <1>4, <2>2, <2>3, <2>4, <1>a, Same DEF AcceptsEvent, Typed
<1>5. CASE DropsWatch(s)
  <2>1. ScreenTyped'
    BY <1>5, <1>a DEF DropsWatch, Unwatched, ScreenTyped, screen, compositor
  <2>2. WatchTyped'
    BY <1>5, <1>a, TakenTyped DEF DropsWatch, Unwatched, Verdicts
  <2> QED
    BY <1>5, <2>1, <2>2, <1>a, DrawAllTyped, Same DEF DropsWatch, Typed
<1>6. CASE RetryFires(s)
  <2>1. ScreenTyped'
    <3>1. flash' \in {flash, FALSE}
      BY <1>6 DEF RetryFires, Unwatched
    <3>2. UNCHANGED <<session, notices, surface, locked, unlocking, deadline, life,
                      busy, typed, throttled, proved>>
      BY <1>6 DEF RetryFires, screen, compositor
    <3>3. flash' \in BOOLEAN
      BY <3>1, <1>a DEF ScreenTyped
    <3> QED
      BY <3>2, <3>3, <1>a DEF ScreenTyped
  <2>2. /\ inbox' = inbox /\ retry' = retry \ {s} /\ s \in retry
        /\ watch' \in {watch, watch \ {s}, watch \cup {s}}
        /\ thread' \in {thread, thread \cup {s}}
    BY <1>6 DEF RetryFires, Unwatched
  <2>3. inbox[s] = <<>>
    BY <2>2, <1>a DEF WatchTyped, RetryHeard
  <2>4. VerdictLast'
    BY <2>2, <2>3, <1>a DEF WatchTyped, VerdictLast
  <2>5. WatchTyped'
    BY <2>2, <2>4, <1>a DEF WatchTyped, InboxTyped, RetryHeard
  <2> QED
    BY <1>6, <2>1, <2>5, <1>a, Same DEF RetryFires, Typed
<1> QED
  BY <1>1, <1>2, <1>3, <1>4, <1>5, <1>6 DEF Watching

LEMMA KeysTyped == Typed /\ Keys => Typed'
<1> SUFFICES ASSUME Typed, Keys PROVE Typed'
  OBVIOUS
<1>a. ScreenTyped /\ PaintTyped /\ HoldTyped /\ WatchTyped /\ CallTyped
  BY DEF Typed
<1>1. ASSUME Key PROVE PaintTyped' /\ HoldTyped' /\ WatchTyped'
  BY <1>1, <1>a, DrawAllTyped, Same DEF Key
<1>2. CASE Types \/ Erases
  <2>1. ScreenTyped'
    <3>1. CASE Types
      BY <3>1, <1>a DEF Types, Key, ScreenTyped, compositor
    <3>2. CASE Erases
      BY <3>2, <1>a DEF Erases, Key, ScreenTyped, compositor
    <3> QED
      BY <1>2, <3>1, <3>2
  <2> QED
    BY <1>2, <2>1, <1>1, <1>a, Same DEF Types, Erases, Key, Typed
<1>3. ASSUME NEW secret \in Secrets, Submit(secret) PROVE Typed'
  <2>1. ScreenTyped'
    BY <1>3, <1>a DEF Submit, Key, ScreenTyped, compositor
  <2>2. CallTyped'
    BY <1>3, <1>a DEF Submit, Key, CallTyped, wire
  <2> QED
    BY <1>3, <2>1, <2>2, <1>1 DEF Submit, Typed
<1>4. CASE ThrottleEnds
  <2>1. ScreenTyped'
    BY <1>4, <1>a DEF ThrottleEnds, ScreenTyped, compositor
  <2> QED
    BY <1>4, <2>1, <1>a, Same DEF ThrottleEnds, Typed
<1> QED
  BY <1>2, <1>3, <1>4 DEF Keys

(* A call that ends, or goes on to its next stage. *)
LEMMA IdleTyped ==
    ASSUME Idle, Typed
    PROVE  /\ PaintTyped' /\ HoldTyped'
           /\ busy' = FALSE /\ call' = NoCall /\ UNCHANGED surface
  BY DrawAllTyped DEF Idle, Typed

LEMMA FailsTyped ==
    ASSUME ExchangeFails, Typed, call # NoCall
    PROVE  /\ PaintTyped' /\ HoldTyped'
           /\ busy' \in BOOLEAN /\ UNCHANGED surface
           /\ call' \in {NoCall, [call EXCEPT !.stage = "reconnect"]}
<1>1. CASE Idle
  BY <1>1, IdleTyped
<1>2. CASE /\ call' = [call EXCEPT !.stage = "reconnect"]
           /\ UNCHANGED <<busy, surface, paint, hold>>
  BY <1>2, Same DEF Typed, ScreenTyped
<1> QED
  BY <1>1, <1>2 DEF ExchangeFails

LEMMA ExchangeTyped == Typed /\ Exchange => Typed'
<1> SUFFICES ASSUME Typed, Exchange PROVE Typed'
  OBVIOUS
<1>a. ScreenTyped /\ PaintTyped /\ HoldTyped /\ WatchTyped /\ CallTyped
  BY DEF Typed
<1> DEFINE Calls == [stage : {"send", "await", "reconnect"}, try : {1, 2},
                     secret : Secrets]
<1>b. call # NoCall => call \in Calls
  BY <1>a DEF CallTyped
<1>c. NoCall.stage = "none"
  BY DEF NoCall
<1>d. ASSUME OffLoop, throttled' \in BOOLEAN, busy' \in BOOLEAN, UNCHANGED surface
      PROVE  ScreenTyped' /\ WatchTyped'
  BY <1>d, <1>a, Same DEF OffLoop, ScreenTyped, compositor
<1>e. throttled \in BOOLEAN /\ busy \in BOOLEAN
  BY <1>a DEF ScreenTyped
<1>1. CASE Send
  <2>1. call.stage = "send" /\ call \in Calls /\ UNCHANGED <<conn, throttled>>
        /\ OffLoop
    BY <1>1, <1>b, <1>c DEF Send, Calling
  <2>2. CASE /\ owed' = Append(owed, [secret |-> call.secret, answer |-> "none"])
             /\ call' = [call EXCEPT !.stage = "await"]
             /\ UNCHANGED <<busy, surface, paint, hold>>
    <3>1. [secret |-> call.secret, answer |-> "none"] \in Request
      BY <2>1 DEF Request
    <3>2. owed' \in Seq(Request) /\ owed' # <<>>
      BY <3>1, <2>2, <1>a, AppendProperties DEF CallTyped
    <3>3. call' \in Calls
      BY <2>1, <2>2
    <3>4. CallTyped'
      BY <3>2, <3>3, <2>1, <1>a DEF CallTyped
    <3> QED
      BY <3>4, <2>1, <2>2, <1>a, <1>d, <1>e, Same DEF Typed
  <2>3. CASE ExchangeFails /\ UNCHANGED owed
    <3>1. CallTyped'
      BY <2>1, <2>3, <1>a, <1>c, FailsTyped DEF CallTyped
    <3> QED
      BY <3>1, <2>1, <2>3, <1>c, <1>d, <1>e, FailsTyped DEF Typed
  <2> QED
    BY <1>1, <2>2, <2>3 DEF Send
<1>2. CASE AwaitFails
  <2>1. call.stage = "await" /\ call \in Calls /\ UNCHANGED <<wire, throttled>>
        /\ OffLoop /\ ExchangeFails
    BY <1>2, <1>b, <1>c DEF AwaitFails, Calling
  <2>2. CallTyped'
    BY <2>1, <1>a, <1>c, FailsTyped DEF CallTyped, wire
  <2> QED
    BY <2>1, <2>2, <1>c, <1>d, <1>e, FailsTyped DEF Typed
<1>3. CASE Reconnect
  <2>1. call.stage = "reconnect" /\ call \in Calls /\ UNCHANGED throttled /\ OffLoop
    BY <1>3, <1>b, <1>c DEF Reconnect, Calling
  <2>2. CASE /\ conn' = "up" /\ owed' = <<>>
             /\ call' = [call EXCEPT !.stage = "send", !.try = 2]
             /\ UNCHANGED <<busy, surface, paint, hold>>
    <3>1. call' \in Calls /\ call'.stage = "send"
      BY <2>1, <2>2
    <3>2. owed' \in Seq(Request)
      BY <2>2
    <3>3. CallTyped'
      BY <3>1, <3>2, <2>2 DEF CallTyped
    <3> QED
      BY <3>3, <2>1, <2>2, <1>a, <1>d, <1>e, Same DEF Typed
  <2>3. CASE Idle /\ UNCHANGED wire
    <3>1. CallTyped'
      BY <2>3, <1>a, <1>c, IdleTyped DEF CallTyped, wire
    <3> QED
      BY <3>1, <2>1, <2>3, <1>d, <1>e, IdleTyped DEF Typed
  <2> QED
    BY <1>3, <2>2, <2>3 DEF Reconnect
<1>4. ASSUME NEW answer, Answered(answer), call' = NoCall PROVE CallTyped'
  <2>1. call.stage = "await" /\ owed' = Tail(owed) /\ UNCHANGED conn
    BY <1>4 DEF Answered, Calling
  <2>2. owed' \in Seq(Request)
    BY <2>1, <1>a, HeadTailProperties DEF CallTyped
  <2> QED
    BY <1>4, <2>1, <2>2, <1>a, <1>c DEF CallTyped
<1>5. CASE AnsweredVerified
  <2>1. Accept /\ UNCHANGED <<surface, compositor, locked, life, typed, throttled,
                              thread, inbox, retry, proved>>
    BY <1>5 DEF AnsweredVerified
  <2>2. PaintTyped' /\ HoldTyped' /\ deadline' \in BOOLEAN
    BY <2>1, <1>a, AcceptTyped DEF ScreenTyped
  <2>3. ScreenTyped'
    BY <2>1, <2>2, <1>a DEF Accept, ScreenTyped, compositor
  <2>4. WatchTyped'
    BY <2>1, <1>a DEF Accept, WatchTyped, InboxTyped, VerdictLast, RetryHeard
  <2>5. CallTyped'
    BY <1>5, <1>4 DEF AnsweredVerified
  <2> QED
    BY <2>2, <2>3, <2>4, <2>5 DEF Typed
<1>6. CASE AnsweredDenied \/ AnsweredFailed
  <2>1. Idle /\ throttled' \in BOOLEAN /\ OffLoop
    BY <1>6, <1>e DEF AnsweredDenied, AnsweredFailed
  <2>2. CallTyped'
    BY <1>6, <1>4, <2>1, IdleTyped DEF AnsweredDenied, AnsweredFailed
  <2> QED
    BY <2>1, <2>2, <1>d, IdleTyped DEF Typed
<1> QED
  BY <1>1, <1>2, <1>3, <1>5, <1>6 DEF Exchange

LEMMA DaemonTyped == Typed /\ Daemon => Typed'
<1> SUFFICES ASSUME Typed, Daemon PROVE Typed'
  OBVIOUS
<1>a. ScreenTyped /\ PaintTyped /\ HoldTyped /\ WatchTyped /\ CallTyped
  BY DEF Typed
<1>1. ASSUME NEW i, NEW answer \in {"verified", "denied", "failed"},
             DaemonAnswers(i, answer)
      PROVE  Typed'
  <2>1. ScreenTyped'
    BY <1>1, <1>a DEF DaemonAnswers, ScreenTyped, screen, compositor
  <2>2. CallTyped'
    <3>1. owed \in Seq(Request) /\ i \in 1 .. Len(owed)
      BY <1>1, <1>a DEF DaemonAnswers, CallTyped
    <3>a. owed[i] \in Request
      BY <3>1, ElementOfSeq
    <3>2. [owed[i] EXCEPT !.answer = answer] \in Request
      BY <3>a, <1>1 DEF Request
    <3>3. owed' = [owed EXCEPT ![i] = [owed[i] EXCEPT !.answer = answer]]
      BY <1>1 DEF DaemonAnswers
    <3>4. owed' \in Seq(Request) /\ Len(owed') = Len(owed)
      BY <3>1, <3>2, <3>3, ExceptSeq
    <3>5. owed' # <<>>
      BY <3>1, <3>4
    <3> QED
      BY <1>1, <3>4, <3>5, <1>a DEF DaemonAnswers, CallTyped
  <2> QED
    BY <1>1, <2>1, <2>2, <1>a, Same DEF DaemonAnswers, Typed
<1>2. CASE DaemonHangsUp
  <2>1. ScreenTyped'
    BY <1>2, <1>a DEF DaemonHangsUp, ScreenTyped, screen, compositor
  <2>2. CallTyped'
    BY <1>2, <1>a DEF DaemonHangsUp, CallTyped
  <2> QED
    BY <1>2, <2>1, <2>2, <1>a, Same DEF DaemonHangsUp, Typed
<1> QED
  BY <1>1, <1>2 DEF Daemon

LEMMA EndTyped == Typed /\ (DeadlineFires \/ Leave \/ Dies) => Typed'
<1> SUFFICES ASSUME Typed, DeadlineFires \/ Leave \/ Dies PROVE Typed'
  OBVIOUS
<1>a. ScreenTyped /\ PaintTyped /\ HoldTyped /\ WatchTyped /\ CallTyped
  BY DEF Typed
<1>1. ScreenTyped'
  <2>1. CASE DeadlineFires
    BY <1>a, <2>1 DEF DeadlineFires, ScreenTyped, screen, compositor
  <2>2. CASE Leave
    BY <1>a, <2>2 DEF Leave, ScreenTyped, screen, compositor
  <2>3. CASE Dies
    BY <1>a, <2>3 DEF Dies, ScreenTyped, screen, compositor
  <2> QED
    BY <2>1, <2>2, <2>3
<1>2. HoldTyped'
  BY <1>a, FinishTyped DEF DeadlineFires, Leave, Dies, HoldTyped, hold
<1> QED
  BY <1>1, <1>2, <1>a, Same DEF DeadlineFires, Leave, Dies, Typed

LEMMA NextTyped == Typed /\ [Next]_vars => Typed'
<1> SUFFICES ASSUME Typed, [Next]_vars PROVE Typed'
  OBVIOUS
<1>1. CASE UNCHANGED vars
  <2>1. ScreenTyped'
    BY <1>1 DEF vars, Typed, ScreenTyped, screen, compositor
  <2> QED
    BY <1>1, <2>1, Same DEF vars, Typed
<1> QED
  BY <1>1, CompositorTyped, ToldTyped, WatchingTyped, KeysTyped, ExchangeTyped,
     DaemonTyped, EndTyped
     DEF Next

LEMMA AlwaysTyped == Spec => []Typed
  BY InitTyped, NextTyped, PTL DEF Spec

(* The lock screen keeps its types, and with them the order of its watches: *)
(* no sensor waits to be retried while a watch of it is there or listens.   *)
THEOREM TypeCorrect == Spec => []TypeOK
  BY AlwaysTyped, TypedParts, PTL

-----------------------------------------------------------------------------
(* The session is held.                                                    *)

(* Whoever is let in has proved who they are: what says so, says it in     *)
(* some inbox, some answer, or the lock's own flags.                       *)
Witnessed ==
    /\ \A s \in Sensors : \A i \in 1 .. Len(inbox[s]) :
          inbox[s][i] = "verified" => proved
    /\ \A i \in 1 .. Len(owed) : owed[i].answer = "verified" => proved

ProofFirst ==
    /\ unlocking => proved
    /\ deadline => unlocking
    /\ unlock # "unsent" => proved

Proven == Typed /\ Witnessed /\ ProofFirst

LEMMA InitProven == Init => Proven
<1> SUFFICES ASSUME Init PROVE Witnessed /\ ProofFirst
  BY InitTyped DEF Proven
<1>1. Len(owed) = 0 /\ \A s \in Sensors : Len(inbox[s]) = 0
  BY DEF Init
<1> QED
  BY <1>1 DEF Init, Witnessed, ProofFirst

(* Where a proof can come from, and what a step does with the old ones. *)
LEMMA WitnessedSame ==
    ASSUME Witnessed, UNCHANGED <<inbox, owed>>, proved => proved'
    PROVE  Witnessed'
  BY DEF Witnessed

LEMMA WitnessedTakes ==
    ASSUME Typed, Witnessed, NEW s \in Sensors, NEW events, Takes(s, events),
           UNCHANGED <<owed, proved>>
    PROVE  /\ Witnessed'
           /\ Head(inbox[s]) = "verified" => proved
<1>a. WatchTyped
  BY DEF Typed
<1>1. inbox[s] \in Seq(Heard) /\ inbox[s] # <<>> /\ inbox'[s] \in Seq(Heard)
  BY <1>a, TakesTyped DEF WatchTyped, InboxTyped, Takes
<1>2. \A i \in 1 .. Len(inbox'[s]) : i + 1 \in 1 .. Len(inbox[s])
  BY <1>a, <1>1, TakesTyped
<1>3. \A r \in Sensors : \A i \in 1 .. Len(inbox'[r]) :
         inbox'[r][i] = "verified" => proved
  BY <1>a, <1>2, TakesTyped DEF Witnessed
<1>4. 1 \in 1 .. Len(inbox[s]) /\ Head(inbox[s]) = inbox[s][1]
  BY <1>1
<1> QED
  BY <1>3, <1>4 DEF Witnessed

LEMMA WitnessedHears ==
    ASSUME Typed, Witnessed, NEW s \in Sensors, NEW event \in Events(s),
           Hear(s, event)
    PROVE  Witnessed'
<1>1. inbox[s] \in Seq(Heard) /\ event \in Heard
  BY DEF Typed, WatchTyped, InboxTyped, Heard
<1>2. inbox' = [inbox EXCEPT ![s] = Append(inbox[s], event)]
      /\ proved' = (proved \/ event = "verified") /\ owed' = owed
  BY DEF Hear, wire
<1>3. /\ Len(Append(inbox[s], event)) = Len(inbox[s]) + 1
      /\ \A i \in 1 .. Len(inbox[s]) : Append(inbox[s], event)[i] = inbox[s][i]
      /\ Append(inbox[s], event)[Len(inbox[s]) + 1] = event
  BY <1>1
<1>4. inbox'[s] = Append(inbox[s], event)
      /\ \A r \in Sensors \ {s} : inbox'[r] = inbox[r]
  BY <1>2 DEF Typed, WatchTyped, InboxTyped
<1>5. ASSUME NEW i \in 1 .. Len(inbox'[s]), inbox'[s][i] = "verified"
      PROVE  proved'
  <2>1. CASE i \in 1 .. Len(inbox[s])
    BY <2>1, <1>2, <1>3, <1>4, <1>5 DEF Witnessed
  <2>2. CASE i = Len(inbox[s]) + 1
    BY <2>2, <1>2, <1>3, <1>4, <1>5
  <2> QED
    BY <2>1, <2>2, <1>1, <1>3, <1>4
<1>6. ASSUME NEW r \in Sensors, NEW i \in 1 .. Len(inbox'[r]),
             inbox'[r][i] = "verified"
      PROVE  proved'
  <2>1. CASE r = s
    BY <1>5, <1>6, <2>1
  <2>2. CASE r # s
    <3>1. inbox'[r] = inbox[r]
      BY <1>4, <2>2
    <3> QED
      BY <1>2, <1>6, <3>1 DEF Witnessed
  <2> QED
    BY <2>1, <2>2
<1> QED
  BY <1>2, <1>6 DEF Witnessed

(* A draw lets the session go only if the screen was dismissed. *)
LEMMA DrawHolds ==
    ASSUME NEW outputs, NEW waiting, NEW asked, NEW dismissed,
           Draw(outputs, waiting, asked, dismissed)
    PROVE  unlock' = unlock \/ dismissed
  BY DEF Draw, FinishUnlock, hold

LEMMA NextProven == Proven /\ [Next]_vars => Proven'
<1> SUFFICES ASSUME Proven, [Next]_vars PROVE Witnessed' /\ ProofFirst'
  BY NextTyped DEF Proven
<1>a. Typed /\ Witnessed /\ ProofFirst /\ unlocking \in BOOLEAN
  BY DEF Proven, Typed, ScreenTyped
<1>b. ASSUME proved => proved', UNCHANGED <<unlocking, deadline>>,
             unlock' = unlock \/ unlocking
      PROVE  ProofFirst'
  BY <1>a, <1>b DEF ProofFirst
<1>c. ASSUME UNCHANGED <<inbox, owed, proved, unlocking, deadline>>,
             unlock' = unlock \/ unlocking
      PROVE  Witnessed' /\ ProofFirst'
  BY <1>a, <1>b, <1>c, WitnessedSame
<1>d. DrawAll => unlock' = unlock \/ unlocking
  BY DrawHolds DEF DrawAll
<1>e. ASSUME Accept, proved, proved' PROVE ProofFirst'
  BY <1>e DEF Accept, ProofFirst
<1>1. CASE Compositor \/ Leave \/ Dies \/ UNCHANGED vars
  <2>1. UNCHANGED <<inbox, owed, proved, unlocking, deadline>>
    BY <1>1 DEF Compositor, Hides, Refuses, TakesAway, Reveals, Leave, Dies, vars,
                watches, wire
  <2>2. unlock' = unlock \/ (unlock' = "flushed" /\ unlock = "buffered")
    BY <1>1 DEF Compositor, Hides, Refuses, TakesAway, Reveals, Leave, Dies, vars,
                hold
  <2> QED
    BY <2>1, <2>2, <1>a, WitnessedSame DEF ProofFirst
<1>2. CASE Told
  <2>1. UNCHANGED <<inbox, owed, proved, unlocking, deadline>>
    BY <1>2 DEF Told, OnLocked, OnFinished, Plug, Unplug, Configure, Frame,
                watches, wire
  <2>2. ASSUME NEW o \in Outputs, Configure(o) \/ Frame(o)
        PROVE  unlock' = unlock \/ unlocking
    BY <2>2, DrawHolds DEF Configure, Frame
  <2>3. ASSUME NEW o \in Outputs, Plug(o) \/ Unplug(o) PROVE unlock' = unlock
    BY <2>3 DEF Plug, Unplug, hold
  <2>4. OnLocked \/ OnFinished => unlock' = unlock
    BY DEF OnLocked, OnFinished, hold
  <2>5. unlock' = unlock \/ unlocking
    BY <1>2, <2>2, <2>3, <2>4 DEF Told
  <2> QED
    BY <2>1, <2>5, <1>c
<1>3. ASSUME NEW s \in Sensors, Watching(s) PROVE Witnessed' /\ ProofFirst'
  <2>1. ASSUME NEW event \in Events(s), Hear(s, event)
        PROVE  Witnessed' /\ ProofFirst'
    <3>1. (proved => proved') /\ UNCHANGED <<unlocking, deadline>> /\ unlock' = unlock
      BY <2>1 DEF Hear, hold
    <3> QED
      BY <2>1, <3>1, <1>a, <1>b, WitnessedHears
  <2>2. CASE IgnoresEvent(s)
    BY <2>2, <1>a, <1>b, WitnessedTakes DEF IgnoresEvent, hold, wire
  <2>3. CASE ShowsEvent(s)
    BY <2>3, <1>a, <1>b, <1>d, WitnessedTakes DEF ShowsEvent, wire
  <2>4. CASE AcceptsEvent(s)
    <3>1. /\ Takes(s, {"verified"}) /\ UNCHANGED <<owed, proved>> /\ Accept
          /\ Head(inbox[s]) = "verified"
      BY <2>4 DEF AcceptsEvent, wire, Takes
    <3>2. Witnessed' /\ proved
      BY <3>1, <1>a, WitnessedTakes
    <3> QED
      BY <3>1, <3>2, <1>e
  <2>5. CASE DropsWatch(s)
    BY <2>5, <1>a, <1>b, <1>d, WitnessedTakes DEF DropsWatch, wire
  <2>6. CASE RetryFires(s)
    BY <2>6, <1>c DEF RetryFires, hold, wire
  <2> QED
    BY <1>3, <2>1, <2>2, <2>3, <2>4, <2>5, <2>6 DEF Watching
<1>4. CASE Keys
  BY <1>4, <1>c, <1>d DEF Keys, Types, Erases, Submit, Key, ThrottleEnds, watches,
                          wire, hold
<1>5. CASE Exchange
  <2>a. owed \in Seq(Request)
    BY <1>a DEF Typed, CallTyped
  <2>1. CASE Send \/ AwaitFails \/ Reconnect
    <3>1. OffLoop /\ (unlock' = unlock \/ unlocking)
      BY <2>1, <1>d DEF Send, AwaitFails, Reconnect, ExchangeFails, Idle, hold
    <3>2. UNCHANGED <<inbox, proved, unlocking, deadline>>
      BY <3>1 DEF OffLoop, watches
    <3>3. \/ owed' = owed \/ owed' = <<>>
          \/ owed' = Append(owed, [secret |-> call.secret, answer |-> "none"])
      BY <2>1 DEF Send, AwaitFails, Reconnect, wire
    <3>4. \A i \in 1 .. Len(owed') : owed'[i].answer = "verified" => proved
      <4>1. CASE owed' = owed
        BY <4>1, <1>a DEF Witnessed
      <4>2. CASE owed' = <<>>
        BY <4>2
      <4>3. CASE owed' = Append(owed, [secret |-> call.secret, answer |-> "none"])
        <5> DEFINE r == [secret |-> call.secret, answer |-> "none"]
        <5>1. /\ Len(owed') = Len(owed) + 1
              /\ \A i \in 1 .. Len(owed) : owed'[i] = owed[i]
              /\ owed'[Len(owed) + 1] = r
          <6> HIDE DEF r
          <6>1. owed' = Append(owed, r)
            BY <4>3 DEF r
          <6> QED
            BY <6>1, <2>a
        <5>2. r.answer # "verified" /\ Len(owed) \in Nat
          BY <2>a
        <5>3. ASSUME NEW i \in 1 .. Len(owed'), owed'[i].answer = "verified"
              PROVE  i \in 1 .. Len(owed)
          BY <5>1, <5>2, <5>3
        <5> QED
          BY <5>1, <5>3, <1>a DEF Witnessed
      <4> QED
        BY <3>3, <4>1, <4>2, <4>3
    <3>5. Witnessed'
      BY <3>2, <3>4, <1>a DEF Witnessed
    <3> QED
      BY <3>1, <3>2, <3>5, <1>b
  <2>2. ASSUME NEW answer, Answered(answer), UNCHANGED <<inbox, proved>>
        PROVE  Witnessed' /\ (answer = "verified" => proved)
    <3>1. owed # <<>> /\ owed' = Tail(owed) /\ Head(owed).answer = answer
      BY <2>2, <1>a DEF Answered, Calling, Typed, CallTyped
    <3>2. /\ Head(owed) = owed[1] /\ 1 \in 1 .. Len(owed)
          /\ Len(owed') = Len(owed) - 1
          /\ \A i \in 1 .. Len(owed') : owed'[i] = owed[i + 1]
      BY <3>1, <2>a
    <3>3. \A i \in 1 .. Len(owed') : i + 1 \in 1 .. Len(owed)
      BY <3>2, <2>a
    <3> QED
      BY <3>1, <3>2, <3>3, <2>2, <1>a DEF Witnessed
  <2>3. CASE AnsweredVerified
    BY <2>3, <2>2, <1>e DEF AnsweredVerified
  <2>4. CASE AnsweredDenied \/ AnsweredFailed
    <3>1. OffLoop /\ (unlock' = unlock \/ unlocking)
      BY <2>4, <1>d DEF AnsweredDenied, AnsweredFailed, Idle
    <3>2. UNCHANGED <<inbox, proved, unlocking, deadline>>
      BY <3>1 DEF OffLoop, watches
    <3> QED
      BY <3>1, <3>2, <2>4, <2>2, <1>b DEF AnsweredDenied, AnsweredFailed
  <2> QED
    BY <1>5, <2>1, <2>3, <2>4 DEF Exchange
<1>6. CASE Daemon
  <2>1. ASSUME NEW i, NEW answer \in {"verified", "denied", "failed"},
               DaemonAnswers(i, answer)
        PROVE  Witnessed' /\ ProofFirst'
    <3>1. /\ owed \in Seq(Request) /\ i \in 1 .. Len(owed)
          /\ owed' = [owed EXCEPT ![i].answer = answer]
          /\ proved' = (proved \/ answer = "verified")
          /\ UNCHANGED <<inbox, unlocking, deadline>> /\ unlock' = unlock
      BY <2>1, <1>a DEF DaemonAnswers, Typed, CallTyped, watches, hold
    <3>2. Len(owed') = Len(owed)
      <4>1. owed[i] \in Request
        BY <3>1, ElementOfSeq
      <4>2. [owed[i] EXCEPT !.answer = answer] \in Request
        BY <4>1, <2>1 DEF Request
      <4> QED
        BY <3>1, <4>2, ExceptSeq
    <3>3. ASSUME NEW j \in 1 .. Len(owed) PROVE owed[j] \in Request
      BY <3>1, ElementOfSeq
    <3>4. ASSUME NEW j \in 1 .. Len(owed'), owed'[j].answer = "verified"
          PROVE  proved'
      <4>1. CASE j = i
        <5>1. owed'[i] = [owed[i] EXCEPT !.answer = answer]
          BY <3>1
        <5>2. owed'[i].answer = answer
          BY <5>1, <3>1, <3>3 DEF Request
        <5> QED
          BY <4>1, <5>2, <3>1, <3>4
      <4>2. CASE j # i
        <5>1. j \in 1 .. Len(owed) /\ owed'[j] = owed[j]
          BY <4>2, <3>1, <3>2, <3>4
        <5> QED
          BY <5>1, <3>1, <3>4, <1>a DEF Witnessed
      <4> QED
        BY <4>1, <4>2
    <3>5. Witnessed'
      BY <3>1, <3>4, <1>a DEF Witnessed
    <3> QED
      BY <3>1, <3>5, <1>b
  <2>2. CASE DaemonHangsUp
    BY <2>2, <1>c DEF DaemonHangsUp, watches, hold
  <2> QED
    BY <1>6, <2>1, <2>2 DEF Daemon
<1>7. CASE DeadlineFires
  <2>1. unlocking /\ proved /\ UNCHANGED <<inbox, owed, proved, unlocking>>
        /\ deadline' = FALSE
    BY <1>7, <1>a DEF DeadlineFires, ProofFirst, watches, wire
  <2> QED
    BY <2>1, <1>a, WitnessedSame DEF ProofFirst
<1> QED
  BY <1>1, <1>2, <1>3, <1>4, <1>5, <1>6, <1>7 DEF Next

LEMMA AlwaysProven == Spec => []Proven
  BY InitProven, NextProven, PTL DEF Spec

(* A hidden session is revealed only to somebody who has proved who they   *)
(* are, for any number of outputs and sensors, however the exchange with   *)
(* the daemon goes and whenever the process dies: every step of the lock   *)
(* screen is one of SessionHold or leaves the session alone.               *)
THEOREM HoldsSession == Spec => HoldSpec
<1>1. Init => Hold!Init
  BY DEF Init, Hold!Init
<1>2. Proven /\ [Next]_vars => [Hold!Next]_(Hold!vars)
  <2> SUFFICES ASSUME Proven, [Next]_vars
               PROVE  Hold!Next \/ UNCHANGED <<session, proved>>
    BY DEF Hold!vars
  <2>a. unlock # "unsent" => proved
    BY DEF Proven, ProofFirst
  <2>b. proved \in BOOLEAN
    BY DEF Proven, Typed, ScreenTyped
  <2>1. CASE Compositor
    BY <2>1, <2>a DEF Compositor, Hides, Refuses, TakesAway, Reveals, Hold!Next,
                      Hold!Hide, Hold!TakeAway, Hold!Reveal
  <2>2. ASSUME NEW s \in Sensors, Watching(s)
        PROVE  Hold!Next \/ UNCHANGED <<session, proved>>
    <3>1. ASSUME NEW event \in Events(s), Hear(s, event)
          PROVE  Hold!Prove \/ UNCHANGED <<session, proved>>
      BY <3>1, <2>b DEF Hear, compositor, Hold!Prove
    <3>2. CASE \/ IgnoresEvent(s) \/ ShowsEvent(s) \/ AcceptsEvent(s)
               \/ DropsWatch(s) \/ RetryFires(s)
      BY <3>2 DEF IgnoresEvent, ShowsEvent, AcceptsEvent, DropsWatch, RetryFires,
                  compositor
    <3> QED
      BY <2>2, <3>1, <3>2 DEF Watching, Hold!Next
  <2>3. CASE Daemon
    <3>1. ASSUME NEW i, NEW answer, DaemonAnswers(i, answer)
          PROVE  Hold!Prove \/ UNCHANGED <<session, proved>>
      BY <3>1, <2>b DEF DaemonAnswers, compositor, Hold!Prove
    <3>2. DaemonHangsUp => UNCHANGED <<session, proved>>
      BY DEF DaemonHangsUp, compositor
    <3> QED
      BY <2>3, <3>1, <3>2 DEF Daemon, Hold!Next
  <2>4. CASE Told \/ Keys
    BY <2>4 DEF Told, OnLocked, OnFinished, Plug, Unplug, Configure, Frame, Keys,
                Types, Erases, Submit, Key, ThrottleEnds, compositor
  <2>5. CASE Exchange
    BY <2>5 DEF Exchange, Send, AwaitFails, Reconnect, AnsweredVerified,
                AnsweredDenied, AnsweredFailed, OffLoop, compositor
  <2>6. CASE DeadlineFires \/ Leave \/ Dies \/ UNCHANGED vars
    BY <2>6 DEF DeadlineFires, Leave, Dies, vars, compositor
  <2> QED
    BY <2>1, <2>2, <2>3, <2>4, <2>5, <2>6 DEF Next
<1> QED
  BY <1>1, <1>2, AlwaysProven, PTL DEF Spec, HoldSpec, Hold!Spec

-----------------------------------------------------------------------------
(* Every output is covered.                                                *)

LEMMA NextCovered == TypeOK /\ Covered /\ [Next]_vars => Covered'
<1> SUFFICES ASSUME TypeOK, Covered, [Next]_vars PROVE Covered'
  OBVIOUS
<1>a. surface \in [Outputs -> {"unplugged", "bare", "new", "ready"}]
      /\ locked \in BOOLEAN /\ held \in BOOLEAN
  BY DEF TypeOK
<1>b. ASSUME locked' = locked, surface' = surface, held' => held PROVE Covered'
  BY <1>b DEF Covered
<1>c. ASSUME NEW outputs, NEW waiting, NEW asked, NEW dismissed,
             Draw(outputs, waiting, asked, dismissed)
      PROVE  held' => held
  BY <1>c DEF Draw, FinishUnlock, hold
<1>d. DrawAll => (held' => held)
  BY <1>c DEF DrawAll
<1>e. Accept => (held' => held)
  BY <1>c DEF Accept, FinishUnlock
<1>1. CASE Compositor \/ Leave \/ Dies \/ DeadlineFires \/ UNCHANGED vars
  BY <1>1, <1>b DEF Compositor, Hides, Refuses, TakesAway, Reveals, Leave, Dies,
                    DeadlineFires, FinishUnlock, vars, hold
<1>2. CASE Told
  <2>1. CASE OnLocked
    BY <2>1, <1>a DEF OnLocked, Cover, Covered, hold
  <2>2. CASE OnFinished
    BY <2>2 DEF OnFinished, Covered
  <2>3. ASSUME NEW o \in Outputs, Plug(o) PROVE Covered'
    BY <2>3, <1>a DEF Plug, Covered, hold
  <2>4. ASSUME NEW o \in Outputs, Unplug(o) PROVE Covered'
    BY <2>4, <1>a DEF Unplug, Covered, hold
  <2>5. ASSUME NEW o \in Outputs, Configure(o) PROVE Covered'
    <3>1. (held' => held) /\ locked' = locked
          /\ surface' = [surface EXCEPT ![o] = "ready"]
      BY <2>5, <1>c DEF Configure
    <3> QED
      BY <3>1, <1>a DEF Covered
  <2>6. ASSUME NEW o \in Outputs, Frame(o) PROVE Covered'
    <3>1. (held' => held) /\ locked' = locked /\ surface' = surface
      BY <2>6, <1>c DEF Frame
    <3> QED
      BY <3>1, <1>b
  <2> QED
    BY <1>2, <2>1, <2>2, <2>3, <2>4, <2>5, <2>6 DEF Told
<1>3. ASSUME NEW s \in Sensors, Watching(s) PROVE Covered'
  <2>1. UNCHANGED <<surface, locked>>
    BY <1>3 DEF Watching, Hear, IgnoresEvent, ShowsEvent, AcceptsEvent, DropsWatch,
                RetryFires
  <2>2. held' => held
    BY <1>3, <1>d, <1>e DEF Watching, Hear, IgnoresEvent, ShowsEvent, AcceptsEvent,
                            DropsWatch, RetryFires, hold
  <2> QED
    BY <2>1, <2>2, <1>b
<1>4. CASE Keys
  BY <1>4, <1>b, <1>d DEF Keys, Types, Erases, Submit, Key, ThrottleEnds, hold
<1>5. CASE Exchange
  BY <1>5, <1>b, <1>d, <1>e DEF Exchange, Send, AwaitFails, Reconnect,
     AnsweredVerified, AnsweredDenied, AnsweredFailed, ExchangeFails, Idle,
     OffLoop, hold
<1>6. CASE Daemon
  BY <1>6, <1>b DEF Daemon, DaemonAnswers, DaemonHangsUp, hold
<1> QED
  BY <1>1, <1>2, <1>3, <1>4, <1>5, <1>6 DEF Next

(* Once the lock is confirmed, no output is left without a surface of the  *)
(* lock's, whichever were there and whichever are plugged in while it lasts. *)
THEOREM AlwaysCovered == Spec => []Covered
<1>1. Init => Covered
  BY DEF Init, Covered
<1> QED
  BY <1>1, NextCovered, TypeCorrect, PTL DEF Spec

-----------------------------------------------------------------------------
(* One callback at a time.                                                 *)

(* What is in flight on a surface is what its flag says. *)
Counted == \A o \in Outputs : callbacks[o] = IF o \in pending THEN 1 ELSE 0

LEMMA DrawCounted ==
    ASSUME NEW outputs \in SUBSET Outputs, NEW waiting,
           NEW asked \in [Outputs -> Nat], NEW dismissed,
           Draw(outputs, waiting, asked, dismissed),
           \A o \in Outputs : asked[o] = IF o \in waiting THEN 1 ELSE 0
    PROVE  Counted'
<1>1. PICK drawn \in Drawable(outputs) : Asks(drawn, waiting, asked)
  BY DEF Draw
<1> QED
  BY <1>1 DEF Drawable, Asks, Counted

LEMMA NextCounted == TypeOK /\ Counted /\ [Next]_vars => Counted'
<1> SUFFICES ASSUME TypeOK, Counted, [Next]_vars PROVE Counted'
  OBVIOUS
<1>a. callbacks \in [Outputs -> Nat]
  BY DEF TypeOK
<1>b. ASSUME UNCHANGED paint PROVE Counted'
  BY <1>b DEF paint, Counted
<1>c. DrawAll => Counted'
  BY <1>a, DrawCounted DEF DrawAll, Counted
<1>d. Accept => Counted'
  <2>1. ASSUME NEW drawn \in Drawable(Outputs), Asks(drawn, pending, callbacks)
        PROVE  Counted'
    BY <2>1, <1>a DEF Drawable, Asks, Counted
  <2>2. Draw(Outputs, pending, callbacks, TRUE) => Counted'
    BY <1>a, DrawCounted DEF Counted
  <2> QED
    BY <2>1, <2>2 DEF Accept
<1>1. CASE Compositor \/ Leave \/ Dies \/ DeadlineFires \/ UNCHANGED vars
  BY <1>1, <1>b DEF Compositor, Hides, Refuses, TakesAway, Reveals, Leave, Dies,
                    DeadlineFires, vars
<1>2. CASE Told
  <2>1. CASE OnLocked \/ OnFinished
    BY <2>1, <1>b DEF OnLocked, OnFinished, paint
  <2>2. ASSUME NEW o \in Outputs, Plug(o) PROVE Counted'
    BY <2>2, <1>b DEF Plug
  <2>3. ASSUME NEW o \in Outputs, Unplug(o) PROVE Counted'
    BY <2>3, <1>a DEF Unplug, Counted
  <2>4. ASSUME NEW o \in Outputs, Configure(o) PROVE Counted'
    BY <2>4, <1>a, DrawCounted DEF Configure, Counted
  <2>5. ASSUME NEW o \in Outputs, Frame(o) PROVE Counted'
    <3> DEFINE waiting == pending \ {o}
               asked == [callbacks EXCEPT ![o] = callbacks[o] - 1]
    <3>1. callbacks[o] = 1 /\ Draw({o}, waiting, asked, unlocking)
      BY <2>5, <1>a DEF Frame, Counted
    <3>2. /\ asked \in [Outputs -> Nat]
          /\ \A p \in Outputs : asked[p] = IF p \in waiting THEN 1 ELSE 0
      BY <3>1, <1>a DEF Counted
    <3> QED
      BY <3>1, <3>2, DrawCounted
  <2> QED
    BY <1>2, <2>1, <2>2, <2>3, <2>4, <2>5 DEF Told
<1>3. ASSUME NEW s \in Sensors, Watching(s) PROVE Counted'
  BY <1>3, <1>b, <1>c, <1>d DEF Watching, Hear, IgnoresEvent, ShowsEvent,
     AcceptsEvent, DropsWatch, RetryFires
<1>4. CASE Keys
  BY <1>4, <1>b, <1>c DEF Keys, Types, Erases, Submit, Key, ThrottleEnds
<1>5. CASE Exchange
  BY <1>5, <1>b, <1>c, <1>d DEF Exchange, Send, AwaitFails, Reconnect,
     AnsweredVerified, AnsweredDenied, AnsweredFailed, ExchangeFails, Idle, paint
<1>6. CASE Daemon
  BY <1>6, <1>b DEF Daemon, DaemonAnswers, DaemonHangsUp
<1> QED
  BY <1>1, <1>2, <1>3, <1>4, <1>5, <1>6 DEF Next

(* A surface never has two frame callbacks in flight, whatever it is drawn *)
(* for and however many outputs come and go.                               *)
THEOREM NeverTwoCallbacks == Spec => []OneCallback
<1>1. Init => Counted
  BY DEF Init, Counted
<1>2. Counted => OneCallback
  <2> SUFFICES ASSUME Counted, NEW o \in Outputs PROVE callbacks[o] <= 1
    BY DEF OneCallback
  <2>1. callbacks[o] = 0 \/ callbacks[o] = 1
    BY DEF Counted
  <2> QED
    BY <2>1
<1> QED
  BY <1>1, <1>2, NextCounted, TypeCorrect, PTL DEF Spec

-----------------------------------------------------------------------------
(* The wash.                                                               *)

(* A screen that is not leaving has a watch for whatever it may yet hear. *)
Watched ==
    ~unlocking =>
        \A s \in Sensors : s \in thread \/ inbox[s] # <<>> => s \in watch

LEMMA NextWashed ==
    Typed /\ Watched /\ WashedForCamera /\ [Next]_vars
        => Watched' /\ WashedForCamera'
<1> SUFFICES ASSUME Typed, Watched, WashedForCamera, [Next]_vars
             PROVE  Watched' /\ WashedForCamera'
  OBVIOUS
<1>a. /\ WatchTyped /\ unlocking \in BOOLEAN /\ flash \in BOOLEAN
      /\ retry \subseteq Sensors \ (watch \cup thread)
      /\ \A s \in retry : inbox[s] = <<>>
  BY DEF Typed, ScreenTyped, WatchTyped, RetryHeard
<1>b. ASSUME UNCHANGED <<unlocking, watches, flash>>
      PROVE  Watched' /\ WashedForCamera'
  BY <1>b DEF watches, Watched, WashedForCamera
<1>c. Accept => Watched' /\ WashedForCamera'
  BY DEF Accept, Watched, WashedForCamera
<1>1. CASE Compositor \/ Leave \/ Dies \/ DeadlineFires \/ UNCHANGED vars
  BY <1>1, <1>b DEF Compositor, Hides, Refuses, TakesAway, Reveals, Leave, Dies,
                    DeadlineFires, vars
<1>2. CASE Told
  BY <1>2, <1>b DEF Told, OnLocked, OnFinished, Plug, Unplug, Configure, Frame
<1>3. ASSUME NEW s \in Sensors, Watching(s) PROVE Watched' /\ WashedForCamera'
  <2>1. ASSUME NEW event \in Events(s), Hear(s, event)
        PROVE  Watched' /\ WashedForCamera'
    <3>1. /\ UNCHANGED <<unlocking, watch, flash>> /\ s \in thread
          /\ thread' \subseteq thread
          /\ \A r \in Sensors \ {s} : inbox'[r] = inbox[r]
      BY <2>1, <1>a DEF Hear, WatchTyped, InboxTyped
    <3> QED
      BY <3>1 DEF Watched, WashedForCamera
  <2>2. ASSUME NEW events, Takes(s, events)
        PROVE  /\ inbox[s] # <<>>
               /\ \A r \in Sensors : inbox'[r] # <<>> => inbox[r] # <<>>
               /\ Head(inbox[s]) \in Verdicts => inbox'[s] = <<>> /\ s \notin thread
    BY <2>2, <1>a, TakesTyped DEF Takes
  <2>3. CASE IgnoresEvent(s)
    BY <2>3, <2>2 DEF IgnoresEvent, Watched, WashedForCamera
  <2>4. CASE ShowsEvent(s)
    <3>1. /\ Takes(s, Events(s) \ Verdicts) /\ ~unlocking
          /\ UNCHANGED <<unlocking, watch, thread>>
      BY <2>4 DEF ShowsEvent
    <3>2. Head(inbox[s]) \in Events(s) /\ s \in watch
      BY <3>1, <2>2 DEF Takes, Watched
    <3>3. flash' => flash \/ Head(inbox[s]) = "wash"
      BY <2>4 DEF ShowsEvent
    <3>4. Head(inbox[s]) = "wash" => s = "face"
      BY <3>2 DEF Events
    <3>5. Watched'
      BY <3>1, <2>2 DEF Watched
    <3>6. WashedForCamera'
      BY <3>1, <3>2, <3>3, <3>4 DEF WashedForCamera
    <3> QED
      BY <3>5, <3>6
  <2>5. CASE AcceptsEvent(s)
    BY <2>5, <1>c DEF AcceptsEvent
  <2>6. CASE DropsWatch(s)
    <3>1. /\ ~unlocking /\ UNCHANGED <<unlocking, thread>>
          /\ watch' = watch \ {s}
          /\ flash' = IF s = "face" THEN FALSE ELSE flash
          /\ inbox'[s] = <<>> /\ s \notin thread
          /\ \A r \in Sensors : inbox'[r] # <<>> => inbox[r] # <<>>
      BY <2>6, <2>2 DEF DropsWatch, Unwatched, Takes
    <3>2. Watched'
      BY <3>1 DEF Watched
    <3>3. WashedForCamera'
      BY <3>1, <1>a DEF WashedForCamera
    <3> QED
      BY <3>2, <3>3
  <2>7. CASE RetryFires(s)
    <3>1. /\ s \notin thread /\ inbox[s] = <<>> /\ s \notin watch
          /\ UNCHANGED <<unlocking, inbox>>
      BY <2>7, <1>a DEF RetryFires
    <3>2. \/ UNCHANGED <<watch, thread, flash>>
          \/ /\ thread' \subseteq thread \cup {s}
             /\ \/ watch' = watch \cup {s}
                \/ watch' = watch /\ thread' = thread
             /\ flash' => flash
      BY <2>7, <3>1, <1>a DEF RetryFires, Unwatched
    <3>3. watch \subseteq watch' /\ (flash' => flash)
      BY <3>2
    <3>4. \A r \in Sensors : r \in thread' => r \in thread \/ r \in watch'
      BY <3>2
    <3>5. Watched'
      BY <3>1, <3>3, <3>4 DEF Watched
    <3>6. WashedForCamera'
      BY <3>1, <3>3 DEF WashedForCamera
    <3> QED
      BY <3>5, <3>6
  <2> QED
    BY <1>3, <2>1, <2>3, <2>4, <2>5, <2>6, <2>7 DEF Watching
<1>4. CASE Keys
  BY <1>4, <1>b DEF Keys, Types, Erases, Submit, Key, ThrottleEnds
<1>5. CASE Exchange
  <2>1. CASE AnsweredVerified
    BY <2>1, <1>c DEF AnsweredVerified
  <2>2. CASE Send \/ AwaitFails \/ Reconnect \/ AnsweredDenied \/ AnsweredFailed
    BY <2>2, <1>b DEF Send, AwaitFails, Reconnect, AnsweredDenied, AnsweredFailed,
                      OffLoop
  <2> QED
    BY <1>5, <2>1, <2>2 DEF Exchange
<1>6. CASE Daemon
  BY <1>6, <1>b DEF Daemon, DaemonAnswers, DaemonHangsUp
<1> QED
  BY <1>1, <1>2, <1>3, <1>4, <1>5, <1>6 DEF Next

(* The screen is washed only while the camera is watched: the colour       *)
(* outlasts neither a watch that ends or breaks, nor one that is retried,  *)
(* nor an acceptance by any way.                                           *)
THEOREM NeverLeftWashed == Spec => []WashedForCamera
<1>1. Init => Watched /\ WashedForCamera
  BY DEF Init, Watched, WashedForCamera
<1> QED
  BY <1>1, NextWashed, AlwaysTyped, PTL DEF Spec
=============================================================================
