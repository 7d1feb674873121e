-------------------------- MODULE VerifySocketProofs --------------------------
(***************************************************************************)
(* VerifySocket for any connections, accounts and limits.                  *)
(***************************************************************************)
EXTENDS VerifySocket, FiniteSetTheorems, TLAPS

-----------------------------------------------------------------------------
(* The rate limiter's entries.                                             *)

(* The largest count is a natural (ratelimit.rs:97), and the updates of an *)
(* account's entry yield entries (ratelimit.rs:109-135).                   *)
LEMMA CounterType == CounterMax \in Nat
<1>1. Width \in 0 .. Width
  BY LimitsAssumption
<1> QED
  BY <1>1, PowersAreNaturals DEF CounterMax

LEMMA RecordTypes ==
    ASSUME NEW r \in Record, NEW now \in Nat
    PROVE  /\ NoRecord \in Record
           /\ RecordFailure(r, now) \in Record
           /\ RecordSuccess(r) \in Record
           /\ ForgetOld(r, now) \in Record
<1>1. CounterMax \in Nat
  BY CounterType
<1>2. NoRecord \in Record
  BY <1>1 DEF NoRecord, Record
<1>3. RecordFailure(r, now) \in Record
  <2>1. r.failures \in 0 .. CounterMax
    BY DEF Record
  <2> DEFINE f == IF Monus(now, r.last) >= ForgetAfter THEN 0 ELSE r.failures
  <2>2. f \in 0 .. CounterMax
    BY <1>1, <2>1
  <2>3. Least(f + 1, CounterMax) \in 0 .. CounterMax
    <3> HIDE DEF f
    <3> QED BY <1>1, <2>2 DEF Least
  <2> QED
    BY <2>3 DEF RecordFailure, Record
<1> QED
  BY <1>2, <1>3 DEF RecordSuccess, ForgetOld

-----------------------------------------------------------------------------
(* Types and slots.  The accept loop holds a guest from its look at the    *)
(* count to the spawning of the thread; in between the count can only      *)
(* fall, so what it saw still holds when it counts itself in.              *)

GuestHeld == door \in {"counting", "spawning"} => guest \in Conns /\ pc[guest] = "held"

RoomSeen == door = "counting" => live < MaxConnections

SlotInv == TypeOK /\ SlotsKept /\ GuestHeld /\ RoomSeen

Taken == IF door = "spawning" THEN 1 ELSE 0

Places == Threads \cup {"idle", "backlog", "held", "ended"}

LEMMA InitSlots == Init => SlotInv
<1> SUFFICES ASSUME Init PROVE SlotInv
  OBVIOUS
<1>1. NoRecord \in Record
  BY CounterType DEF NoRecord, Record
<1>2. Serving = {}
  BY DEF Init, Serving, Threads
<1>3. TypeOK
  BY <1>1, VerifyAssumption DEF Init, TypeOK, NotAsked
<1>4. SlotsKept
  BY <1>2, FS_EmptySet, VerifyAssumption DEF Init, SlotsKept
<1> QED
  BY <1>3, <1>4 DEF Init, SlotInv, GuestHeld, RoomSeen

LEMMA ServingFinite == IsFiniteSet(Serving) /\ Cardinality(Serving) \in Nat
<1>1. Serving \in SUBSET Conns
  BY DEF Serving
<1> QED
  BY <1>1, FS_Subset, FS_CardinalityType, VerifyAssumption

(* A thread that ends takes one from those serving; one that starts adds.  *)
LEMMA ThreadEnds ==
    ASSUME TypeOK, NEW c \in Conns, NEW place \in Places \ Threads,
           pc[c] \in Threads, pc' = [pc EXCEPT ![c] = place]
    PROVE  Cardinality(Serving') = Cardinality(Serving) - 1
<1>1. Serving' = Serving \ {c}
  BY DEF Serving, TypeOK
<1>2. c \in Serving
  BY DEF Serving
<1> QED
  BY <1>1, <1>2, ServingFinite, FS_RemoveElement

LEMMA ThreadStarts ==
    ASSUME TypeOK, NEW c \in Conns, NEW place \in Threads,
           pc[c] \notin Threads, pc' = [pc EXCEPT ![c] = place]
    PROVE  Cardinality(Serving') = Cardinality(Serving) + 1
<1>1. Serving' = Serving \cup {c}
  BY DEF Serving, TypeOK
<1>2. c \notin Serving
  BY DEF Serving
<1> QED
  BY <1>1, <1>2, ServingFinite, FS_AddElement

(* What a thread does between its first statement and its last.            *)
Inner(c) ==
    \/ Resolve(c)
    \/ Read(c)
    \/ Throttle(c)
    \/ Check(c)
    \/ Reply(c)
    \/ EnrolEnds(c)
    \/ WatchEnds(c)
    \/ WatchMatches(c)
    \/ RecordWatch(c)

LEMMA InnerStays ==
    ASSUME TypeOK, NEW c \in Conns, Inner(c)
    PROVE  /\ pc[c] \in Threads
           /\ \E place \in Threads : pc' = [pc EXCEPT ![c] = place]
           /\ UNCHANGED <<clock, door, guest, live, hung>>
<1> USE DEF Goto, Answered, Threads
<1>1. CASE Resolve(c) \/ Reply(c) \/ EnrolEnds(c) \/ WatchEnds(c)
           \/ WatchMatches(c) \/ RecordWatch(c)
  BY <1>1 DEF Resolve, Reply, EnrolEnds, WatchEnds, WatchMatches, RecordWatch
<1>2. CASE Read(c)
  BY <1>2 DEF Read, ReadEnds, ReadFree, ReadWatch, ReadSecret
<1>3. CASE Throttle(c)
  BY <1>3 DEF Throttle
<1>4. CASE Check(c)
  BY <1>4 DEF Check, CheckGranted, CheckDenied, CheckFails
<1> QED
  BY <1>1, <1>2, <1>3, <1>4 DEF Inner

LEMMA InnerTyped ==
    ASSUME TypeOK, NEW c \in Conns, Inner(c)
    PROVE  /\ asked' \in [Conns -> [for : Purposes \cup {"nothing"}, now : 0 .. MaxClock]]
           /\ records' \in [Accounts -> Record]
<1> USE VerifyAssumption DEF TypeOK
<1>0. /\ NotAsked \in [for : Purposes \cup {"nothing"}, now : 0 .. MaxClock]
      /\ asked[c].now \in Nat
      /\ Owner[c] \in Accounts
  BY DEF NotAsked
<1>1. CASE Resolve(c) \/ Reply(c) \/ EnrolEnds(c) \/ WatchEnds(c)
           \/ WatchMatches(c)
  BY <1>1 DEF Resolve, Reply, EnrolEnds, WatchEnds, WatchMatches
<1>2. CASE RecordWatch(c)
  <2>1. RecordSuccess(records[Owner[c]]) \in Record
    BY <1>0, RecordTypes
  <2> QED
    BY <1>2, <2>1 DEF RecordWatch
<1>3. CASE Read(c)
  BY <1>3 DEF Read, ReadEnds, ReadFree, ReadWatch, ReadSecret, Purposes
<1>4. CASE Throttle(c)
  BY <1>0, <1>4 DEF Throttle, Answered
<1>5. CASE Check(c)
  <2>1. /\ RecordSuccess(records[Owner[c]]) \in Record
        /\ RecordFailure(records[Owner[c]], asked[c].now) \in Record
    BY <1>0, RecordTypes
  <2> QED
    BY <1>0, <1>5, <2>1 DEF Check, CheckGranted, CheckDenied, CheckFails, Answered
<1> QED
  BY <1>1, <1>2, <1>3, <1>4, <1>5 DEF Inner

LEMMA NextSlots == SlotInv /\ [Next]_vars => SlotInv'
<1> SUFFICES ASSUME SlotInv, [Next]_vars PROVE SlotInv'
  OBVIOUS
<1>a. TypeOK /\ SlotsKept /\ GuestHeld /\ RoomSeen
  BY DEF SlotInv
<1>b. /\ live \in Nat
      /\ MaxConnections \in Nat \ {0}
      /\ Cardinality(Serving) \in Nat
      /\ live = Cardinality(Serving) + Taken
      /\ live <= MaxConnections
  BY <1>a, ServingFinite, VerifyAssumption DEF TypeOK, SlotsKept, Taken
<1>p. pc \in [Conns -> Places]
  BY <1>a DEF TypeOK, Places
<1>q. ASSUME UNCHANGED <<door, guest, live>>,
             NEW c \in Conns, NEW place \in Places,
             pc' = [pc EXCEPT ![c] = place],
             place \in Threads <=> pc[c] \in Threads,
             pc[c] # "held"
      PROVE  SlotsKept' /\ GuestHeld' /\ RoomSeen'
  <2>1. Serving' = Serving
    BY <1>p, <1>q DEF Serving
  <2> QED
    BY <1>a, <1>p, <1>q, <2>1 DEF SlotsKept, GuestHeld, RoomSeen
<1>r. ASSUME UNCHANGED <<door, guest, live, pc>>
      PROVE  SlotsKept' /\ GuestHeld' /\ RoomSeen'
  BY <1>a, <1>r DEF SlotsKept, GuestHeld, RoomSeen, Serving
<1> USE VerifyAssumption
<1>1. CASE Tick
  <2>1. TypeOK'
    BY <1>a, <1>1 DEF Tick, TypeOK
  <2> QED
    BY <1>1, <1>r, <2>1 DEF Tick, SlotInv
<1>2. ASSUME NEW c \in Conns, Connect(c) PROVE SlotInv'
  <2>1. TypeOK'
    BY <1>a, <1>2 DEF Connect, Goto, TypeOK
  <2>2. "backlog" \in Places \ Threads /\ pc[c] \notin Threads \cup {"held"}
    BY <1>2 DEF Connect, Places, Threads
  <2> QED
    BY <1>2, <1>q, <2>1, <2>2 DEF Connect, Goto, SlotInv
<1>3. ASSUME NEW c \in Conns, HangUp(c) PROVE SlotInv'
  <2>1. TypeOK'
    BY <1>a, <1>3 DEF HangUp, TypeOK
  <2> QED
    BY <1>3, <1>r, <2>1 DEF HangUp, SlotInv
<1>4. ASSUME NEW c \in Conns, Inner(c) PROVE SlotInv'
  <2>1. PICK place \in Threads : pc' = [pc EXCEPT ![c] = place]
    BY <1>a, <1>4, InnerStays
  <2>2. pc[c] \in Threads /\ UNCHANGED <<clock, door, guest, live, hung>>
    BY <1>a, <1>4, InnerStays
  <2>3. TypeOK'
    BY <1>a, <1>4, <2>1, <2>2, InnerTyped DEF TypeOK
  <2>4. place \in Places /\ pc[c] # "held"
    BY <2>2 DEF Places, Threads
  <2> QED
    BY <1>q, <2>1, <2>2, <2>3, <2>4 DEF SlotInv
<1>5. ASSUME NEW c \in Conns, CountOut(c) PROVE SlotInv'
  <2>1. /\ pc[c] = "closing"
        /\ pc' = [pc EXCEPT ![c] = "ended"]
        /\ live' = live - 1
        /\ UNCHANGED <<clock, door, guest, hung, asked, records>>
    BY <1>5 DEF CountOut, Goto
  <2>2. pc[c] \in Threads /\ "ended" \in Places \ Threads
    BY <2>1 DEF Threads, Places
  <2>3. Cardinality(Serving') = Cardinality(Serving) - 1
    BY <1>a, <2>1, <2>2, ThreadEnds
  <2>4. c \in Serving
    BY <2>2 DEF Serving
  <2>5. Cardinality(Serving) # 0
    BY <2>4, ServingFinite, FS_EmptySet
  <2>6. live' \in Nat /\ live' = Cardinality(Serving') + Taken' /\ live' < MaxConnections
    BY <1>b, <2>1, <2>3, <2>5 DEF Taken
  <2>7. TypeOK'
    BY <1>a, <2>1, <2>6 DEF TypeOK
  <2>8. GuestHeld'
    BY <1>a, <1>p, <2>1 DEF GuestHeld
  <2>9. SlotsKept' /\ RoomSeen'
    BY <2>6 DEF SlotsKept, RoomSeen, Taken
  <2> QED
    BY <2>7, <2>8, <2>9 DEF SlotInv
<1>6. ASSUME NEW c \in Conns, Accept(c) PROVE SlotInv'
  <2>1. door = "accept" /\ pc[c] = "backlog"
    BY <1>6 DEF Accept
  <2>2. TypeOK'
    BY <1>a, <1>6 DEF Accept, Goto, TypeOK
  <2>3. PICK place \in {"ended", "held"} : pc' = [pc EXCEPT ![c] = place]
    BY <1>6 DEF Accept, Goto
  <2>4. Serving' = Serving
    BY <1>p, <2>1, <2>3 DEF Serving, Threads
  <2>5. SlotsKept'
    BY <1>a, <1>6, <2>1, <2>4 DEF Accept, SlotsKept
  <2>6. GuestHeld' /\ RoomSeen'
    BY <1>b, <1>p, <1>6, <2>1 DEF Accept, Goto, GuestHeld, RoomSeen
  <2> QED
    BY <2>2, <2>5, <2>6 DEF SlotInv
<1>7. CASE CountIn
  <2>1. /\ door = "counting"
        /\ door' = "spawning"
        /\ live' = live + 1
        /\ UNCHANGED <<clock, guest, pc, hung, asked, records>>
    BY <1>7 DEF CountIn
  <2>2. TypeOK'
    BY <1>a, <1>b, <2>1 DEF TypeOK
  <2>3. Serving' = Serving
    BY <2>1 DEF Serving
  <2>4. live' = Cardinality(Serving) + 1 /\ live' <= MaxConnections
    BY <1>a, <1>b, <2>1 DEF RoomSeen, Taken
  <2> QED
    BY <1>a, <2>1, <2>2, <2>3, <2>4 DEF SlotInv, SlotsKept, GuestHeld, RoomSeen
<1>8. CASE Spawn
  <2>1. /\ door = "spawning"
        /\ door' = "accept"
        /\ guest' = Nobody
        /\ UNCHANGED <<clock, hung, asked, records>>
        /\ guest \in Conns
        /\ pc[guest] = "held"
    BY <1>a, <1>8 DEF Spawn, GuestHeld
  <2>2. live = Cardinality(Serving) + 1
    BY <1>b, <2>1 DEF Taken
  <2>3. CASE pc' = [pc EXCEPT ![guest] = "starting"] /\ live' = live
    <3>1. Cardinality(Serving') = Cardinality(Serving) + 1
      BY <1>a, <2>1, <2>3, ThreadStarts DEF Threads
    <3>2. TypeOK'
      BY <1>a, <2>1, <2>3 DEF TypeOK, Threads
    <3> QED
      BY <1>b, <2>1, <2>2, <2>3, <3>1, <3>2
         DEF SlotInv, SlotsKept, GuestHeld, RoomSeen
  <2>4. CASE pc' = [pc EXCEPT ![guest] = "ended"] /\ live' = live - 1
    <3>1. Serving' = Serving
      BY <1>p, <2>1, <2>4 DEF Serving, Threads
    <3>2. live' = Cardinality(Serving') /\ live' \in Nat /\ live' <= MaxConnections
      BY <1>b, <2>2, <2>4, <3>1
    <3>3. TypeOK'
      BY <1>a, <2>1, <2>4, <3>2 DEF TypeOK
    <3> QED
      BY <1>b, <2>1, <3>2, <3>3 DEF SlotInv, SlotsKept, GuestHeld, RoomSeen
  <2> QED
    BY <1>8, <2>3, <2>4 DEF Spawn, Goto
<1>9. CASE UNCHANGED vars
  <2>1. TypeOK'
    BY <1>a, <1>9 DEF vars, TypeOK
  <2> QED
    BY <1>9, <1>r, <2>1 DEF vars, SlotInv
<1> QED
  BY <1>1, <1>2, <1>3, <1>4, <1>5, <1>6, <1>7, <1>8, <1>9
     DEF Next, Client, Serve, Inner, Door

LEMMA AlwaysSlots == Spec => []SlotInv
<1> QED
  BY InitSlots, NextSlots, PTL DEF Spec

(* The socket's state keeps its types (verify.rs:142-208).                 *)
THEOREM TypeCorrect == Spec => []TypeOK
<1>1. SlotInv => TypeOK
  BY DEF SlotInv
<1> QED
  BY <1>1, AlwaysSlots, PTL

(* Slots are conserved and the cap holds, for any cap (verify.rs:162).     *)
THEOREM SlotsConserved == Spec => []SlotsKept
<1>1. SlotInv => SlotsKept
  BY DEF SlotInv
<1> QED
  BY <1>1, AlwaysSlots, PTL

-----------------------------------------------------------------------------
(***************************************************************************)
(* How far overlapping checks overrun the throttle.  Time is counted in    *)
(* whole base delays.  An attempt is old when it was asked before the      *)
(* present one; the throttle is shut once a failure of the present one is  *)
(* on record.  A failure of an old attempt winds the record back and opens *)
(* it again, and each opening lets in as many as there are connections     *)
(* not taken by old attempts: Ways is twice what these openings come to.   *)
(***************************************************************************)

(* The limits as an administrator means them; config.rs:174 does not check *)
(* their order.                                                            *)
LimitsOrdered ==
    /\ BaseDelay > 0
    /\ BaseDelay <= MaxDelay
    /\ BaseDelay <= ForgetAfter

Turn(t) == t \div BaseDelay

Of(a) == {c \in Conns : Owner[c] = a}

Checking(a) == {c \in Of(a) : pc[c] = "checking"}

(* Old attempts that are checked, or may yet pass the throttle: only after *)
(* an older one on record, or one that is still to fail.                   *)
Old(a) ==
    {c \in Of(a) :
        /\ pc[c] \in {"throttled", "checking"}
        /\ Turn(asked[c].now) < Turn(clock)
        /\ \/ pc[c] = "checking"
           \/ Turn(records[a].last) < Turn(asked[c].now)
           \/ \E d \in Checking(a) : Turn(asked[d].now) < Turn(asked[c].now)}

Fresh(a) == {c \in Checking(a) : Turn(asked[c].now) = Turn(clock)}

Shut(a) == Turn(records[a].last) = Turn(clock)

(* Twice the failures there have been and may yet be before the next turn, *)
(* and twice those there may be by the present one.                        *)
Ways(j) == 2 * j * MaxConnections - j * (j - 1)

Cost(failures, old, fresh, shut) ==
    2 * failures + Ways(old)
    + (IF shut THEN 2 * old + 2 * fresh ELSE 2 * MaxConnections)

Budget(turn) ==
    2 * FreeAttempts + 2 * MaxConnections
    + MaxConnections * (MaxConnections + 1) * turn

WithinBudget(a) ==
    records[a].failures > FreeAttempts
    => Cost(records[a].failures, Cardinality(Old(a)), Cardinality(Fresh(a)),
            Shut(a))
       <= Budget(Turn(clock))

InTime ==
    /\ \A c \in Conns : asked[c].now <= clock
    /\ \A a \in Accounts : records[a].last <= clock

OverrunInv == InTime /\ \A a \in Accounts : WithinBudget(a)

-----------------------------------------------------------------------------
(* Sums.                                                                   *)

LEMMA CapIsNatural == MaxConnections \in Nat /\ MaxConnections >= 1
BY VerifyAssumption

LEMMA WaysStep ==
    ASSUME NEW j \in Nat
    PROVE  /\ Ways(j) \in Int
           /\ Ways(j + 1) = Ways(j) + 2 * MaxConnections - 2 * j
<1>1. j * MaxConnections \in Int /\ j * (j - 1) \in Int
  BY CapIsNatural
<1>2. /\ 2 * (j + 1) * MaxConnections = 2 * j * MaxConnections + 2 * MaxConnections
      /\ (j + 1) * ((j + 1) - 1) = j * (j - 1) + 2 * j
  BY CapIsNatural
<1> QED
  BY <1>1, <1>2, CapIsNatural DEF Ways

LEMMA WaysGrow ==
    ASSUME NEW j \in 0 .. MaxConnections, NEW i \in 0 .. j
    PROVE  Ways(i) <= Ways(j)
<1> DEFINE p == j - i
           q == 2 * MaxConnections - j - i + 1
<1>1. p \in Nat /\ q \in Nat
  BY CapIsNatural
<1>2. p * q \in Nat
  <2> HIDE DEF p, q
  <2> QED
    BY <1>1
<1>3. Ways(j) = Ways(i) + p * q
  BY CapIsNatural DEF Ways
<1>4. Ways(i) \in Int
  BY WaysStep, CapIsNatural
<1> HIDE DEF p, q
<1> QED
  BY <1>2, <1>3, <1>4

LEMMA WaysEnds ==
    /\ Ways(0) = 0
    /\ Ways(1) = 2 * MaxConnections
    /\ Ways(MaxConnections) = MaxConnections * (MaxConnections + 1)
<1>1. Ways(0) = 0 /\ Ways(1) = 2 * MaxConnections
  BY CapIsNatural DEF Ways
<1>2. Ways(MaxConnections) = MaxConnections * (MaxConnections + 1)
  BY CapIsNatural DEF Ways
<1> QED
  BY <1>1, <1>2

LEMMA WaysLeft ==
    ASSUME NEW j \in 0 .. MaxConnections
    PROVE  Ways(j) + 2 * MaxConnections - 2 * j <= Ways(MaxConnections)
<1>1. CASE j = MaxConnections
  BY <1>1, CapIsNatural, WaysStep
<1>2. CASE j < MaxConnections
  <2>1. j + 1 \in 0 .. MaxConnections /\ MaxConnections \in 0 .. MaxConnections
        /\ j + 1 \in 0 .. MaxConnections
    BY <1>2, CapIsNatural
  <2>2. Ways(j + 1) <= Ways(MaxConnections)
    BY <2>1, WaysGrow
  <2> QED
    BY <2>2, WaysStep
<1> QED
  BY <1>1, <1>2, CapIsNatural

LEMMA TwiceOverrun == 2 * Overrun = MaxConnections * (MaxConnections + 1)
<1>1. PICK k \in Nat : MaxConnections = 2 * k \/ MaxConnections = 2 * k + 1
  <2>1. MaxConnections \div 2 \in Nat
        /\ \/ MaxConnections = 2 * (MaxConnections \div 2)
           \/ MaxConnections = 2 * (MaxConnections \div 2) + 1
    BY CapIsNatural
  <2> QED
    BY <2>1
<1>2. PICK h \in Nat : MaxConnections * (MaxConnections + 1) = 2 * h
  <2>1. CASE MaxConnections = 2 * k
    <3>1. MaxConnections * (MaxConnections + 1) = 2 * (k * (2 * k + 1))
      BY <2>1
    <3>2. k * (2 * k + 1) \in Nat
      OBVIOUS
    <3> QED
      BY <3>1, <3>2
  <2>2. CASE MaxConnections = 2 * k + 1
    <3>1. MaxConnections * (MaxConnections + 1) = 2 * ((2 * k + 1) * (k + 1))
      BY <2>2
    <3>2. (2 * k + 1) * (k + 1) \in Nat
      OBVIOUS
    <3> QED
      BY <3>1, <3>2
  <2> QED
    BY <1>1, <2>1, <2>2
<1>3. (2 * h) \div 2 = h
  OBVIOUS
<1> QED
  BY <1>2, <1>3 DEF Overrun

(* Attempts that go away, without a failure: nothing is added. *)
LEMMA CostFalls ==
    ASSUME NEW f \in Nat, NEW j \in 0 .. MaxConnections, NEW g \in Nat,
           NEW i \in 0 .. j, NEW h \in Nat, NEW shut \in BOOLEAN,
           h <= g \/ ~ shut
    PROVE  Cost(f, i, h, shut) <= Cost(f, j, g, shut)
<1>1. Ways(i) <= Ways(j) /\ Ways(i) \in Int /\ Ways(j) \in Int
  BY WaysGrow, WaysStep, CapIsNatural
<1> QED
  BY <1>1, CapIsNatural DEF Cost

(* A fresh attempt fails: the throttle is shut, or stays so. *)
LEMMA CostOfFresh ==
    ASSUME NEW f \in Nat, NEW j \in 0 .. MaxConnections, NEW g \in Nat,
           NEW i \in 0 .. j, NEW h \in Nat, NEW shut \in BOOLEAN,
           NEW e \in Nat, e <= f + 1, h + 1 <= g, j + g <= MaxConnections
    PROVE  Cost(e, i, h, TRUE) <= Cost(f, j, g, shut)
<1>1. Ways(i) <= Ways(j) /\ Ways(i) \in Int /\ Ways(j) \in Int
  BY WaysGrow, WaysStep, CapIsNatural
<1> QED
  BY <1>1, CapIsNatural DEF Cost

(* An old one fails: the throttle is open, or stays so. *)
LEMMA CostOfOld ==
    ASSUME NEW f \in Nat, NEW j \in 1 .. MaxConnections, NEW g \in Nat,
           NEW i \in 0 .. j - 1, NEW h \in Nat, NEW shut \in BOOLEAN,
           NEW e \in Nat, e <= f + 1
    PROVE  Cost(e, i, h, FALSE) <= Cost(f, j, g, shut)
<1>1. j - 1 \in 0 .. MaxConnections /\ j - 1 \in Nat /\ (j - 1) + 1 = j
  BY CapIsNatural
<1>2. Ways(i) <= Ways(j - 1) /\ Ways(i) \in Int /\ Ways(j - 1) \in Int
  BY <1>1, WaysGrow, WaysStep, CapIsNatural
<1>3. Ways(j) = Ways(j - 1) + 2 * MaxConnections - 2 * (j - 1)
  BY <1>1, WaysStep
<1> QED
  BY <1>2, <1>3, CapIsNatural DEF Cost

LEMMA BudgetStep ==
    ASSUME NEW m \in Nat
    PROVE  /\ Budget(m) \in Nat
           /\ Budget(m + 1) = Budget(m) + Ways(MaxConnections)
           /\ Budget(m) >= 2 * FreeAttempts + 2 * MaxConnections
           /\ m >= 1 => Budget(m) >= 2 * FreeAttempts + 2 * MaxConnections
                                     + Ways(MaxConnections)
<1> DEFINE s == MaxConnections * (MaxConnections + 1)
<1>1. s \in Nat /\ s = Ways(MaxConnections)
  BY CapIsNatural, WaysEnds
<1>2. \A x, y \in Nat : /\ x * y \in Nat /\ x * (y + 1) = x * y + x
                        /\ y >= 1 => x * y >= x
  <2>1. ASSUME NEW x \in Nat, NEW y \in Nat
        PROVE  /\ x * y \in Nat /\ x * (y + 1) = x * y + x
               /\ y >= 1 => x * y >= x
    <3>1. x * y \in Nat /\ x * (y + 1) = x * y + x
      OBVIOUS
    <3>2. ASSUME y >= 1 PROVE x * y >= x
      <4>1. y - 1 \in Nat
        BY <3>2
      <4>2. x * (y - 1) \in Nat /\ x * y = x * (y - 1) + x
        BY <4>1
      <4> QED
        BY <4>2
    <3> QED
      BY <3>1, <3>2
  <2> QED
    BY <2>1
<1> HIDE DEF s
<1>3. /\ s * m \in Nat /\ s * (m + 1) = s * m + s
      /\ m >= 1 => s * m >= s
  BY <1>1, <1>2
<1> QED
  BY <1>1, <1>3, CapIsNatural, LimitsAssumption DEF Budget, s

(* The first failures past the free ones. *)
LEMMA CostOfFirst ==
    ASSUME NEW m \in Nat, NEW e \in Nat, e <= FreeAttempts + 1,
           NEW i \in Nat, NEW h \in Nat, i + h + 1 <= MaxConnections,
           NEW shut \in BOOLEAN, m = 0 => i = 0 /\ shut
    PROVE  Cost(e, i, h, shut) <= Budget(m)
<1>1. i \in 0 .. MaxConnections /\ i + 1 <= MaxConnections
  BY CapIsNatural
<1>2. /\ Ways(i) + 2 * MaxConnections - 2 * i <= Ways(MaxConnections)
      /\ Ways(i) \in Int /\ Ways(0) = 0
  BY <1>1, WaysLeft, WaysStep, WaysEnds
<1>3. Ways(MaxConnections) \in Int
  BY WaysStep, CapIsNatural
<1> QED
  BY <1>1, <1>2, <1>3, BudgetStep, CapIsNatural, LimitsAssumption DEF Cost

(* The next turn: what was fresh is old, and the throttle open. *)
LEMMA CostOfTurn ==
    ASSUME NEW m \in Nat, NEW f \in Nat,
           NEW j \in Nat, NEW g \in Nat, NEW shut \in BOOLEAN,
           j + g <= MaxConnections,
           Cost(f, j, g, shut) <= Budget(m),
           NEW i \in 0 .. MaxConnections, NEW h \in Nat,
           shut /\ j = 0 => i <= g
    PROVE  Cost(f, i, h, FALSE) <= Budget(m + 1)
<1> DEFINE all == Ways(MaxConnections)
<1>1. /\ j \in 0 .. MaxConnections /\ g \in 0 .. MaxConnections
      /\ MaxConnections \in 0 .. MaxConnections
  BY CapIsNatural
<1>2. /\ Ways(i) <= all /\ Ways(0) = 0 /\ Ways(j) >= 0
      /\ Ways(i) \in Int /\ Ways(j) \in Int /\ all \in Int
  BY <1>1, WaysGrow, WaysStep, WaysEnds, CapIsNatural
<1>3. Budget(m + 1) = Budget(m) + all /\ Budget(m) \in Nat
  BY BudgetStep
<1>4. CASE ~ shut
  BY <1>2, <1>3, <1>4, CapIsNatural DEF Cost
<1>5. CASE shut /\ j # 0
  <2>1. Ways(j) >= 2 * MaxConnections
    <3>1. j \in 0 .. MaxConnections /\ 1 \in 0 .. j
      BY <1>1, <1>5
    <3> QED
      BY <3>1, WaysGrow, WaysEnds
  <2> HIDE DEF all
  <2> QED
    BY <1>2, <1>3, <1>5, <2>1, CapIsNatural DEF Cost
<1>6. CASE shut /\ j = 0
  <2>1. Ways(i) <= Ways(g) /\ Ways(g) \in Int
    BY <1>1, <1>6, WaysGrow, WaysStep
  <2>2. Ways(g) + 2 * MaxConnections - 2 * g <= all
    BY <1>1, WaysLeft
  <2> HIDE DEF all
  <2> QED
    BY <1>2, <1>3, <1>6, <2>1, <2>2, CapIsNatural DEF Cost
<1> QED
  BY <1>4, <1>5, <1>6

-----------------------------------------------------------------------------
(* Turns, and what it takes to pass the throttle.                          *)

LEMMA TurnOf ==
    ASSUME LimitsOrdered, NEW t \in Nat
    PROVE  /\ Turn(t) \in Nat
           /\ BaseDelay * Turn(t) <= t
           /\ t < BaseDelay * Turn(t) + BaseDelay
<1>1. BaseDelay \in Nat /\ BaseDelay > 0
  BY LimitsAssumption DEF LimitsOrdered
<1>2. ASSUME NEW b \in Nat \ {0}
      PROVE  /\ t \div b \in Nat
             /\ b * (t \div b) <= t
             /\ t < b * (t \div b) + b
  <2> DEFINE q == t \div b
  <2>1. q \in Int /\ t = b * q + (t % b) /\ t % b \in 0 .. (b - 1)
    OBVIOUS
  <2>2. q >= 0
    OBVIOUS
  <2>3. b * q \in Int
    BY <2>1
  <2> QED
    BY <2>1, <2>2, <2>3
<1> QED
  BY <1>1, <1>2 DEF Turn

LEMMA TurnsGrow ==
    ASSUME LimitsOrdered, NEW s \in Nat, NEW t \in Nat
    PROVE  /\ s <= t => Turn(s) <= Turn(t)
           /\ s + BaseDelay <= t => Turn(s) < Turn(t)
<1> DEFINE b == BaseDelay
           x == Turn(s)
           y == Turn(t)
<1>1. b \in Nat \ {0}
  BY LimitsAssumption DEF LimitsOrdered
<1>2. x \in Nat /\ y \in Nat /\ b * x <= s /\ t < b * y + b
  BY TurnOf
<1> HIDE DEF b, x, y
<1>3. b * x \in Nat /\ b * y \in Nat
  BY <1>1, <1>2
<1>4. ASSUME y < x PROVE b * y + b <= b * x
  <2>1. x - y - 1 \in Nat
    BY <1>2, <1>4
  <2>2. b * (x - y - 1) \in Nat
    BY <1>1, <2>1
  <2>3. b * x = b * y + b + b * (x - y - 1)
    BY <1>1, <1>2
  <2> QED
    BY <1>1, <1>3, <2>2, <2>3
<1>5. ASSUME s <= t PROVE x <= y
  BY <1>1, <1>2, <1>3, <1>4, <1>5
<1>6. ASSUME s + b <= t PROVE x # y
  BY <1>1, <1>2, <1>3, <1>6
<1>7. s + b <= t => s <= t
  BY <1>1
<1> QED
  BY <1>2, <1>5, <1>6, <1>7 DEF b, x, y

LEMMA TurnNext ==
    ASSUME LimitsOrdered, NEW t \in Nat
    PROVE  Turn(t + 1) \in {Turn(t), Turn(t) + 1}
<1> DEFINE b == BaseDelay
           x == Turn(t)
           y == Turn(t + 1)
<1>1. b \in Nat \ {0}
  BY LimitsAssumption DEF LimitsOrdered
<1>2. /\ x \in Nat /\ y \in Nat /\ x <= y
      /\ t < b * x + b /\ b * y <= t + 1
  BY TurnOf, TurnsGrow
<1> HIDE DEF b, x, y
<1>3. b * x \in Nat /\ b * y \in Nat
  BY <1>1, <1>2
<1>4. ASSUME x + 2 <= y PROVE FALSE
  <2>1. y - x - 2 \in Nat
    BY <1>2, <1>4
  <2>2. b * (y - x - 2) \in Nat
    BY <1>1, <2>1
  <2>3. b * y = b * x + b + b + b * (y - x - 2)
    BY <1>1, <1>2
  <2> QED
    BY <1>1, <1>2, <1>3, <2>2, <2>3
<1>5. y \in {x, x + 1}
  BY <1>2, <1>4
<1> QED
  BY <1>5 DEF x, y

(* Past the free attempts nothing passes within a base delay of the last   *)
(* failure (ratelimit.rs:90-107).                                          *)
LEMMA PassesLate ==
    ASSUME LimitsOrdered, NEW r \in Record, NEW now \in Nat,
           r.failures > FreeAttempts, DelayFor(r, now) = 0
    PROVE  r.last + BaseDelay <= now
<1> DEFINE penalized == Monus(r.failures, FreeAttempts)
           d == Doublings(penalized - 1)
<1>1. CounterMax \in Nat
  BY CounterType
<1>2. /\ r.failures \in 0 .. CounterMax /\ r.last \in Nat
      /\ penalized \in Nat \ {0}
  BY <1>1, LimitsAssumption DEF Record, Monus
<1>3. d \in Nat \ {0}
  <2>1. penalized - 1 \in Nat
    BY <1>2
  <2> DEFINE k == penalized - 1
  <2>2. CASE k < Width
    <3>1. k \in 0 .. Width
      BY <2>1, <2>2, LimitsAssumption
    <3> QED
      BY <2>2, <3>1, PowersAreNaturals DEF Doublings
  <2>3. CASE ~ (k < Width)
    BY <1>1, <1>2, <2>3, LimitsAssumption DEF Doublings
  <2> QED
    BY <2>2, <2>3
<1>4. BaseDelay * d \in Nat /\ BaseDelay * d >= BaseDelay
  <2> HIDE DEF d
  <2>1. d - 1 \in Nat
    BY <1>3
  <2>2. BaseDelay * (d - 1) \in Nat
    BY <2>1, LimitsAssumption
  <2>3. BaseDelay * d = BaseDelay * (d - 1) + BaseDelay
    BY <1>3, LimitsAssumption
  <2> QED
    BY <2>2, <2>3, LimitsAssumption
<1>5. Required(r.failures) = Least(BaseDelay * d, MaxDelay)
  BY <1>2 DEF Required
<1>6. Required(r.failures) \in Nat /\ Required(r.failures) >= BaseDelay
  <2> DEFINE whole == BaseDelay * d
  <2>1. whole \in Nat /\ whole >= BaseDelay
        /\ Required(r.failures) = Least(whole, MaxDelay)
    BY <1>4, <1>5
  <2> HIDE DEF whole
  <2> QED
    BY <2>1, LimitsAssumption DEF LimitsOrdered, Least
<1>7. CASE Monus(now, r.last) >= ForgetAfter
  BY <1>2, <1>7, LimitsAssumption DEF LimitsOrdered, Monus
<1>8. CASE ~ (Monus(now, r.last) >= ForgetAfter)
  <2>1. Monus(Required(r.failures), Monus(now, r.last)) = 0
    BY <1>8 DEF DelayFor
  <2> QED
    BY <1>2, <1>6, <2>1, LimitsAssumption DEF LimitsOrdered, Monus
<1> QED
  BY <1>7, <1>8

-----------------------------------------------------------------------------
(* Attempts under way.                                                     *)

(* They are as many as there are slots; one thread that is not under way   *)
(* leaves room for one fewer.                                              *)
LEMMA Fits ==
    ASSUME NEW S, IsFiniteSet(S), Cardinality(S) <= MaxConnections,
           NEW O \in SUBSET S, NEW F \in SUBSET S, O \cap F = {}
    PROVE  /\ Cardinality(O) \in Nat /\ Cardinality(F) \in Nat
           /\ Cardinality(O) + Cardinality(F) <= MaxConnections
           /\ \A c \in S : c \notin O \cup F =>
                 Cardinality(O) + Cardinality(F) + 1 <= MaxConnections
<1>1. IsFiniteSet(O) /\ IsFiniteSet(F) /\ Cardinality(S) \in Nat
      /\ Cardinality(O) \in Nat /\ Cardinality(F) \in Nat
  BY FS_Subset, FS_CardinalityType
<1>2. /\ IsFiniteSet(O \cup F)
      /\ Cardinality(O \cup F) = Cardinality(O) + Cardinality(F)
  <2>1. Cardinality(O \cap F) = 0
    BY FS_EmptySet
  <2>2. IsFiniteSet(O \cup F)
    BY <1>1, FS_Union
  <2>3. Cardinality(O \cup F)
        = Cardinality(O) + Cardinality(F) - Cardinality(O \cap F)
    BY <1>1, FS_Union
  <2> QED
    BY <1>1, <2>1, <2>2, <2>3
<1>3. O \cup F \in SUBSET S
  OBVIOUS
<1>4. Cardinality(O \cup F) <= Cardinality(S)
  BY <1>3, FS_Subset
<1>5. ASSUME NEW c \in S, c \notin O \cup F
      PROVE  Cardinality(O) + Cardinality(F) + 1 <= MaxConnections
  <2>1. O \cup F \in SUBSET (S \ {c})
    BY <1>3, <1>5
  <2>2. /\ IsFiniteSet(S \ {c})
        /\ Cardinality(S \ {c}) = Cardinality(S) - 1
    BY <1>5, FS_RemoveElement
  <2>3. Cardinality(O \cup F) <= Cardinality(S) - 1
    BY <2>1, <2>2, FS_Subset
  <2> QED
    BY <1>1, <1>2, <2>3, CapIsNatural
<1> QED
  BY <1>1, <1>2, <1>4, <1>5, CapIsNatural

LEMMA Fewer ==
    ASSUME NEW S, IsFiniteSet(S), NEW T \in SUBSET S
    PROVE  /\ Cardinality(T) \in Nat /\ Cardinality(S) \in Nat
           /\ Cardinality(T) <= Cardinality(S)
           /\ \A c \in S : c \notin T => Cardinality(T) + 1 <= Cardinality(S)
<1>1. IsFiniteSet(T) /\ Cardinality(T) \in Nat /\ Cardinality(S) \in Nat
      /\ Cardinality(T) <= Cardinality(S)
  BY FS_Subset, FS_CardinalityType
<1>2. ASSUME NEW c \in S, c \notin T
      PROVE  Cardinality(T) + 1 <= Cardinality(S)
  <2>1. T \in SUBSET (S \ {c})
    BY <1>2
  <2>2. /\ IsFiniteSet(S \ {c})
        /\ Cardinality(S \ {c}) = Cardinality(S) - 1
    BY <1>2, FS_RemoveElement
  <2>3. Cardinality(T) <= Cardinality(S) - 1
    BY <2>1, <2>2, FS_Subset
  <2> QED
    BY <1>1, <2>3
<1> QED
  BY <1>1, <1>2

LEMMA UnderWay ==
    ASSUME LimitsOrdered, TypeOK, NEW a
    PROVE  /\ Old(a) \in SUBSET Serving /\ Fresh(a) \in SUBSET Serving
           /\ Old(a) \cap Fresh(a) = {}
<1>1. Turn(clock) \in Nat
  BY TurnOf DEF TypeOK
<1>2. \A c : ~ (c \in Old(a) /\ c \in Fresh(a))
  BY <1>1 DEF Old, Fresh
<1> QED
  BY <1>2 DEF Old, Fresh, Checking, Of, Serving, Threads

LEMMA Room ==
    ASSUME SlotInv
    PROVE  IsFiniteSet(Serving) /\ Cardinality(Serving) <= MaxConnections
BY ServingFinite, CapIsNatural DEF SlotInv, SlotsKept, TypeOK

LEMMA TurnTypes ==
    ASSUME LimitsOrdered, TypeOK, InTime, NEW a \in Accounts
    PROVE  /\ clock \in Nat /\ Turn(clock) \in Nat
           /\ records[a] \in Record /\ records[a].failures \in Nat
           /\ records[a].last \in Nat /\ Turn(records[a].last) \in Nat
           /\ Turn(records[a].last) <= Turn(clock)
           /\ \A c \in Conns : /\ asked[c].now \in Nat
                               /\ Turn(asked[c].now) \in Nat
                               /\ Turn(asked[c].now) <= Turn(clock)
<1>1. clock \in Nat /\ records[a] \in Record /\ records[a].last \in Nat
      /\ records[a].failures \in Nat /\ records[a].last <= clock
  BY CounterType DEF TypeOK, Record, InTime
<1>2. \A c \in Conns : asked[c].now \in Nat /\ asked[c].now <= clock
  BY DEF TypeOK, InTime
<1> QED
  BY <1>1, <1>2, TurnOf, TurnsGrow

(* A thread that goes on without an attempt under way.  If its attempt was *)
(* the one on record from here, the others were older than it before.      *)
LEMMA Leaves ==
    ASSUME LimitsOrdered, TypeOK, InTime, NEW a \in Accounts, NEW c \in Conns,
           NEW place, place \notin {"throttled", "checking"},
           pc' = [pc EXCEPT ![c] = place],
           \A x \in Conns \ {c} : asked'[x] = asked[x],
           clock' = clock,
           \/ records'[a].last = records[a].last
           \/ c \in Checking(a) /\ records'[a].last = asked[c].now
    PROVE  Old(a)' \subseteq Old(a) \ {c} /\ Fresh(a)' \subseteq Fresh(a) \ {c}
<1>1. \A x \in Conns : pc'[x] = IF x = c THEN place ELSE pc[x]
  BY DEF TypeOK
<1>2. Checking(a)' \subseteq Checking(a) \ {c}
  BY <1>1 DEF Checking, Of
<1>3. Fresh(a)' \subseteq Fresh(a) \ {c}
  BY <1>1, <1>2 DEF Fresh, Checking, Of
<1>4. ASSUME NEW x \in Old(a)' PROVE x \in Old(a) \ {c}
  <2>1. /\ x \in Of(a) /\ x \in Conns /\ x # c
        /\ pc[x] \in {"throttled", "checking"} /\ pc'[x] = pc[x]
        /\ asked'[x] = asked[x]
        /\ Turn(asked[x].now) < Turn(clock)
    BY <1>1, <1>4 DEF Old, Of
  <2>2. \/ pc[x] = "checking"
        \/ Turn(records'[a].last) < Turn(asked[x].now)
        \/ \E d \in Checking(a)' : Turn(asked'[d].now) < Turn(asked[x].now)
    BY <1>4, <2>1 DEF Old
  <2>3. CASE pc[x] = "checking"
    BY <2>1, <2>3 DEF Old
  <2>4. CASE Turn(records'[a].last) < Turn(asked[x].now)
    BY <2>1, <2>4 DEF Old
  <2>5. CASE \E d \in Checking(a)' : Turn(asked'[d].now) < Turn(asked[x].now)
    <3>1. PICK d \in Checking(a)' : Turn(asked'[d].now) < Turn(asked[x].now)
      BY <2>5
    <3>2. d \in Checking(a) /\ d \in Conns \ {c}
      BY <1>2 DEF Checking, Of
    <3> QED
      BY <2>1, <3>1, <3>2 DEF Old
  <2> QED
    BY <2>2, <2>3, <2>4, <2>5
<1> QED
  BY <1>3, <1>4

(* Nothing on record changes, and at most fresh attempts are added while   *)
(* the throttle is open.                                                   *)
LEMMA Quiet ==
    ASSUME LimitsOrdered, SlotInv, OverrunInv, NEW a \in Accounts,
           Turn(clock') = Turn(clock), records'[a] = records[a],
           Old(a)' \subseteq Old(a),
           Fresh(a)' \subseteq Fresh(a) \/ (~ Shut(a) /\ Fresh(a)' \subseteq Serving)
    PROVE  WithinBudget(a)'
<1>1. TypeOK /\ InTime /\ WithinBudget(a)
  BY DEF SlotInv, OverrunInv
<1>2. /\ IsFiniteSet(Serving) /\ Cardinality(Serving) <= MaxConnections
      /\ Old(a) \in SUBSET Serving /\ Fresh(a) \in SUBSET Serving
      /\ Old(a) \cap Fresh(a) = {}
  BY <1>1, Room, UnderWay
<1>3. IsFiniteSet(Old(a)) /\ IsFiniteSet(Fresh(a))
  BY <1>2, FS_Subset
<1> DEFINE j == Cardinality(Old(a))
           g == Cardinality(Fresh(a))
           i == Cardinality(Old(a)')
           h == Cardinality(Fresh(a)')
           f == records[a].failures
<1>4. j \in Nat /\ g \in Nat /\ j + g <= MaxConnections
  BY <1>2, Fits
<1>5. i \in Nat /\ i <= j
  BY <1>3, Fewer
<1>6. h \in Nat /\ (h <= g \/ ~ Shut(a))
  BY <1>2, <1>3, Fewer
<1>7. f \in Nat
  BY <1>1, TurnTypes
<1>8. Shut(a)' = Shut(a) /\ Shut(a) \in BOOLEAN
  BY DEF Shut
<1>9. SUFFICES ASSUME f > FreeAttempts
               PROVE  Cost(f, i, h, Shut(a)) <= Budget(Turn(clock))
  BY <1>8 DEF WithinBudget
<1>10. Cost(f, j, g, Shut(a)) <= Budget(Turn(clock))
  BY <1>1, <1>9 DEF WithinBudget
<1>11. Turn(clock) \in Nat
  BY <1>1, TurnTypes
<1>12. j \in 0 .. MaxConnections /\ i \in 0 .. j
  BY <1>4, <1>5, CapIsNatural
<1> HIDE DEF i, j, f, g, h
<1>13. Cost(f, i, h, Shut(a)) <= Cost(f, j, g, Shut(a))
  BY <1>4, <1>6, <1>7, <1>8, <1>12, CostFalls
<1>14. \A s \in BOOLEAN : Cost(f, i, h, s) \in Int /\ Cost(f, j, g, s) \in Int
  BY <1>4, <1>5, <1>6, <1>7, WaysStep, CapIsNatural DEF Cost
<1>15. Budget(Turn(clock)) \in Int
  BY <1>11, BudgetStep
<1> QED
  BY <1>8, <1>10, <1>13, <1>14, <1>15

(* An attempt fails: a fresh one, or an old one. *)
LEMMA FreshFails ==
    ASSUME NEW f \in Nat, NEW j \in Nat, NEW g \in Nat, NEW shut \in BOOLEAN,
           NEW e \in Nat, NEW i \in Nat, NEW h \in Nat, NEW m \in Nat,
           f > FreeAttempts => Cost(f, j, g, shut) <= Budget(m),
           e <= f + 1, j + g <= MaxConnections,
           i <= j, h + 1 <= g, i + h + 1 <= MaxConnections,
           m = 0 => i = 0
    PROVE  e > FreeAttempts => Cost(e, i, h, TRUE) <= Budget(m)
<1>1. ASSUME e <= FreeAttempts + 1
      PROVE  Cost(e, i, h, TRUE) <= Budget(m)
  BY <1>1, CostOfFirst
<1>2. ASSUME f > FreeAttempts
      PROVE  Cost(e, i, h, TRUE) <= Budget(m)
  <2>1. j \in 0 .. MaxConnections /\ i \in 0 .. j
    BY CapIsNatural
  <2>2. Cost(e, i, h, TRUE) <= Cost(f, j, g, shut)
    BY <2>1, CostOfFresh
  <2> QED
    BY <1>2, <2>2, WaysStep, BudgetStep, CapIsNatural DEF Cost
<1>3. e <= FreeAttempts + 1 \/ f > FreeAttempts
  BY LimitsAssumption
<1> QED
  BY <1>1, <1>2, <1>3

LEMMA OldFails ==
    ASSUME NEW f \in Nat, NEW j \in Nat, NEW g \in Nat, NEW shut \in BOOLEAN,
           NEW e \in Nat, NEW i \in Nat, NEW h \in Nat, NEW m \in Nat,
           f > FreeAttempts => Cost(f, j, g, shut) <= Budget(m),
           e <= f + 1, j + g <= MaxConnections,
           i + 1 <= j, i + h + 1 <= MaxConnections, m # 0
    PROVE  e > FreeAttempts => Cost(e, i, h, FALSE) <= Budget(m)
<1>1. ASSUME e <= FreeAttempts + 1
      PROVE  Cost(e, i, h, FALSE) <= Budget(m)
  BY <1>1, CostOfFirst
<1>2. ASSUME f > FreeAttempts
      PROVE  Cost(e, i, h, FALSE) <= Budget(m)
  <2>1. j \in 1 .. MaxConnections /\ i \in 0 .. j - 1
    BY CapIsNatural
  <2>2. Cost(e, i, h, FALSE) <= Cost(f, j, g, shut)
    BY <2>1, CostOfOld
  <2> QED
    BY <1>2, <2>2, WaysStep, BudgetStep, CapIsNatural DEF Cost
<1>3. e <= FreeAttempts + 1 \/ f > FreeAttempts
  BY LimitsAssumption
<1> QED
  BY <1>1, <1>2, <1>3

LEMMA Fails ==
    ASSUME LimitsOrdered, SlotInv, OverrunInv, NEW c \in Conns,
           NEW a \in Accounts, a = Owner[c], CheckDenied(c)
    PROVE  WithinBudget(a)'
<1> DEFINE j == Cardinality(Old(a))
           g == Cardinality(Fresh(a))
           i == Cardinality(Old(a)')
           h == Cardinality(Fresh(a)')
           f == records[a].failures
           e == records'[a].failures
           m == Turn(clock)
<1>1. TypeOK /\ InTime /\ WithinBudget(a)
  BY DEF SlotInv, OverrunInv
<1>2. /\ pc[c] = "checking" /\ c \in Checking(a) /\ c \in Serving
      /\ pc' = [pc EXCEPT ![c] = "replying"]
      /\ \A x \in Conns \ {c} : asked'[x] = asked[x]
      /\ records'[a] = RecordFailure(records[a], asked[c].now)
      /\ clock' = clock
  BY <1>1 DEF CheckDenied, Answered, Goto, Checking, Of, Serving, Threads, TypeOK
<1>3. records'[a].last = asked[c].now
  BY <1>2 DEF RecordFailure
<1>4. e \in Nat /\ e <= f + 1 /\ f \in Nat
  <2>1. records[a] \in Record /\ asked[c].now \in Nat
    BY <1>1, TurnTypes
  <2>2. RecordFailure(records[a], asked[c].now) \in Record
    BY <2>1, RecordTypes
  <2>3. f \in Nat /\ e \in Nat
    BY <1>2, <2>1, <2>2, CounterType DEF Record
  <2>4. RecordFailure(records[a], asked[c].now).failures <= f + 1
    BY <2>3, CounterType DEF RecordFailure, Least
  <2> QED
    BY <1>2, <2>3, <2>4
<1>5. Old(a)' \subseteq Old(a) \ {c} /\ Fresh(a)' \subseteq Fresh(a) \ {c}
  BY <1>1, <1>2, <1>3, Leaves
<1>6. /\ IsFiniteSet(Serving) /\ Cardinality(Serving) <= MaxConnections
      /\ Old(a) \in SUBSET Serving /\ Fresh(a) \in SUBSET Serving
      /\ Old(a) \cap Fresh(a) = {}
  BY <1>1, Room, UnderWay
<1>7. IsFiniteSet(Old(a)) /\ IsFiniteSet(Fresh(a))
  BY <1>6, FS_Subset
<1>8. j \in Nat /\ g \in Nat /\ j + g <= MaxConnections
  BY <1>6, Fits
<1>9. /\ i \in Nat /\ h \in Nat /\ i <= j /\ h <= g
      /\ i + h + 1 <= MaxConnections
  <2>1. i <= j /\ h <= g
    BY <1>5, <1>7, Fewer
  <2>2. i \in Nat /\ h \in Nat /\ i + h + 1 <= MaxConnections
    <3>1. /\ Old(a)' \in SUBSET Serving /\ Fresh(a)' \in SUBSET Serving
          /\ Old(a)' \cap Fresh(a)' = {}
          /\ c \notin Old(a)' \cup Fresh(a)'
      BY <1>5, <1>6
    <3> QED
      BY <1>2, <1>6, <3>1, Fits
  <2> QED
    BY <2>1, <2>2
<1>10. /\ m \in Nat /\ Turn(asked[c].now) \in Nat
       /\ Turn(asked[c].now) <= m
  BY <1>1, TurnTypes
<1>11. Shut(a)' <=> Turn(asked[c].now) = m
  BY <1>2, <1>3 DEF Shut
<1>12. /\ Shut(a) \in BOOLEAN
       /\ f > FreeAttempts => Cost(f, j, g, Shut(a)) <= Budget(m)
  BY <1>1 DEF WithinBudget, Shut
<1>13. CASE Turn(asked[c].now) = m
  <2>1. h + 1 <= g
    <3>1. c \in Fresh(a) /\ c \notin Fresh(a)'
      BY <1>2, <1>5, <1>13 DEF Fresh
    <3>2. Fresh(a)' \in SUBSET Fresh(a)
      BY <1>5
    <3> QED
      BY <1>7, <3>1, <3>2, Fewer
  <2>2. m = 0 => i = 0
    <3>1. ASSUME m = 0, NEW x \in Old(a) PROVE FALSE
      <4>1. x \in Conns /\ Turn(asked[x].now) < m
        BY DEF Old, Of
      <4>2. Turn(asked[x].now) \in Nat
        BY <1>1, <4>1, TurnTypes
      <4> QED
        BY <3>1, <4>1, <4>2
    <3>2. ASSUME m = 0 PROVE Old(a)' = {}
      BY <1>5, <3>1, <3>2
    <3> QED
      BY <3>2, FS_EmptySet
  <2>3. Shut(a)' = TRUE
    BY <1>11, <1>13 DEF Shut
  <2>4. e > FreeAttempts => Cost(e, i, h, TRUE) <= Budget(m)
    <3> HIDE DEF i, j, g, h, f, e, m
    <3> QED
      BY <1>4, <1>8, <1>9, <1>10, <1>12, <2>1, <2>2, FreshFails
  <2> QED
    BY <1>2, <2>3, <2>4 DEF WithinBudget
<1>14. CASE Turn(asked[c].now) # m
  <2>1. c \in Old(a) /\ m # 0
    BY <1>2, <1>10, <1>14 DEF Old, Checking
  <2>2. i + 1 <= j
    <3>1. Old(a)' \in SUBSET Old(a) /\ c \notin Old(a)'
      BY <1>5
    <3> QED
      BY <1>7, <2>1, <3>1, Fewer
  <2>3. Shut(a)' = FALSE
    BY <1>11, <1>14 DEF Shut
  <2>4. e > FreeAttempts => Cost(e, i, h, FALSE) <= Budget(m)
    <3> HIDE DEF i, j, g, h, f, e, m
    <3> QED
      BY <1>4, <1>8, <1>9, <1>10, <1>12, <2>1, <2>2, OldFails
  <2> QED
    BY <1>2, <2>3, <2>4 DEF WithinBudget
<1> QED
  BY <1>13, <1>14

(* Its own moves, that neither ask nor pass the throttle. *)
LEMMA QuietLeaves ==
    ASSUME LimitsOrdered, SlotInv, OverrunInv, NEW a \in Accounts,
           NEW c \in Conns,
           NEW place, place \notin {"throttled", "checking"},
           pc' = [pc EXCEPT ![c] = place],
           \A x \in Conns \ {c} : asked'[x] = asked[x],
           clock' = clock, records'[a] = records[a]
    PROVE  WithinBudget(a)'
<1>1. TypeOK /\ InTime
  BY DEF SlotInv, OverrunInv
<1>2. Old(a)' \subseteq Old(a) \ {c} /\ Fresh(a)' \subseteq Fresh(a) \ {c}
  BY <1>1, Leaves
<1>3. Turn(clock') = Turn(clock)
  OBVIOUS
<1> QED
  BY <1>2, <1>3, Quiet

LEMMA Forgiven ==
    ASSUME NEW a \in Accounts, records'[a].failures \in Nat,
           records'[a].failures <= FreeAttempts
    PROVE  WithinBudget(a)'
BY LimitsAssumption DEF WithinBudget

(* Nothing that counts changes. *)
LEMMA QuietStays ==
    ASSUME LimitsOrdered, SlotInv, OverrunInv, NEW a \in Accounts,
           UNCHANGED <<pc, asked, records>>, Turn(clock') = Turn(clock)
    PROVE  WithinBudget(a)'
<1>1. Old(a)' \subseteq Old(a) /\ Fresh(a)' \subseteq Fresh(a)
  BY DEF Old, Fresh, Checking, Of
<1> QED
  BY <1>1, Quiet

(* A question is of the present turn. *)
LEMMA QuietAsks ==
    ASSUME LimitsOrdered, SlotInv, OverrunInv, NEW a \in Accounts,
           NEW c \in Conns, NEW purpose \in Purposes, ReadSecret(c, purpose)
    PROVE  WithinBudget(a)'
<1>1. TypeOK /\ InTime
  BY DEF SlotInv, OverrunInv
<1>2. /\ \A x \in Conns : pc'[x] = IF x = c THEN "throttled" ELSE pc[x]
      /\ \A x \in Conns \ {c} : asked'[x] = asked[x]
      /\ asked'[c].now = clock /\ pc[c] = "reading"
      /\ clock' = clock /\ records' = records
  BY <1>1 DEF ReadSecret, Goto, TypeOK
<1>3. Checking(a)' = Checking(a) /\ c \notin Checking(a)
  BY <1>2 DEF Checking, Of
<1>4. Fresh(a)' \subseteq Fresh(a)
  BY <1>2, <1>3 DEF Fresh, Checking, Of
<1>5. ASSUME NEW x \in Old(a)' PROVE x \in Old(a)
  <2>1. x \in Of(a) /\ x \in Conns /\ Turn(asked'[x].now) < Turn(clock)
    BY <1>2, <1>5 DEF Old, Of
  <2>2. Turn(clock) \in Nat
    BY <1>1, TurnTypes
  <2>3. x # c
    BY <1>2, <2>1, <2>2
  <2>4. \A d \in Checking(a) : asked'[d] = asked[d]
    BY <1>2, <1>3 DEF Checking, Of
  <2> QED
    BY <1>2, <1>3, <1>5, <2>1, <2>3, <2>4 DEF Old
<1> QED
  BY <1>2, <1>4, <1>5, Quiet

(* Whoever passes the throttle does so a turn after the failure on record. *)
LEMMA QuietPasses ==
    ASSUME LimitsOrdered, SlotInv, OverrunInv, NEW a \in Accounts,
           NEW c \in Conns, pc[c] = "throttled",
           DelayFor(records[Owner[c]], asked[c].now) = 0,
           pc' = [pc EXCEPT ![c] = "checking"],
           UNCHANGED <<clock, asked, records>>
    PROVE  WithinBudget(a)'
<1>1. TypeOK /\ InTime
  BY DEF SlotInv, OverrunInv
<1>2. \A x \in Conns : pc'[x] = IF x = c THEN "checking" ELSE pc[x]
  BY <1>1 DEF TypeOK
<1>3. CASE Owner[c] # a
  <2>1. Checking(a)' = Checking(a) /\ \A x \in Of(a) : pc'[x] = pc[x]
    BY <1>2, <1>3 DEF Checking, Of
  <2>2. Old(a)' \subseteq Old(a)
    BY <2>1 DEF Old, Of
  <2>3. Fresh(a)' \subseteq Fresh(a)
    BY <2>1 DEF Fresh
  <2> QED
    BY <2>2, <2>3, Quiet
<1>4. CASE Owner[c] = a /\ records[a].failures <= FreeAttempts
  <2>1. records[a].failures \in Nat
    BY <1>1, TurnTypes
  <2> QED
    BY <1>4, <2>1, Forgiven
<1>5. CASE Owner[c] = a /\ records[a].failures > FreeAttempts
  <2>1. /\ asked[c].now \in Nat /\ records[a] \in Record
        /\ records[a].last \in Nat
        /\ Turn(records[a].last) \in Nat /\ Turn(clock) \in Nat
        /\ \A x \in Conns : /\ Turn(asked[x].now) \in Nat
                            /\ Turn(asked[x].now) <= Turn(clock)
    BY <1>1, TurnTypes
  <2>2. Turn(records[a].last) < Turn(asked[c].now)
    <3>1. records[a].last + BaseDelay <= asked[c].now
      BY <1>5, <2>1, PassesLate
    <3> QED
      BY <2>1, <3>1, TurnsGrow
  <2>3. c \in Of(a) /\ Checking(a)' = Checking(a) \cup {c}
    BY <1>2, <1>5 DEF Checking, Of
  <2>4. ASSUME NEW x \in Old(a)' PROVE x \in Old(a)
    <3>1. /\ x \in Of(a) /\ x \in Conns
          /\ pc[x] \in {"throttled", "checking"}
          /\ Turn(asked[x].now) < Turn(clock)
      BY <1>2, <2>4 DEF Old, Of
    <3>2. CASE x = c
      BY <2>2, <3>1, <3>2 DEF Old
    <3>3. CASE x # c
      <4>1. \/ pc[x] = "checking"
            \/ Turn(records[a].last) < Turn(asked[x].now)
            \/ \E d \in Checking(a)' : Turn(asked[d].now) < Turn(asked[x].now)
        BY <1>2, <2>4, <3>1, <3>3 DEF Old
      <4>2. CASE \E d \in Checking(a)' : Turn(asked[d].now) < Turn(asked[x].now)
        <5>1. PICK d \in Checking(a) \cup {c} :
                 Turn(asked[d].now) < Turn(asked[x].now)
          BY <2>3, <4>2
        <5>2. CASE d = c
          <6>1. Turn(records[a].last) < Turn(asked[x].now)
            BY <2>1, <2>2, <3>1, <5>1, <5>2
          <6> QED
            BY <3>1, <6>1 DEF Old
        <5>3. CASE d \in Checking(a)
          BY <3>1, <5>1, <5>3 DEF Old
        <5> QED
          BY <5>2, <5>3
      <4> QED
        BY <3>1, <4>1, <4>2 DEF Old
    <3> QED
      BY <3>2, <3>3
  <2>5. Fresh(a)' \subseteq Fresh(a)
        \/ (~ Shut(a) /\ Fresh(a)' \subseteq Serving)
    <3>1. Fresh(a)' \subseteq Serving
      BY <1>2, <2>3 DEF Fresh, Checking, Of, Serving, Threads
    <3>2. CASE Turn(asked[c].now) = Turn(clock)
      <4>1. ~ Shut(a)
        BY <2>1, <2>2, <3>2 DEF Shut
      <4> QED
        BY <3>1, <4>1
    <3>3. CASE Turn(asked[c].now) # Turn(clock)
      BY <2>3, <3>3 DEF Fresh
    <3> QED
      BY <3>2, <3>3
  <2> QED
    BY <2>4, <2>5, Quiet
<1>6. records[a].failures <= FreeAttempts \/ records[a].failures > FreeAttempts
  BY <1>1, TurnTypes, LimitsAssumption
<1> QED
  BY <1>3, <1>4, <1>5, <1>6

(* Time passes. *)
LEMMA TurnPasses ==
    ASSUME LimitsOrdered, SlotInv, OverrunInv, NEW a \in Accounts, Tick
    PROVE  WithinBudget(a)'
<1>1. TypeOK /\ InTime /\ WithinBudget(a)
  BY DEF SlotInv, OverrunInv
<1>2. clock' = clock + 1 /\ UNCHANGED <<pc, asked, records>>
  BY DEF Tick
<1>3. /\ clock \in Nat /\ Turn(clock) \in Nat
      /\ Turn(records[a].last) \in Nat /\ records[a].failures \in Nat
      /\ Turn(records[a].last) <= Turn(clock)
      /\ \A x \in Conns : /\ Turn(asked[x].now) \in Nat
                          /\ Turn(asked[x].now) <= Turn(clock)
  BY <1>1, TurnTypes
<1>4. CASE Turn(clock') = Turn(clock)
  BY <1>2, <1>4, QuietStays
<1>5. CASE Turn(clock') = Turn(clock) + 1
  <2> DEFINE f == records[a].failures
             j == Cardinality(Old(a))
             g == Cardinality(Fresh(a))
             i == Cardinality(Old(a)')
             h == Cardinality(Fresh(a)')
             m == Turn(clock)
  <2>1. /\ IsFiniteSet(Serving) /\ Cardinality(Serving) <= MaxConnections
        /\ Old(a) \in SUBSET Serving /\ Fresh(a) \in SUBSET Serving
        /\ Old(a) \cap Fresh(a) = {}
        /\ IsFiniteSet(Old(a)) /\ IsFiniteSet(Fresh(a))
    BY <1>1, Room, UnderWay, FS_Subset
  <2>2. j \in Nat /\ g \in Nat /\ j + g <= MaxConnections
    BY <2>1, Fits
  <2>3. Old(a)' \in SUBSET Serving /\ Fresh(a)' \in SUBSET Serving
    BY <1>2 DEF Old, Fresh, Checking, Of, Serving, Threads
  <2>4. i \in 0 .. MaxConnections /\ h \in Nat
    <3>1. i \in Nat /\ i <= Cardinality(Serving) /\ h \in Nat
          /\ Cardinality(Serving) \in Nat
      BY <2>1, <2>3, Fewer
    <3> QED
      BY <2>1, <3>1, CapIsNatural
  <2>5. ASSUME Shut(a), Old(a) = {} PROVE Old(a)' \subseteq Fresh(a)
    <3> SUFFICES ASSUME NEW x \in Old(a)' PROVE x \in Fresh(a)
      OBVIOUS
    <3>1. /\ x \in Of(a) /\ x \in Conns
          /\ \/ pc[x] = "checking"
             \/ Turn(records[a].last) < Turn(asked[x].now)
             \/ \E d \in Checking(a) : Turn(asked[d].now) < Turn(asked[x].now)
      BY <1>2 DEF Old, Of, Checking
    <3>2. \A d \in Checking(a) : Turn(asked[d].now) = Turn(clock)
      <4> SUFFICES ASSUME NEW d \in Checking(a), Turn(asked[d].now) # Turn(clock)
                   PROVE  FALSE
        OBVIOUS
      <4>1. d \in Conns /\ Turn(asked[d].now) < Turn(clock)
        BY <1>3 DEF Checking, Of
      <4> QED
        BY <2>5, <4>1 DEF Old, Checking
    <3>3. pc[x] = "checking"
      BY <1>3, <2>5, <3>1, <3>2 DEF Shut
    <3> QED
      BY <3>1, <3>2, <3>3 DEF Fresh, Checking
  <2>6. Shut(a) /\ j = 0 => i <= g
    <3> SUFFICES ASSUME Shut(a), j = 0 PROVE i <= g
      OBVIOUS
    <3>1. Old(a) = {}
      BY <2>1, FS_EmptySet
    <3>2. Old(a)' \in SUBSET Fresh(a)
      BY <2>5, <3>1
    <3> QED
      BY <2>1, <3>2, Fewer
  <2>7. Shut(a)' = FALSE
    BY <1>2, <1>3, <1>5 DEF Shut
  <2>8. /\ Shut(a) \in BOOLEAN
        /\ f > FreeAttempts => Cost(f, j, g, Shut(a)) <= Budget(m)
    BY <1>1 DEF WithinBudget, Shut
  <2>9. f > FreeAttempts => Cost(f, i, h, FALSE) <= Budget(m + 1)
    <3> HIDE DEF f, i, j, g, h, m
    <3>1. f \in Nat /\ m \in Nat
      BY <1>3 DEF f, m
    <3>2. ASSUME f > FreeAttempts
          PROVE  Cost(f, i, h, FALSE) <= Budget(m + 1)
      <4>1. Cost(f, j, g, Shut(a)) <= Budget(m)
        BY <2>8, <3>2
      <4> QED
        BY <2>2, <2>4, <2>6, <2>8, <3>1, <4>1, CostOfTurn
    <3> QED
      BY <3>2
  <2> QED
    BY <1>2, <1>5, <2>7, <2>9 DEF WithinBudget
<1> QED
  BY <1>2, <1>3, <1>4, <1>5, TurnNext

-----------------------------------------------------------------------------

(* Threads, clients and the accept loop where no attempt begins, passes or *)
(* is answered by a record.                                                *)
Elsewhere(c) ==
    \/ Connect(c)
    \/ Accept(c)
    \/ Resolve(c)
    \/ ReadEnds(c) \/ ReadFree(c) \/ ReadWatch(c)
    \/ CheckFails(c)
    \/ Reply(c)
    \/ EnrolEnds(c)
    \/ WatchEnds(c)
    \/ WatchMatches(c)
    \/ CountOut(c)

LEMMA ElsewhereQuiet ==
    ASSUME LimitsOrdered, SlotInv, OverrunInv, NEW a \in Accounts,
           NEW c \in Conns, Elsewhere(c)
    PROVE  WithinBudget(a)'
<1>1. TypeOK
  BY DEF SlotInv
<1>2. /\ \E place \in Places \ {"throttled", "checking"} :
            pc' = [pc EXCEPT ![c] = place]
      /\ \A x \in Conns \ {c} : asked'[x] = asked[x]
      /\ clock' = clock /\ records' = records
  BY <1>1 DEF Elsewhere, Connect, Accept, Resolve, ReadEnds, ReadFree,
              ReadWatch, CheckFails, Reply, EnrolEnds, WatchEnds,
              WatchMatches, CountOut, Answered, Goto, Places, Threads, TypeOK
<1> QED
  BY <1>2, QuietLeaves

LEMMA NextOverrun ==
    ASSUME LimitsOrdered, SlotInv, OverrunInv, [Next]_vars
    PROVE  OverrunInv'
<1>1. TypeOK /\ InTime /\ GuestHeld /\ clock \in Nat
  BY DEF SlotInv, OverrunInv, TypeOK
<1>2. InTime'
  <2>1. /\ \A c \in Conns : asked[c].now \in Nat /\ asked[c].now <= clock
        /\ \A b \in Accounts : records[b].last \in Nat /\ records[b].last <= clock
    BY <1>1 DEF TypeOK, InTime, Record
  <2>2. clock' \in Nat /\ clock <= clock'
    BY <1>1 DEF Next, Tick, Door, Accept, CountIn, Spawn, Client, Connect,
                HangUp, Serve, Resolve, Read, ReadEnds, ReadFree, ReadWatch,
                ReadSecret, Throttle, Check, CheckGranted, CheckDenied,
                CheckFails, Reply, EnrolEnds, WatchEnds, WatchMatches,
                RecordWatch, CountOut, vars
  <2>3. CASE UNCHANGED <<asked, records>>
    BY <2>1, <2>2, <2>3, <1>1 DEF InTime
  <2>4. ASSUME NEW c \in Conns, NEW purpose \in Purposes,
               ReadSecret(c, purpose)
        PROVE  InTime'
    <3>1. /\ asked'[c].now = clock /\ clock' = clock /\ records' = records
          /\ \A x \in Conns \ {c} : asked'[x] = asked[x]
      BY <1>1, <2>4 DEF ReadSecret, TypeOK
    <3> QED
      BY <1>1, <2>1, <3>1 DEF InTime
  <2>5. ASSUME NEW c \in Conns, Throttle(c) \/ CheckFails(c) PROVE InTime'
    BY <1>1, <2>1, <2>5 DEF Throttle, CheckFails, Answered, NotAsked, InTime,
                            TypeOK
  <2>6. ASSUME NEW c \in Conns, CheckGranted(c) \/ RecordWatch(c)
        PROVE  InTime'
    <3>1. /\ \A x \in Conns : asked'[x] \in {asked[x], NotAsked}
          /\ \A b \in Accounts : records'[b] \in {records[b], RecordSuccess(records[b])}
          /\ clock' = clock
      BY <1>1, <2>6 DEF CheckGranted, RecordWatch, Answered, TypeOK
    <3> QED
      BY <1>1, <2>1, <3>1 DEF NotAsked, RecordSuccess, NoRecord, InTime
  <2>7. ASSUME NEW c \in Conns, CheckDenied(c) PROVE InTime'
    BY <1>1, <2>1, <2>7 DEF CheckDenied, Answered, NotAsked, RecordFailure,
                            InTime, TypeOK
  <2> QED
    BY <2>3, <2>4, <2>5, <2>6, <2>7
       DEF Next, Tick, Door, Accept, CountIn, Spawn, Client, Connect, HangUp,
           Serve, Resolve, Read, ReadEnds, ReadFree, ReadWatch, Check, Reply,
           EnrolEnds, WatchEnds, WatchMatches, CountOut, vars
<1>3. ASSUME NEW a \in Accounts PROVE WithinBudget(a)'
  <2>1. CASE Tick
    BY <2>1, TurnPasses
  <2>2. CASE UNCHANGED vars \/ CountIn \/ \E c \in Conns : HangUp(c)
    <3>1. UNCHANGED <<pc, asked, records>> /\ Turn(clock') = Turn(clock)
      BY <2>2 DEF vars, CountIn, HangUp
    <3> QED
      BY <3>1, QuietStays
  <2>3. CASE Spawn
    <3>1. guest \in Conns /\ UNCHANGED <<clock, asked, records>>
      BY <1>1, <2>3 DEF Spawn, GuestHeld
    <3>2. \E place \in {"starting", "ended"} : pc' = [pc EXCEPT ![guest] = place]
      BY <2>3 DEF Spawn, Goto
    <3> QED
      BY <3>1, <3>2, QuietLeaves
  <2>4. ASSUME NEW c \in Conns, Elsewhere(c) PROVE WithinBudget(a)'
    BY <2>4, ElsewhereQuiet
  <2>5. ASSUME NEW c \in Conns, NEW purpose \in Purposes,
               ReadSecret(c, purpose)
        PROVE  WithinBudget(a)'
    BY <2>5, QuietAsks
  <2>6. ASSUME NEW c \in Conns, Throttle(c) PROVE WithinBudget(a)'
    <3>1. CASE DelayFor(records[Owner[c]], asked[c].now) = 0
      BY <2>6, <3>1, QuietPasses DEF Throttle, Goto
    <3>2. CASE DelayFor(records[Owner[c]], asked[c].now) # 0
      <4>1. /\ pc' = [pc EXCEPT ![c] = "replying"]
            /\ \A x \in Conns \ {c} : asked'[x] = asked[x]
            /\ clock' = clock /\ records' = records
        BY <1>1, <2>6, <3>2 DEF Throttle, Answered, Goto, TypeOK
      <4> QED
        BY <4>1, QuietLeaves
    <3> QED
      BY <3>1, <3>2
  <2>7. ASSUME NEW c \in Conns,
               CheckGranted(c) \/ RecordWatch(c) \/ CheckDenied(c)
        PROVE  WithinBudget(a)'
    <3>1. /\ \E place \in {"enrolling", "replying", "closing"} :
                pc' = [pc EXCEPT ![c] = place]
          /\ \A x \in Conns \ {c} : asked'[x] = asked[x]
          /\ clock' = clock
      BY <1>1, <2>7 DEF CheckGranted, RecordWatch, CheckDenied, Answered,
                        Goto, TypeOK
    <3>2. CASE Owner[c] # a
      <4>1. records'[a] = records[a]
        BY <1>1, <2>7, <3>2 DEF CheckGranted, RecordWatch, CheckDenied, TypeOK
      <4> QED
        BY <3>1, <4>1, QuietLeaves
    <3>3. CASE Owner[c] = a /\ CheckDenied(c)
      BY <3>3, Fails
    <3>4. CASE Owner[c] = a /\ (CheckGranted(c) \/ RecordWatch(c))
      <4>1. records'[a].failures = 0
        BY <1>1, <3>4 DEF CheckGranted, RecordWatch, RecordSuccess, NoRecord, TypeOK
      <4>2. records'[a].failures \in Nat /\ records'[a].failures <= FreeAttempts
        BY <4>1, LimitsAssumption
      <4> QED
        BY <4>2, Forgiven
    <3> QED
      BY <2>7, <3>2, <3>3, <3>4
  <2> QED
    BY <2>1, <2>2, <2>3, <2>4, <2>5, <2>6, <2>7
       DEF Next, Client, Serve, Read, Check, Door, Elsewhere
<1> QED
  BY <1>2, <1>3 DEF OverrunInv

LEMMA InitOverrun == LimitsOrdered /\ Init => OverrunInv
<1> SUFFICES ASSUME LimitsOrdered, Init PROVE OverrunInv
  OBVIOUS
<1>1. InTime
  BY DEF Init, InTime, NotAsked, NoRecord
<1>2. ASSUME NEW a \in Accounts PROVE WithinBudget(a)
  BY <1>2, LimitsAssumption DEF Init, WithinBudget, NoRecord
<1> QED
  BY <1>1, <1>2 DEF OverrunInv

(* What the budget allows is what the property promises. *)
LEMMA BudgetBounds ==
    ASSUME LimitsOrdered, SlotInv, OverrunInv PROVE OverrunBounded
<1>1. TypeOK /\ InTime
  BY DEF SlotInv, OverrunInv
<1>2. SUFFICES ASSUME NEW a \in Accounts
               PROVE  records[a].failures
                      <= FreeAttempts + MaxConnections + Overrun * Turn(clock)
  BY DEF OverrunBounded, Turn
<1> DEFINE f == records[a].failures
           j == Cardinality(Old(a))
           g == Cardinality(Fresh(a))
           m == Turn(clock)
<1>3. f \in Nat /\ m \in Nat
  BY <1>1, TurnTypes
<1>4. j \in 0 .. MaxConnections /\ g \in Nat
  <2>1. /\ IsFiniteSet(Serving) /\ Cardinality(Serving) <= MaxConnections
        /\ Old(a) \in SUBSET Serving /\ Fresh(a) \in SUBSET Serving
        /\ Old(a) \cap Fresh(a) = {}
    BY <1>1, Room, UnderWay
  <2>2. j \in Nat /\ g \in Nat /\ j + g <= MaxConnections
    BY <2>1, Fits
  <2> QED
    BY <2>2, CapIsNatural
<1>5. f > FreeAttempts => Cost(f, j, g, Shut(a)) <= Budget(m)
  BY DEF OverrunInv, WithinBudget
<1> HIDE DEF f, j, g, m
<1>6. Overrun \in Nat /\ Overrun * m \in Nat
      /\ MaxConnections * (MaxConnections + 1) * m = 2 * (Overrun * m)
  <2>1. 2 * Overrun = MaxConnections * (MaxConnections + 1)
    BY TwiceOverrun
  <2>2. Overrun \in Nat
    <3> DEFINE s == MaxConnections * (MaxConnections + 1)
    <3>1. s \in Nat
      BY CapIsNatural
    <3> HIDE DEF s
    <3>2. s \div 2 \in Nat
      BY <3>1
    <3> QED
      BY <3>2 DEF Overrun, s
  <2>3. ASSUME NEW x \in Nat, NEW y \in Nat
        PROVE  x * y \in Nat /\ (2 * x) * y = 2 * (x * y)
    OBVIOUS
  <2> QED
    BY <1>3, <2>1, <2>2, <2>3
<1>7. CASE f > FreeAttempts
  <2>1. Ways(j) >= 0 /\ Ways(j) \in Int
    <3>1. 0 \in 0 .. j
      BY <1>4
    <3> QED
      BY <1>4, <3>1, WaysGrow, WaysEnds, WaysStep
  <2>2. 2 * f <= Cost(f, j, g, Shut(a))
    BY <1>3, <1>4, <2>1, CapIsNatural DEF Cost
  <2>3. 2 * f <= 2 * FreeAttempts + 2 * MaxConnections + 2 * (Overrun * m)
    BY <1>3, <1>4, <1>5, <1>6, <1>7, <2>1, CapIsNatural, LimitsAssumption
       DEF Cost, Budget
  <2> QED
    BY <1>3, <1>6, <2>3, CapIsNatural, LimitsAssumption DEF f, m
<1>8. CASE ~ (f > FreeAttempts)
  BY <1>3, <1>6, <1>8, CapIsNatural, LimitsAssumption DEF f, m
<1> QED
  BY <1>7, <1>8

(* However the checks of one account overlap, its failures are bounded     *)
(* (verify.rs:421): the throttle lets in a full house, and each of those   *)
(* that fails after its turn opens it once more.                           *)
THEOREM OverrunIsBounded ==
    ASSUME LimitsOrdered PROVE Spec => []OverrunBounded
<1>1. Init => SlotInv /\ OverrunInv
  BY InitSlots, InitOverrun
<1>2. SlotInv /\ OverrunInv /\ [Next]_vars => (SlotInv /\ OverrunInv)'
  BY NextSlots, NextOverrun
<1>3. SlotInv /\ OverrunInv => OverrunBounded
  BY BudgetBounds
<1> QED
  BY <1>1, <1>2, <1>3, PTL DEF Spec
=============================================================================
