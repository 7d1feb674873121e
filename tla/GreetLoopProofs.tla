---------------------------- MODULE GreetLoopProofs ----------------------------
(***************************************************************************)
(* What the rate limiter's operators return, for every value of the        *)
(* limits, and GreetLoop for any connections, accounts, limits and bounds. *)
(***************************************************************************)
EXTENDS GreetLoop, Guessing, TLAPS

-----------------------------------------------------------------------------
(* The rate limiter.                                                       *)

(* The powers of two a delay is multiplied by are naturals, and so is the  *)
(* largest count (ratelimit.rs:97).                                        *)
LEMMA CounterType == CounterMax \in Nat
<1>1. Width \in 0 .. Width
  BY LimitsAssumption
<1> QED
  BY <1>1, PowersAreNaturals DEF CounterMax

LEMMA DoublingsType ==
    ASSUME NEW k \in Nat
    PROVE  Doublings(k) \in Nat
<1>1. CASE k < Width
  <2>1. k \in 0 .. Width
    BY <1>1, LimitsAssumption
  <2> QED
    BY <1>1, <2>1, PowersAreNaturals DEF Doublings
<1>2. CASE ~(k < Width)
  BY <1>2, CounterType DEF Doublings
<1> QED
  BY <1>1, <1>2

(* No run of failures calls for more than max_delay (ratelimit.rs:103).    *)
LEMMA RequiredBounded ==
    ASSUME NEW failures \in Nat
    PROVE  Required(failures) \in 0 .. MaxDelay
<1> DEFINE penalized == Monus(failures, FreeAttempts)
<1>1. penalized \in Nat
  BY LimitsAssumption DEF Monus
<1>2. CASE penalized = 0
  BY <1>2, LimitsAssumption DEF Required
<1>3. CASE penalized # 0
  <2>1. Doublings(penalized - 1) \in Nat
    BY <1>1, <1>3, DoublingsType
  <2> DEFINE d == Doublings(penalized - 1)
  <2>2. BaseDelay * d \in Nat
    BY <2>1, LimitsAssumption
  <2>3. Least(BaseDelay * d, MaxDelay) \in 0 .. MaxDelay
    <3> HIDE DEF d
    <3> QED BY <2>2, LimitsAssumption DEF Least
  <2> QED
    BY <2>3, <1>3 DEF Required
<1> QED
  BY <1>2, <1>3

(* The updates of an account's entry yield entries (ratelimit.rs:109-135). *)
LEMMA RecordTypes ==
    ASSUME NEW r \in Record, NEW now \in Nat
    PROVE  /\ NoRecord \in Record
           /\ RecordFailure(r, now) \in Record
           /\ RecordSuccess(r) \in Record
           /\ ForgetOld(r, now) \in Record
<1>1. CounterMax \in Nat
  BY CounterType
<1>2. NoRecord \in Record
  BY <1>1 DEF NoRecord, Record
<1>3. RecordFailure(r, now) \in Record
  <2>1. r.failures \in 0 .. CounterMax
    BY DEF Record
  <2> DEFINE f == IF Monus(now, r.last) >= ForgetAfter THEN 0 ELSE r.failures
  <2>2. f \in 0 .. CounterMax
    BY <1>1, <2>1
  <2>3. Least(f + 1, CounterMax) \in 0 .. CounterMax
    <3> HIDE DEF f
    <3> QED BY <1>1, <2>2 DEF Least
  <2> QED
    BY <2>3 DEF RecordFailure, Record
<1> QED
  BY <1>2, <1>3 DEF RecordSuccess, ForgetOld

(* An account without failures waits for nothing (ratelimit.rs:83).        *)
LEMMA FreshAccountIsOpen ==
    ASSUME NEW now \in Nat
    PROVE  DelayFor(NoRecord, now) = 0
<1>1. Required(0) = 0
  BY LimitsAssumption DEF Required, Monus
<1>2. Monus(0, Monus(now, 0)) = 0
  BY DEF Monus
<1> QED
  BY <1>1, <1>2 DEF DelayFor, NoRecord

(* "A delay, not a wall" (ratelimit.rs:21): whatever the failures, the     *)
(* account is open again max_delay after the last of them.                 *)
THEOREM CeilingIsADelay ==
    ASSUME NEW r \in Record, NEW now \in Nat,
           now >= r.last + MaxDelay
    PROVE  DelayFor(r, now) = 0
<1>1. r.failures \in Nat /\ r.last \in Nat
  BY CounterType DEF Record
<1>2. Required(r.failures) \in 0 .. MaxDelay
  BY <1>1, RequiredBounded
<1>3. Monus(now, r.last) >= MaxDelay /\ Monus(now, r.last) \in Nat
  BY <1>1, LimitsAssumption DEF Monus
<1>4. Monus(Required(r.failures), Monus(now, r.last)) = 0
  <2> DEFINE since == Monus(now, r.last)
             whole == Required(r.failures)
  <2> HIDE DEF since, whole
  <2>1. since \in Nat /\ since >= MaxDelay /\ whole \in 0 .. MaxDelay
    BY <1>2, <1>3 DEF since, whole
  <2>2. Monus(whole, since) = 0
    BY <2>1, LimitsAssumption DEF Monus
  <2> QED BY <2>2 DEF since, whole
<1> QED
  BY <1>4 DEF DelayFor

(* A failure that adds to a run was counted from an attempt made when the  *)
(* whole delay of the run had passed (ratelimit.rs:82-121).                *)
LEMMA DelayPaid ==
    ASSUME NEW r \in Record, NEW now \in Nat,
           DelayFor(r, now) = 0,
           r.failures > 0,
           RecordFailure(r, now).failures > r.failures
    PROVE  Monus(now, r.last) >= Required(r.failures)
<1> DEFINE since == Monus(now, r.last)
           whole == Required(r.failures)
<1>1. r.failures \in Nat /\ r.last \in Nat
  BY CounterType DEF Record
<1>2. since \in Nat
  BY <1>1 DEF Monus
<1>3. whole \in Nat
  BY <1>1, RequiredBounded, LimitsAssumption
<1>4. since < ForgetAfter
  <2>1. SUFFICES ASSUME since >= ForgetAfter PROVE FALSE
    BY <1>2, LimitsAssumption
  <2>2. RecordFailure(r, now).failures = Least(1, CounterMax)
    BY <2>1 DEF RecordFailure
  <2>3. Least(1, CounterMax) <= 1
    BY CounterType DEF Least
  <2>4. Least(1, CounterMax) \in Nat
    BY CounterType DEF Least
  <2> QED
    BY <1>1, <2>2, <2>3, <2>4
<1>5. Monus(whole, since) = 0
  <2>1. ~(since >= ForgetAfter)
    BY <1>2, <1>4, LimitsAssumption
  <2> QED
    BY <2>1 DEF DelayFor
<1> QED
  <2> HIDE DEF since, whole
  <2>1. since >= whole
    BY <1>2, <1>3, <1>5 DEF Monus
  <2> QED BY <2>1 DEF since, whole

(* Sweeping changes no answer, now or later (ratelimit.rs:131).            *)
THEOREM SweepChangesNothing ==
    ASSUME NEW r \in Record, NEW now \in Nat, NEW later \in Nat,
           later >= now
    PROVE  /\ DelayFor(ForgetOld(r, now), later) = DelayFor(r, later)
           /\ RecordFailure(ForgetOld(r, now), later) = RecordFailure(r, later)
<1>1. r.last \in Nat /\ r.failures \in Nat
  BY CounterType DEF Record
<1>2. CASE Monus(now, r.last) < ForgetAfter
  BY <1>2 DEF ForgetOld
<1>3. CASE ~(Monus(now, r.last) < ForgetAfter)
  <2>1. ForgetOld(r, now) = NoRecord
    BY <1>3 DEF ForgetOld
  <2>2. Monus(later, r.last) >= ForgetAfter
    BY <1>1, <1>3, LimitsAssumption DEF Monus
  <2>3. DelayFor(r, later) = 0
    BY <2>2 DEF DelayFor
  <2>4. DelayFor(NoRecord, later) = 0
    BY FreshAccountIsOpen
  <2>5. RecordFailure(r, later) = [failures |-> Least(1, CounterMax), last |-> later]
    BY <2>2 DEF RecordFailure
  <2>6. RecordFailure(NoRecord, later)
           = [failures |-> Least(1, CounterMax), last |-> later]
    BY DEF RecordFailure, NoRecord
  <2> QED
    BY <2>1, <2>3, <2>4, <2>5, <2>6
<1> QED
  BY <1>2, <1>3

-----------------------------------------------------------------------------
(* One account guessed at.                                                 *)

LEMMA GuessingInitTyped == GuessingInit => GuessingTypeOK
<1>1. NoRecord \in Record
  BY CounterType DEF NoRecord, Record
<1> QED
  BY <1>1, GuessingAssumption DEF GuessingInit, GuessingTypeOK

LEMMA GuessingNextTyped ==
    GuessingTypeOK /\ [GuessingNext]_guessing => GuessingTypeOK'
<1> SUFFICES ASSUME GuessingTypeOK, [GuessingNext]_guessing
             PROVE  GuessingTypeOK'
  OBVIOUS
<1>1. /\ time \in Nat /\ time \in 0 .. MaxTime
      /\ record \in Record
      /\ guesses \in Seq(0 .. MaxTime)
  BY GuessingAssumption DEF GuessingTypeOK
<1>2. /\ RecordFailure(record, time) \in Record
      /\ RecordSuccess(record) \in Record
      /\ ForgetOld(record, time) \in Record
  BY <1>1, RecordTypes
<1>3. CASE TimePasses
  BY <1>1, <1>3, GuessingAssumption DEF TimePasses, GuessingTypeOK
<1>4. CASE Guess
  BY <1>1, <1>2, <1>4 DEF Guess, GuessingTypeOK
<1>5. CASE Succeed
  BY <1>1, <1>2, <1>5 DEF Succeed, GuessingTypeOK
<1>6. CASE SweepRecord
  BY <1>1, <1>2, <1>6 DEF SweepRecord, GuessingTypeOK
<1>7. CASE TimeIsUp \/ UNCHANGED guessing
  BY <1>1, <1>7 DEF TimeIsUp, guessing, GuessingTypeOK
<1> QED
  BY <1>3, <1>4, <1>5, <1>6, <1>7 DEF GuessingNext

(* The entry counts within its width, whatever is tried and swept          *)
(* (ratelimit.rs:109-135).                                                 *)
THEOREM GuessingTypes == GuessingSpec => []GuessingTypeOK
  BY GuessingInitTyped, GuessingNextTyped, PTL DEF GuessingSpec

(* However long the guessing, the account can be tried again max_delay     *)
(* after the last failure (ratelimit.rs:17-21).                            *)
THEOREM NeverLockedOut == GuessingSpec => []NoLockout
<1>1. GuessingTypeOK => NoLockout
  <2> SUFFICES ASSUME GuessingTypeOK, time >= record.last + MaxDelay
               PROVE  DelayFor(record, time) = 0
    BY DEF NoLockout
  <2>1. record \in Record /\ time \in Nat
    BY GuessingAssumption DEF GuessingTypeOK
  <2> QED
    BY <2>1, CeilingIsADelay
<1> QED
  BY <1>1, GuessingTypes, PTL

(* Limits that slow anything, as the daemon's own do: three attempts, then *)
(* a second, up to thirty, on a counter of 32 bits (ratelimit.rs:46-55).   *)
(* login.toml may set a delay to nothing, and then there is no throttle    *)
(* (config.rs:174).                                                        *)
LimitsBite ==
    /\ BaseDelay > 0
    /\ MaxDelay > 0
    /\ FreeAttempts < CounterMax

(* The least delay there is.                                               *)
Step == Least(BaseDelay, MaxDelay)

LEMMA StepPositive ==
    ASSUME LimitsBite
    PROVE  Step \in Nat \ {0}
  BY LimitsAssumption DEF LimitsBite, Step, Least

(* Every failure past the free ones calls for it at least                  *)
(* (ratelimit.rs:90-103).                                                  *)
LEMMA RequiredAtLeastStep ==
    ASSUME LimitsBite, NEW failures \in Nat, failures > FreeAttempts
    PROVE  Required(failures) >= Step
<1> DEFINE penalized == Monus(failures, FreeAttempts)
           d == Doublings(penalized - 1)
<1>1. penalized \in Nat \ {0}
  BY LimitsAssumption DEF Monus
<1>2. d \in Nat \ {0}
  <2>1. penalized - 1 \in Nat
    BY <1>1
  <2> DEFINE k == penalized - 1
  <2>2. CASE k < Width
    <3>1. k \in 0 .. Width
      BY <2>1, <2>2, LimitsAssumption
    <3> QED
      BY <2>2, <3>1, PowersAreNaturals DEF Doublings
  <2>3. CASE ~(k < Width)
    BY <2>3, CounterType, LimitsAssumption DEF Doublings, LimitsBite
  <2> QED
    BY <2>2, <2>3
<1>3. BaseDelay * d >= BaseDelay /\ BaseDelay * d \in Nat
  <2> HIDE DEF d
  <2>1. PICK e \in Nat : d = e + 1
    <3>1. d - 1 \in Nat /\ d = (d - 1) + 1
      BY <1>2
    <3> QED
      BY <3>1
  <2>2. BaseDelay * d = BaseDelay * e + BaseDelay
    BY <2>1, LimitsAssumption
  <2>3. BaseDelay * e \in Nat
    BY <2>1, LimitsAssumption
  <2> QED
    BY <2>2, <2>3, LimitsAssumption
<1>4. Required(failures) = Least(BaseDelay * d, MaxDelay)
  BY <1>1 DEF Required
<1> QED
  <2> DEFINE whole == BaseDelay * d
  <2>1. whole \in Nat /\ whole >= BaseDelay /\ Required(failures) = Least(whole, MaxDelay)
    BY <1>3, <1>4
  <2> HIDE DEF whole
  <2> QED
    BY <2>1, LimitsAssumption DEF Step, Least

(* What the entry remembers of the guessing: the last guess, and no fewer  *)
(* failures than the guesses less than forget_after before it; or nothing, *)
(* when all of them are older.                                             *)
Remembered ==
    /\ record.last = guesses[Len(guesses)]
    /\ \A i \in 1 .. Len(guesses) :
          guesses[Len(guesses)] - guesses[i] < ForgetAfter
          => record.failures >= Least(Len(guesses) - i + 1, CounterMax)

Forgotten ==
    /\ record = NoRecord
    /\ time - guesses[Len(guesses)] >= ForgetAfter

(* Guesses are in order, and within forget_after each past the free ones   *)
(* comes a step after the one before it.                                   *)
InOrder ==
    /\ \A i, j \in 1 .. Len(guesses) : i <= j => guesses[i] <= guesses[j]
    /\ \A i \in 1 .. Len(guesses) : guesses[i] <= time

StepsPaid ==
    \A i, j \in 1 .. Len(guesses) :
        i <= j /\ guesses[j] - guesses[i] < ForgetAfter
        => (j - i - FreeAttempts) * Step <= guesses[j] - guesses[i]

Slowed ==
    /\ GuessingTypeOK
    /\ InOrder
    /\ Len(guesses) > 0 => Remembered \/ Forgotten
    /\ StepsPaid

LEMMA Elements ==
    ASSUME NEW S, NEW s \in Seq(S), NEW i \in 1 .. Len(s)
    PROVE  s[i] \in S
  OBVIOUS

LEMMA InitSlowed == GuessingInit => Slowed
<1> SUFFICES ASSUME GuessingInit PROVE Slowed
  OBVIOUS
<1>1. guesses = <<>> /\ Len(guesses) = 0
  BY DEF GuessingInit
<1>2. GuessingTypeOK
  BY GuessingInitTyped
<1> QED
  BY <1>1, <1>2 DEF Slowed, InOrder, StepsPaid

(* A guess, with its whole delay behind it.                                *)
LEMMA GuessSlowed ==
    ASSUME LimitsBite, Slowed, Guess
    PROVE  Slowed'
<1> DEFINE n == Len(guesses)
<1>a. /\ time \in Nat /\ record \in Record /\ guesses \in Seq(0 .. MaxTime)
      /\ InOrder /\ StepsPaid
      /\ n > 0 => Remembered \/ Forgotten
  BY GuessingAssumption DEF Slowed, GuessingTypeOK
<1>b. n \in Nat /\ \A i \in 1 .. n : guesses[i] \in Nat
  <2>1. \A i \in 1 .. n : guesses[i] \in 0 .. MaxTime
    BY <1>a, Elements
  <2> QED
    BY <1>a, <2>1, GuessingAssumption
<1>c. /\ record.failures \in Nat /\ record.failures <= CounterMax
      /\ record.last \in Nat /\ CounterMax \in Nat
  BY <1>a, CounterType DEF Record
<1>1. /\ DelayFor(record, time) = 0
      /\ record' = RecordFailure(record, time)
      /\ guesses' = Append(guesses, time)
      /\ time' = time
  BY DEF Guess
<1>2. /\ Len(guesses') = n + 1
      /\ guesses'[n + 1] = time
      /\ \A i \in 1 .. n : guesses'[i] = guesses[i]
  BY <1>1, <1>a, <1>b
<1>3. GuessingTypeOK'
  BY GuessingNextTyped DEF GuessingNext, Slowed
<1>4. InOrder'
  <2>1. /\ \A i \in 1 .. n : guesses[i] <= time
        /\ \A i, j \in 1 .. n : i <= j => guesses[i] <= guesses[j]
    BY <1>a DEF InOrder
  <2>2. \A i \in 1 .. (n + 1) : i \in 1 .. n \/ i = n + 1
    BY <1>b
  <2>3. \A i \in 1 .. (n + 1) : guesses'[i] <= time'
    BY <1>1, <1>2, <1>a, <2>1, <2>2
  <2>4. ASSUME NEW i \in 1 .. (n + 1), NEW j \in 1 .. (n + 1), i <= j
        PROVE  guesses'[i] <= guesses'[j]
    <3>1. CASE j = n + 1
      BY <1>1, <1>2, <2>3, <3>1
    <3>2. CASE j # n + 1
      BY <1>2, <1>b, <2>1, <2>4, <3>2
    <3> QED
      BY <3>1, <3>2
  <2> QED
    BY <1>2, <2>3, <2>4 DEF InOrder
(* An old guess that still matters is one the entry remembers.             *)
<1>5. ASSUME NEW i \in 1 .. n, time - guesses[i] < ForgetAfter
      PROVE  /\ record.last = guesses[n]
             /\ record.failures >= Least(n - i + 1, CounterMax)
             /\ Monus(time, record.last) = time - guesses[n]
             /\ time - guesses[n] < ForgetAfter
  <2>1. /\ n \in 1 .. n /\ guesses[n] \in Nat /\ guesses[i] \in Nat
        /\ guesses[i] <= guesses[n] /\ guesses[n] <= time
    BY <1>a, <1>b DEF InOrder
  <2>2. guesses[n] - guesses[i] < ForgetAfter /\ time - guesses[n] < ForgetAfter
    BY <1>5, <1>a, <2>1, LimitsAssumption
  <2>3. Remembered
    <3>1. ~Forgotten
      BY <1>a, <2>1, <2>2, LimitsAssumption DEF Forgotten
    <3> QED
      BY <1>a, <1>b, <3>1
  <2>4. Monus(time, guesses[n]) = time - guesses[n]
    BY <1>a, <2>1 DEF Monus
  <2> QED
    BY <2>2, <2>3, <2>4 DEF Remembered
<1>6. Remembered'
  <2>1. record'.last = time
    BY <1>1 DEF RecordFailure
  <2>2. record'.failures \in Nat
    BY <1>3, CounterType DEF GuessingTypeOK, Record
  <2>3. ASSUME NEW i \in 1 .. (n + 1), time - guesses'[i] < ForgetAfter
        PROVE  record'.failures >= Least(n + 1 - i + 1, CounterMax)
    <3>1. CASE i = n + 1
      <4>1. record'.failures \in {Least(1, CounterMax), Least(record.failures + 1, CounterMax)}
        BY <1>1 DEF RecordFailure
      <4>2. n + 1 - i + 1 = 1
        BY <3>1, <1>b
      <4> QED
        BY <1>c, <4>1, <4>2 DEF Least
    <3>2. CASE i # n + 1
      <4>1. i \in 1 .. n /\ guesses'[i] = guesses[i]
        BY <1>2, <1>b, <3>2
      <4>2. /\ record.failures >= Least(n - i + 1, CounterMax)
            /\ Monus(time, record.last) < ForgetAfter
        BY <1>5, <2>3, <4>1
      <4>3. Monus(time, record.last) \in Nat
        BY <1>a, <1>c DEF Monus
      <4>4. record'.failures = Least(record.failures + 1, CounterMax)
        BY <1>1, <4>2, <4>3, LimitsAssumption DEF RecordFailure
      <4> QED
        BY <1>b, <1>c, <4>1, <4>2, <4>4 DEF Least
    <3> QED
      BY <3>1, <3>2
  <2> QED
    BY <1>2, <2>1, <2>3 DEF Remembered
<1>7. StepsPaid'
  <2> SUFFICES ASSUME NEW i \in 1 .. (n + 1), NEW j \in 1 .. (n + 1), i <= j,
                      guesses'[j] - guesses'[i] < ForgetAfter
               PROVE  (j - i - FreeAttempts) * Step <= guesses'[j] - guesses'[i]
    BY <1>2 DEF StepsPaid
  <2>0. Step \in Nat \ {0}
    BY StepPositive
  <2>1. CASE j # n + 1
    <3>1. i \in 1 .. n /\ j \in 1 .. n
      BY <1>b, <2>1
    <3>2. guesses'[i] = guesses[i] /\ guesses'[j] = guesses[j]
      BY <1>2, <3>1
    <3>3. guesses[j] - guesses[i] < ForgetAfter
      BY <3>2
    <3> QED
      BY <1>a, <3>1, <3>2, <3>3 DEF StepsPaid
  <2>2. CASE j = n + 1 /\ j - i <= FreeAttempts
    <3>1. (j - i - FreeAttempts) * Step <= 0
      <4>1. PICK m \in Nat : j - i - FreeAttempts = 0 - m
        <5>1. FreeAttempts - (j - i) \in Nat
          BY <1>b, <2>2, LimitsAssumption
        <5>2. j - i - FreeAttempts = 0 - (FreeAttempts - (j - i))
          BY <1>b, LimitsAssumption
        <5> QED
          BY <5>1, <5>2
      <4>2. (0 - m) * Step = 0 - m * Step /\ m * Step \in Nat
        BY <2>0
      <4> QED
        BY <4>1, <4>2
    <3>2. (j - i - FreeAttempts) * Step \in Int
      BY <1>b, <2>0, LimitsAssumption
    <3>3. guesses'[i] \in Nat /\ guesses'[j] \in Nat /\ guesses'[i] <= guesses'[j]
      <4>1. guesses'[i] <= guesses'[j]
        BY <1>2, <1>4 DEF InOrder
      <4>2. \A k \in 1 .. (n + 1) : guesses'[k] \in Nat
        BY <1>a, <1>b, <1>2
      <4> QED
        BY <4>1, <4>2
    <3> QED
      BY <3>1, <3>2, <3>3
  <2>3. CASE j = n + 1 /\ ~(j - i <= FreeAttempts)
    <3>1. i \in 1 .. n /\ n \in 1 .. n
      BY <1>b, <2>3, LimitsAssumption
    <3>2. guesses'[i] = guesses[i] /\ guesses'[j] = time
      BY <1>2, <2>3, <3>1
    <3>3. /\ guesses[i] \in Nat /\ guesses[n] \in Nat
          /\ guesses[i] <= guesses[n] /\ guesses[n] <= time
      BY <1>a, <1>b, <3>1 DEF InOrder
    <3>4. /\ record.last = guesses[n]
          /\ record.failures >= Least(n - i + 1, CounterMax)
          /\ Monus(time, record.last) = time - guesses[n]
          /\ time - guesses[n] < ForgetAfter
      BY <1>5, <3>1, <3>2
    <3>5. record.failures > FreeAttempts
      <4>1. n - i + 1 > FreeAttempts /\ n - i + 1 \in Nat
        BY <1>b, <2>3, <3>1, LimitsAssumption
      <4> QED
        BY <1>c, <3>4, <4>1, LimitsAssumption DEF Least, LimitsBite
    <3>6. Required(record.failures) >= Step /\ Required(record.failures) \in Nat
      <4>1. Required(record.failures) >= Step
        BY <1>c, <3>5, RequiredAtLeastStep
      <4>2. Required(record.failures) \in 0 .. MaxDelay
        BY <1>c, RequiredBounded
      <4> QED
        BY <4>1, <4>2, LimitsAssumption
    <3>7. time - guesses[n] >= Step
      <4>1. Monus(Required(record.failures), time - guesses[n]) = 0
        BY <1>1, <1>a, <3>3, <3>4, LimitsAssumption DEF DelayFor
      <4>2. \A p, q, m \in Nat : Monus(p, q) = 0 /\ p >= m => q >= m
        BY DEF Monus
      <4>3. time - guesses[n] \in Nat
        BY <1>a, <3>3
      <4> QED
        BY <2>0, <3>6, <4>1, <4>2, <4>3
    <3>8. (n - i - FreeAttempts) * Step <= guesses[n] - guesses[i]
      <4>1. guesses[n] - guesses[i] < ForgetAfter
        BY <1>a, <3>2, <3>3, LimitsAssumption
      <4>2. i <= n
        BY <1>b, <3>1
      <4> QED
        BY <1>a, <3>1, <4>1, <4>2 DEF StepsPaid
    <3>9. (j - i - FreeAttempts) * Step = (n - i - FreeAttempts) * Step + Step
      <4> DEFINE m == n - i - FreeAttempts
      <4>1. m \in Int /\ j - i - FreeAttempts = m + 1
        BY <1>b, <2>3, LimitsAssumption
      <4> HIDE DEF m
      <4>2. (m + 1) * Step = m * Step + Step
        BY <2>0, <4>1
      <4>3. (j - i - FreeAttempts) * Step = m * Step + Step
        BY <4>1, <4>2
      <4> QED
        BY <4>3 DEF m
    <3>10. (n - i - FreeAttempts) * Step \in Int
      BY <1>b, <2>0, LimitsAssumption
    <3> QED
      BY <1>a, <2>0, <3>2, <3>3, <3>7, <3>8, <3>9, <3>10
  <2> QED
    BY <2>1, <2>2, <2>3
<1> QED
  BY <1>3, <1>4, <1>6, <1>7 DEF Slowed

LEMMA NextSlowed ==
    LimitsBite /\ Slowed /\ [GuessingNext]_guessing => Slowed'
<1> SUFFICES ASSUME LimitsBite, Slowed, [GuessingNext]_guessing PROVE Slowed'
  OBVIOUS
<1>a. /\ time \in Nat /\ record \in Record /\ guesses \in Seq(0 .. MaxTime)
      /\ Len(guesses) \in Nat
      /\ \A i \in 1 .. Len(guesses) : guesses[i] \in Nat
  <2>1. guesses \in Seq(0 .. MaxTime)
    BY DEF Slowed, GuessingTypeOK
  <2>2. \A i \in 1 .. Len(guesses) : guesses[i] \in 0 .. MaxTime
    BY <2>1, Elements
  <2> QED
    BY <2>1, <2>2, GuessingAssumption DEF Slowed, GuessingTypeOK
<1>b. record.last \in Nat
  BY <1>a DEF Record
<1>1. GuessingTypeOK'
  BY GuessingNextTyped DEF Slowed
<1>2. CASE TimePasses
  <2>1. time' = time + 1 /\ UNCHANGED <<record, guesses>>
    BY <1>2 DEF TimePasses
  <2>2. InOrder'
    BY <1>a, <2>1 DEF Slowed, InOrder
  <2>3. Len(guesses) > 0 => Remembered' \/ Forgotten'
    BY <1>a, <2>1, LimitsAssumption DEF Slowed, Remembered, Forgotten
  <2>4. StepsPaid'
    BY <2>1 DEF Slowed, StepsPaid
  <2> QED
    BY <1>1, <2>1, <2>2, <2>3, <2>4 DEF Slowed
<1>3. CASE Guess
  BY <1>3, GuessSlowed
<1>4. CASE Succeed
  <2>1. guesses' = <<>> /\ Len(guesses') = 0
    BY <1>4 DEF Succeed
  <2> QED
    BY <1>1, <2>1 DEF Slowed, InOrder, StepsPaid
<1>5. CASE SweepRecord
  <2>1. record' = ForgetOld(record, time) /\ UNCHANGED <<time, guesses>>
    BY <1>5 DEF SweepRecord
  <2>2. InOrder' /\ StepsPaid'
    BY <2>1 DEF Slowed, InOrder, StepsPaid
  <2>3. ASSUME Len(guesses) > 0 PROVE Remembered' \/ Forgotten'
    <3>1. CASE record' = record
      BY <2>1, <2>3, <3>1 DEF Slowed, Remembered, Forgotten
    <3>2. CASE record' # record
      <4>1. record' = NoRecord /\ ~(Monus(time, record.last) < ForgetAfter)
        BY <2>1, <3>2 DEF ForgetOld
      <4>2. Remembered
        BY <2>3, <3>2, <4>1 DEF Slowed, Forgotten
      <4>3. /\ Len(guesses) \in 1 .. Len(guesses)
            /\ record.last = guesses[Len(guesses)] /\ record.last <= time
        BY <1>a, <2>3, <4>2 DEF Slowed, Remembered, InOrder
      <4>4. time - guesses[Len(guesses)] >= ForgetAfter
        BY <1>a, <1>b, <4>1, <4>3, LimitsAssumption DEF Monus
      <4> QED
        BY <2>1, <4>1, <4>4 DEF Forgotten
    <3> QED
      BY <3>1, <3>2
  <2> QED
    BY <1>1, <2>1, <2>2, <2>3 DEF Slowed
<1>6. CASE TimeIsUp \/ UNCHANGED guessing
  BY <1>1, <1>6
     DEF TimeIsUp, guessing, Slowed, InOrder, Remembered, Forgotten, StepsPaid
<1> QED
  BY <1>2, <1>3, <1>4, <1>5, <1>6 DEF GuessingNext

(* What a multiple says of the quotient.                                   *)
LEMMA QuotientBound ==
    ASSUME NEW b \in Nat \ {0}, NEW d \in Nat, NEW k \in Int, k * b <= d
    PROVE  k <= d \div b
<1> DEFINE q == d \div b
<1>1. q \in Nat /\ d < b * q + b
  <2>1. q \in Int /\ d = b * q + (d % b) /\ d % b \in 0 .. (b - 1)
    OBVIOUS
  <2>2. q >= 0
    OBVIOUS
  <2> QED
    BY <2>1, <2>2
<1> HIDE DEF q
<1>2. SUFFICES ASSUME k >= q + 1 PROVE FALSE
  BY <1>1 DEF q
<1>3. PICK e \in Nat : k = q + 1 + e
  <2>1. k - (q + 1) \in Nat /\ k = q + 1 + (k - (q + 1))
    BY <1>1, <1>2
  <2> QED
    BY <2>1
<1>4. k * b = b * q + b + e * b /\ e * b \in Nat /\ b * q \in Nat
  BY <1>1, <1>3
<1> QED
  BY <1>1, <1>4

(* In any stretch of time shorter than forget_after, no more passwords are *)
(* checked than the free ones, one more, and one for each least delay that *)
(* passes: neither waiting nor being swept in between, nor a counter that  *)
(* saturates, buys another (ratelimit.rs:37-41, 82-135).                   *)
THEOREM GuessingIsSlow ==
    ASSUME LimitsBite
    PROVE  GuessingSpec => []GuessRateBounded
<1>1. GuessingSpec => []Slowed
  <2>1. Slowed /\ [GuessingNext]_guessing => Slowed'
    BY NextSlowed
  <2> QED
    BY <2>1, InitSlowed, PTL DEF GuessingSpec
<1>2. Slowed => GuessRateBounded
  <2> SUFFICES ASSUME Slowed,
                      NEW i \in 1 .. Len(guesses), NEW j \in 1 .. Len(guesses),
                      i <= j, guesses[j] - guesses[i] < ForgetAfter
               PROVE  j - i + 1 <= FreeAttempts + 1
                                   + (guesses[j] - guesses[i]) \div Step
    BY DEF GuessRateBounded, Step
  <2> DEFINE d == guesses[j] - guesses[i]
  <2>1. d \in Nat
    <3>1. guesses \in Seq(0 .. MaxTime)
      BY DEF Slowed, GuessingTypeOK
    <3>2. guesses[i] \in 0 .. MaxTime /\ guesses[j] \in 0 .. MaxTime
      BY <3>1, Elements
    <3> QED
      BY <3>2, GuessingAssumption DEF Slowed, InOrder
  <2>2. (j - i - FreeAttempts) * Step <= d
    BY DEF Slowed, StepsPaid
  <2>3. Step \in Nat \ {0}
    BY StepPositive
  <2>4. i \in Int /\ j \in Int /\ j - i - FreeAttempts \in Int
    BY LimitsAssumption
  <2>5. j - i - FreeAttempts <= d \div Step
    <3> HIDE DEF d
    <3> QED
      BY <2>1, <2>2, <2>3, <2>4, QuotientBound
  <2>6. d \div Step \in Int
    BY <2>1, <2>3
  <2> QED
    BY <2>4, <2>5, <2>6, LimitsAssumption
<1> QED
  BY <1>1, <1>2, PTL

-----------------------------------------------------------------------------
(* Types.                                                                  *)

(* A thread past reading a request knows the account it is for. *)
Working == {"queued", "checking", "granting", "watching", "admitted", "sending"}

JobsHaveAccounts ==
    \A c \in Conns : pc[c] \in Working => job[c].account \in Accounts

Jobs == [account : Accounts \cup {Nobody}, now : 0 .. MaxClock]

Typed == TypeOK /\ JobsHaveAccounts

LEMMA InitTyped == Init => Typed
<1> SUFFICES ASSUME Init PROVE Typed
  OBVIOUS
<1>1. NoRecord \in Record
  BY CounterType DEF NoRecord, Record
<1>2. TypeOK
  BY <1>1, GreetAssumption
     DEF Init, TypeOK, Everything, Undecided, NoRequest, NoJob, Serving, Failure
<1>3. JobsHaveAccounts
  BY DEF Init, JobsHaveAccounts, Working
<1> QED
  BY <1>2, <1>3 DEF Typed

(* A thread's step that takes it from one place to another, with its job   *)
(* or without it, and leaves the greeting's own state alone.               *)
LEMMA MoveTyped ==
    ASSUME Typed, NEW c \in Conns,
           NEW where \in Serving \cup {"idle", "backlog", "ended"},
           Goto(c, where),
           \/ UNCHANGED job /\ (where \in Working => job[c].account \in Accounts)
           \/ job' = [job EXCEPT ![c] = NoJob] /\ where \notin Working,
           inbox' = inbox \/ inbox' = [inbox EXCEPT ![c] = NoRequest],
           sup' = sup \/ sup' = "receive",
           UNCHANGED <<clock, greeting, children, outcome, hung, channel>>,
           holder' \in Conns \cup {Nobody},
           winner' \in Conns \cup {Nobody},
           records' \in [Accounts -> Record]
    PROVE  Typed'
<1> USE GreetAssumption
<1>1. pc' = [pc EXCEPT ![c] = where]
  BY DEF Goto
<1>2. pc \in [Conns -> Serving \cup {"idle", "backlog", "ended"}]
  BY DEF Typed, TypeOK
<1>3. pc' \in [Conns -> Serving \cup {"idle", "backlog", "ended"}]
  BY <1>1, <1>2
<1>4. NoJob \in Jobs
  BY DEF NoJob, Jobs
<1>5. job \in [Conns -> Jobs]
  BY DEF Typed, TypeOK, Jobs
<1>6. job' \in [Conns -> Jobs]
  BY <1>4, <1>5
<1>7. inbox' \in [Conns -> Requests \cup {NoRequest}]
  BY DEF Typed, TypeOK
<1>8. /\ clock' \in 0 .. MaxClock
      /\ greeting' \in 1 .. MaxGreetings
      /\ sup' \in {"accept", "receive", "supervise", "sweep", "shut", "join", "over"}
      /\ children' \subseteq Everything
      /\ outcome' \in Logins \cup {Undecided, Failure}
      /\ hung' \in [Conns -> BOOLEAN]
      /\ channel' \in Seq(Logins)
  BY DEF Typed, TypeOK
<1>9. TypeOK'
  BY <1>3, <1>6, <1>7, <1>8 DEF TypeOK, Jobs
<1>10. ASSUME NEW d \in Conns, pc'[d] \in Working
       PROVE  job'[d].account \in Accounts
  <2>1. CASE d = c
    BY <1>1, <1>2, <1>10, <2>1
  <2>2. CASE d # c
    <3>1. pc'[d] = pc[d] /\ job'[d] = job[d]
      BY <1>1, <1>2, <1>5, <2>2
    <3> QED
      BY <1>10, <3>1 DEF Typed, JobsHaveAccounts
  <2> QED
    BY <2>1, <2>2
<1> QED
  BY <1>9, <1>10 DEF Typed, JobsHaveAccounts

LEMMA MovesTyped ==
    ASSUME Typed, NEW c \in Conns,
           \/ ReadClosed(c) \/ ReadQuery(c) \/ Throttle(c) \/ CheckFails(c)
           \/ Reply(c) \/ ReplyGranted(c) \/ WatchEnds(c) \/ WatchMatches(c)
           \/ Accept(c)
    PROVE  Typed'
<1>a. /\ holder \in Conns \cup {Nobody}
      /\ winner \in Conns \cup {Nobody}
      /\ records \in [Accounts -> Record]
  BY DEF Typed, TypeOK
<1>b. pc[c] \in Working => job[c].account \in Accounts
  BY DEF Typed, JobsHaveAccounts
<1>c. {"reading", "checking", "replying", "sending", "admitted", "ended"}
          \subseteq Serving \cup {"idle", "backlog", "ended"}
  BY DEF Serving
<1> USE DEF supVars
<1>1. CASE ReadClosed(c)
  BY <1>1, <1>a, <1>c, MoveTyped DEF ReadClosed, Working
<1>2. CASE ReadQuery(c)
  BY <1>2, <1>a, <1>c, MoveTyped DEF ReadQuery, Working
<1>3. CASE Throttle(c)
  <2>1. job[c].account \in Accounts /\ holder' = c
    BY <1>3, <1>b DEF Throttle, Working
  <2>2. PICK where \in {"checking", "replying"} : Goto(c, where)
    BY <1>3 DEF Throttle
  <2> QED
    BY <1>3, <1>a, <1>c, <2>1, <2>2, MoveTyped DEF Throttle
<1>4. CASE CheckFails(c)
  BY <1>4, <1>a, <1>c, MoveTyped DEF CheckFails, Working
<1>5. CASE Reply(c)
  <2>1. PICK where \in {"reading", "ended"} : Finish(c, where)
    BY <1>5 DEF Reply
  <2> QED
    BY <1>5, <1>a, <1>c, <2>1, MoveTyped DEF Reply, Finish, Working
<1>6. CASE ReplyGranted(c)
  <2>1. CASE hung[c]
    BY <1>6, <1>a, <1>c, <2>1, MoveTyped DEF ReplyGranted, Finish, Working
  <2>2. CASE ~hung[c]
    BY <1>6, <1>a, <1>b, <1>c, <2>2, MoveTyped DEF ReplyGranted, Working
  <2> QED
    BY <2>1, <2>2
<1>7. CASE WatchEnds(c)
  BY <1>7, <1>a, <1>c, MoveTyped DEF WatchEnds, Finish, Working
<1>8. CASE WatchMatches(c)
  <2>1. CASE granted
    BY <1>8, <1>a, <1>c, <2>1, MoveTyped DEF WatchMatches, Finish, Working
  <2>2. CASE ~granted
    BY <1>8, <1>a, <1>b, <1>c, <2>2, MoveTyped DEF WatchMatches, Working
  <2> QED
    BY <2>1, <2>2
<1>9. CASE Accept(c)
  <2>1. PICK where \in {"reading", "ended"} : Goto(c, where)
    BY <1>9 DEF Accept
  <2> QED
    BY <1>9, <1>a, <1>c, <2>1, MoveTyped DEF Accept, Working
<1> QED
  BY <1>1, <1>2, <1>3, <1>4, <1>5, <1>6, <1>7, <1>8, <1>9

LEMMA NextTyped == Typed /\ [Next]_vars => Typed'
<1> SUFFICES ASSUME Typed, [Next]_vars PROVE Typed'
  OBVIOUS
<1>m. ASSUME NEW c \in Conns,
             \/ ReadClosed(c) \/ ReadQuery(c) \/ Throttle(c) \/ CheckFails(c)
             \/ Reply(c) \/ ReplyGranted(c) \/ WatchEnds(c) \/ WatchMatches(c)
             \/ Accept(c)
      PROVE  Typed'
  BY <1>m, MovesTyped
<1> USE GreetAssumption DEF Typed, TypeOK, JobsHaveAccounts, Working,
        connVars, supVars, Goto, Finish
<1>0. NoJob \in Jobs
  BY DEF NoJob, Jobs
<1>a. clock \in Nat /\ \A c \in Conns : job[c].now \in Nat
  OBVIOUS
<1>1. CASE Tick
  BY <1>1 DEF Tick
<1>2. ASSUME NEW c \in Conns, Connect(c) PROVE Typed'
  BY <1>2 DEF Connect
<1>3. ASSUME NEW c \in Conns, NEW request \in Requests, Send(c, request)
      PROVE  Typed'
  BY <1>3 DEF Send
<1>4. ASSUME NEW c \in Conns, HangUp(c) PROVE Typed'
  BY <1>4 DEF HangUp
<1>5. CASE CompositorExits
  BY <1>5 DEF CompositorExits
<1>6. CASE UiExits
  BY <1>6 DEF UiExits, Open
<1>7. ASSUME NEW c \in Conns, Read(c) PROVE Typed'
  <2>1. CASE ReadClosed(c)
    BY <1>m, <2>1
  <2>2. CASE ReadQuery(c)
    BY <1>m, <2>2
  <2>3. CASE ReadAuthenticate(c)
    <3>1. inbox[c] \in Requests
      BY <2>3 DEF ReadAuthenticate, NoRequest
    <3> QED
      BY <2>3, <3>1 DEF ReadAuthenticate, Serving, Requests
  <2>4. CASE ReadWatch(c)
    <3>1. inbox[c] \in Requests
      BY <2>4 DEF ReadWatch, NoRequest
    <3>2. CASE pc' = [pc EXCEPT ![c] = "watching"]
               /\ job' = [job EXCEPT ![c].account = inbox[c].account]
      <4>1. inbox[c].account \in Accounts
        BY <3>1 DEF Requests
      <4>2. job' \in [Conns -> Jobs] /\ job'[c].account \in Accounts
        BY <3>2, <4>1 DEF Jobs
      <4> QED
        BY <2>4, <3>2, <4>2 DEF ReadWatch, Serving, Jobs
    <3>3. CASE Finish(c, "ended")
      BY <2>4, <3>3, <1>0 DEF ReadWatch, Jobs
    <3> QED
      BY <2>4, <3>2, <3>3 DEF ReadWatch
  <2> QED
    BY <1>7, <2>1, <2>2, <2>3, <2>4 DEF Read
<1>8. ASSUME NEW c \in Conns, Throttle(c) PROVE Typed'
  BY <1>m, <1>8
<1>9. ASSUME NEW c \in Conns, Check(c) PROVE Typed'
  <2>1. \A a \in Accounts :
           /\ RecordSuccess(records[a]) \in Record
           /\ RecordFailure(records[a], job[c].now) \in Record
    BY <1>a, RecordTypes
  <2>2. CASE CheckGranted(c)
    <3>1. CASE granted
      BY <2>2, <3>1 DEF CheckGranted, granted, Serving
    <3>2. CASE ~granted
      <4>a. /\ job[c].account \in Accounts
            /\ pc' = [pc EXCEPT ![c] = "granting"]
            /\ records' = [records EXCEPT ![job[c].account] =
                                RecordSuccess(records[job[c].account])]
        BY <2>2, <3>2 DEF CheckGranted
      <4>1. records' \in [Accounts -> Record]
        BY <2>1, <4>a
      <4>2. pc' \in [Conns -> Serving \cup {"idle", "backlog", "ended"}]
        BY <4>a DEF Serving
      <4> QED
        BY <2>2, <3>2, <4>1, <4>2 DEF CheckGranted, granted
    <3> QED
      BY <3>1, <3>2
  <2>3. CASE CheckDenied(c)
    BY <2>1, <2>3 DEF CheckDenied, Serving
  <2>4. CASE CheckFails(c)
    BY <1>m, <2>4
  <2> QED
    BY <1>9, <2>2, <2>3, <2>4 DEF Check
<1>10. ASSUME NEW c \in Conns, Answer(c) PROVE Typed'
  BY <1>m, <1>10 DEF Answer
<1>11. ASSUME NEW c \in Conns, WatchEnds(c) PROVE Typed'
  BY <1>m, <1>11
<1>12. ASSUME NEW c \in Conns, WatchMatches(c) PROVE Typed'
  BY <1>m, <1>12
<1>13. ASSUME NEW c \in Conns, RecordWatch(c) PROVE Typed'
  <2>1. \A a \in Accounts : RecordSuccess(records[a]) \in Record
    BY RecordTypes
  <2> QED
    BY <1>13, <2>1 DEF RecordWatch, Serving
<1>14. ASSUME NEW c \in Conns, SendLogin(c) PROVE Typed'
  <2>1. [by |-> c, account |-> job[c].account] \in Logins
    BY <1>14 DEF SendLogin, Logins
  <2>2. channel' \in Seq(Logins)
    BY <1>14, <2>1 DEF SendLogin
  <2> QED
    BY <1>0, <1>14, <2>2 DEF SendLogin, Jobs
<1>15. ASSUME NEW c \in Conns, Accept(c) PROVE Typed'
  BY <1>m, <1>15
<1>16. CASE AcceptNone
  BY <1>16 DEF AcceptNone
<1>17. CASE AcceptFails
  BY <1>17 DEF AcceptFails
<1>18. CASE Receive
  <2>1. CASE channel # <<>>
    <3>1. Head(channel) \in Logins /\ Tail(channel) \in Seq(Logins)
      BY <2>1
    <3> QED
      BY <1>18, <2>1, <3>1 DEF Receive
  <2>2. CASE channel = <<>>
    BY <1>18, <2>2 DEF Receive
  <2> QED
    BY <2>1, <2>2
<1>19. CASE Supervise
  BY <1>19 DEF Supervise
<1>20. CASE Sweep
  <2>1. \A a \in Accounts : ForgetOld(records[a], clock) \in Record
    BY <1>a, RecordTypes
  <2> QED
    BY <1>20, <2>1 DEF Sweep
<1>21. CASE Shut
  BY <1>21 DEF Shut
<1>22. CASE Join
  BY <1>22 DEF Join, Open
<1>23. CASE Greet
  <2>1. job' \in [Conns -> Jobs]
    BY <1>0, <1>23 DEF Greet
  <2> QED
    BY <1>23, <2>1 DEF Greet, Everything, Jobs, Serving
<1>24. CASE Done \/ UNCHANGED vars
  BY <1>24 DEF Done, vars
<1> QED
  BY <1>1, <1>2, <1>3, <1>4, <1>5, <1>6, <1>7, <1>8, <1>9, <1>10, <1>11, <1>12,
     <1>13, <1>14, <1>15, <1>16, <1>17, <1>18, <1>19, <1>20, <1>21, <1>22,
     <1>23, <1>24
     DEF Next, Greeter, Serve, AcceptLoop

(* The greeting's state keeps its types, and a thread that works on a      *)
(* request knows its account (main.rs:493-766).                            *)
THEOREM AlwaysTyped == Spec => []Typed
<1> QED
  BY InitTyped, NextTyped, PTL DEF Spec

(* The variables of a greeting keep their types (main.rs:493-766).         *)
THEOREM TypeCorrect == Spec => []TypeOK
<1>1. Typed => TypeOK
  BY DEF Typed
<1> QED
  BY <1>1, AlwaysTyped, PTL

-----------------------------------------------------------------------------
(* The throttle.  A thread that is checking a password holds the mutex, so *)
(* nothing changes the records under it: not another attempt, not a watch  *)
(* that clears them, not the sweep.                                        *)

LockOwner == \A c \in Conns : holder = c <=> pc[c] \in Locked

Guarded == Typed /\ LockOwner /\ ThrottleStillOpen

LEMMA InitGuarded == Init => Guarded
<1> SUFFICES ASSUME Init PROVE Guarded
  OBVIOUS
<1>1. LockOwner
  BY GreetAssumption DEF Init, LockOwner, Locked
<1>2. ThrottleStillOpen
  BY DEF Init, ThrottleStillOpen
<1> QED
  BY <1>1, <1>2, InitTyped DEF Guarded

LEMMA NextGuarded == Guarded /\ [Next]_vars => Guarded'
<1> SUFFICES ASSUME Guarded, [Next]_vars PROVE (LockOwner /\ ThrottleStillOpen)'
  BY NextTyped DEF Guarded
<1>a. /\ pc \in [Conns -> Serving \cup {"idle", "backlog", "ended"}]
      /\ job \in [Conns -> Jobs]
      /\ records \in [Accounts -> Record]
      /\ \A c \in Conns : pc[c] = "checking" => job[c].account \in Accounts
      /\ Nobody \notin Conns
  BY GreetAssumption
     DEF Guarded, Typed, TypeOK, Jobs, JobsHaveAccounts, Working
<1>b. LockOwner /\ ThrottleStillOpen
  BY DEF Guarded
<1> USE <1>a, <1>b DEF LockOwner, ThrottleStillOpen, Locked, Goto, Finish,
        connVars, supVars
<1>1. CASE Tick
  BY <1>1 DEF Tick
<1>2. ASSUME NEW c \in Conns, Connect(c) PROVE (LockOwner /\ ThrottleStillOpen)'
  BY <1>2 DEF Connect
<1>3. ASSUME NEW c \in Conns, NEW request \in Requests, Send(c, request)
      PROVE  (LockOwner /\ ThrottleStillOpen)'
  BY <1>3 DEF Send
<1>4. ASSUME NEW c \in Conns, HangUp(c) PROVE (LockOwner /\ ThrottleStillOpen)'
  BY <1>4 DEF HangUp
<1>5. CASE CompositorExits
  BY <1>5 DEF CompositorExits
<1>6. CASE UiExits
  BY <1>6 DEF UiExits
<1>7. ASSUME NEW c \in Conns, Read(c) PROVE (LockOwner /\ ThrottleStillOpen)'
  <2>1. pc[c] = "reading" /\ UNCHANGED <<holder, records>>
    BY <1>7 DEF Read, ReadClosed, ReadQuery, ReadAuthenticate, ReadWatch
  <2>2. \E place \in {"reading", "ended", "queued", "watching"} :
           pc' = [pc EXCEPT ![c] = place]
    BY <1>7 DEF Read, ReadClosed, ReadQuery, ReadAuthenticate, ReadWatch
  <2>3. \A d \in Conns \ {c} : job'[d] = job[d]
    BY <1>7 DEF Read, ReadClosed, ReadQuery, ReadAuthenticate, ReadWatch
  <2> QED
    BY <2>1, <2>2, <2>3
<1>8. ASSUME NEW c \in Conns, Throttle(c) PROVE (LockOwner /\ ThrottleStillOpen)'
  BY <1>8 DEF Throttle
<1>9. ASSUME NEW c \in Conns, Check(c) PROVE (LockOwner /\ ThrottleStillOpen)'
  <2>1. pc[c] = "checking" /\ UNCHANGED <<holder, job>>
    BY <1>9 DEF Check, CheckGranted, CheckDenied, CheckFails
  <2>2. \E place \in {"replying", "granting"} : pc' = [pc EXCEPT ![c] = place]
    BY <1>9 DEF Check, CheckGranted, CheckDenied, CheckFails
  <2>3. \A d \in Conns : pc'[d] # "checking"
    BY <2>1, <2>2
  <2> QED
    BY <2>1, <2>2, <2>3
<1>10. ASSUME NEW c \in Conns, Answer(c) PROVE (LockOwner /\ ThrottleStillOpen)'
  <2>1. pc[c] \in Locked /\ holder' = Nobody /\ UNCHANGED records
    BY <1>10 DEF Answer, Reply, ReplyGranted
  <2>2. \E place \in {"reading", "ended", "sending"} :
           pc' = [pc EXCEPT ![c] = place]
    BY <1>10 DEF Answer, Reply, ReplyGranted
  <2>3. \A d \in Conns : pc'[d] \notin Locked
    BY <2>1, <2>2
  <2> QED
    BY <2>1, <2>3
<1>11. ASSUME NEW c \in Conns, WatchEnds(c) PROVE (LockOwner /\ ThrottleStillOpen)'
  BY <1>11 DEF WatchEnds
<1>12. ASSUME NEW c \in Conns, WatchMatches(c)
       PROVE  (LockOwner /\ ThrottleStillOpen)'
  BY <1>12 DEF WatchMatches
<1>13. ASSUME NEW c \in Conns, RecordWatch(c)
       PROVE  (LockOwner /\ ThrottleStillOpen)'
  <2>1. \A d \in Conns : pc'[d] \notin Locked
    BY <1>13 DEF RecordWatch
  <2> QED
    BY <1>13, <2>1 DEF RecordWatch
<1>14. ASSUME NEW c \in Conns, SendLogin(c) PROVE (LockOwner /\ ThrottleStillOpen)'
  BY <1>14 DEF SendLogin
<1>15. ASSUME NEW c \in Conns, Accept(c) PROVE (LockOwner /\ ThrottleStillOpen)'
  BY <1>15 DEF Accept
<1>16. CASE AcceptNone \/ AcceptFails \/ Receive \/ Supervise
  BY <1>16 DEF AcceptNone, AcceptFails, Receive, Supervise
<1>17. CASE Sweep
  <2>1. \A d \in Conns : pc'[d] \notin Locked
    BY <1>17 DEF Sweep
  <2> QED
    BY <1>17, <2>1 DEF Sweep
<1>18. CASE Shut
  BY <1>18 DEF Shut
<1>19. CASE Join
  BY <1>19 DEF Join
<1>20. CASE Greet
  <2>1. holder' = Nobody /\ \A d \in Conns : pc'[d] \in {"idle", "backlog"}
    BY <1>20 DEF Greet
  <2> QED
    BY <2>1
<1>21. CASE Done \/ UNCHANGED vars
  BY <1>21 DEF Done, vars
<1> QED
  BY <1>1, <1>2, <1>3, <1>4, <1>5, <1>6, <1>7, <1>8, <1>9, <1>10, <1>11, <1>12,
     <1>13, <1>14, <1>15, <1>16, <1>17, <1>18, <1>19, <1>20, <1>21
     DEF Next, Greeter, Serve, AcceptLoop

LEMMA AlwaysGuarded == Spec => []Guarded
<1> QED
  BY InitGuarded, NextGuarded, PTL DEF Spec

(* However many connections guess at once, a password is only checked      *)
(* while its account's throttle is open (main.rs:681).                     *)
THEOREM ThrottleHolds == Spec => []ThrottleStillOpen
<1>1. Guarded => ThrottleStillOpen
  BY DEF Guarded
<1> QED
  BY <1>1, AlwaysGuarded, PTL

(* A penalised account's failures are counted from attempts at least the   *)
(* penalty apart, on however many connections they are made.               *)
THEOREM PenaltiesPaid == Spec => PenaltiesArePaid
<1> DEFINE Paid ==
      \A a \in Accounts :
          /\ records'[a].failures > records[a].failures
          /\ records[a].failures > FreeAttempts
          => Monus(records'[a].last, records[a].last)
                 >= Required(records[a].failures)
<1>1. Guarded /\ [Next]_vars => [Paid]_vars
  <2> SUFFICES ASSUME Guarded, [Next]_vars,
                      NEW a \in Accounts,
                      records'[a].failures > records[a].failures,
                      records[a].failures > FreeAttempts
               PROVE  Monus(records'[a].last, records[a].last)
                          >= Required(records[a].failures)
    OBVIOUS
  <2>a. /\ records \in [Accounts -> Record]
        /\ records[a].failures \in Nat
        /\ clock \in Nat
        /\ \A c \in Conns : job[c].now \in Nat
    BY CounterType, GreetAssumption DEF Guarded, Typed, TypeOK, Record
  <2>b. records[a].failures > 0
    BY <2>a, LimitsAssumption
  <2>1. CASE UNCHANGED records
    BY <2>1, <2>a
  <2>2. ASSUME NEW c \in Conns, CheckDenied(c)
        PROVE  Monus(records'[a].last, records[a].last)
                   >= Required(records[a].failures)
    <3>1. records' = [records EXCEPT ![job[c].account] =
                          RecordFailure(records[job[c].account], job[c].now)]
      BY <2>2 DEF CheckDenied
    <3>2. a = job[c].account
      BY <3>1, <2>a
    <3>3. records'[a] = RecordFailure(records[a], job[c].now)
      BY <3>1, <3>2, <2>a
    <3>4. DelayFor(records[a], job[c].now) = 0
      BY <2>2, <3>2 DEF CheckDenied, Guarded, ThrottleStillOpen
    <3>5. Monus(job[c].now, records[a].last) >= Required(records[a].failures)
      BY <2>a, <2>b, <3>3, <3>4, DelayPaid
    <3>6. records'[a].last = job[c].now
      BY <3>3 DEF RecordFailure
    <3> QED
      BY <3>5, <3>6
  <2>3. ASSUME NEW c \in Conns, CheckGranted(c) \/ RecordWatch(c)
        PROVE  FALSE
    <3>1. records'[a] \in {records[a], NoRecord}
      BY <2>3, <2>a DEF CheckGranted, RecordWatch, RecordSuccess
    <3> QED
      BY <3>1, <2>a DEF NoRecord
  <2>4. CASE Sweep
    <3>1. records'[a] \in {records[a], NoRecord}
      BY <2>4, <2>a DEF Sweep, ForgetOld
    <3> QED
      BY <3>1, <2>a DEF NoRecord
  <2>5. ASSUME NEW c \in Conns, Serve(c)
        PROVE  UNCHANGED records \/ CheckGranted(c) \/ CheckDenied(c) \/ RecordWatch(c)
    BY <2>5 DEF Serve, Read, ReadClosed, ReadQuery, ReadAuthenticate, ReadWatch,
       Throttle, Check, CheckFails, Answer, Reply, ReplyGranted, WatchEnds,
       WatchMatches, SendLogin
  <2>6. AcceptLoop => UNCHANGED records \/ Sweep
    BY DEF AcceptLoop, Accept, AcceptNone, AcceptFails, Receive, Supervise,
       Shut, Join
  <2>7. Tick \/ Greeter \/ Greet \/ Done \/ UNCHANGED vars => UNCHANGED records
    BY DEF Tick, Greeter, Connect, Send, HangUp, CompositorExits, UiExits,
       Greet, Done, vars
  <2> QED
    BY <2>1, <2>2, <2>3, <2>4, <2>5, <2>6, <2>7 DEF Next
<1> QED
  BY <1>1, AlwaysGuarded, PTL DEF Spec, PenaltiesArePaid

-----------------------------------------------------------------------------
(* The race.  Whoever holds a claim is the winner, and the winner's login  *)
(* is in one place: a thread, the channel, or the outcome.                 *)

LoginIsWinners ==
    /\ \A c \in Conns : pc[c] \in Claimed => winner = c
    /\ channel # <<>> => Head(channel).by = winner /\ outcome \notin Logins
    /\ outcome \in Logins => outcome.by = winner

LoopDecided == sup \in {"shut", "join", "over"} <=> outcome # Undecided

RaceInv == OneLogin /\ LoginIsWinners /\ LoopDecided

Raced == Typed /\ RaceInv

LEMMA InitRaced == Init => Raced
<1> SUFFICES ASSUME Init PROVE RaceInv
  BY InitTyped DEF Raced
<1>1. Undecided \notin Logins
  BY GreetAssumption DEF Undecided, Logins
<1> QED
  BY <1>1 DEF Init, RaceInv, OneLogin, LoginIsWinners, LoopDecided, Claimed

LEMMA NextRaced == Raced /\ [Next]_vars => Raced'
<1> SUFFICES ASSUME Raced, [Next]_vars PROVE RaceInv'
  BY NextTyped DEF Raced
<1>a. /\ pc \in [Conns -> Serving \cup {"idle", "backlog", "ended"}]
      /\ channel \in Seq(Logins)
      /\ outcome \in Logins \cup {Undecided, Failure}
      /\ winner \in Conns \cup {Nobody}
      /\ \A c \in Conns : pc[c] = "sending" => job[c].account \in Accounts
  BY DEF Raced, Typed, TypeOK, JobsHaveAccounts, Working
<1>b. RaceInv
  BY DEF Raced
<1>c. /\ Undecided \notin Logins
      /\ Failure \notin Logins
      /\ Failure # Undecided
      /\ Nobody \notin Conns
      /\ \A login \in Logins : login.by \in Conns
  BY GreetAssumption DEF Undecided, Failure, Logins
<1> USE <1>a, <1>b, <1>c
<1>q. ASSUME UNCHANGED <<sup, outcome, channel, winner>>,
             \A c \in Conns : pc'[c] \in Claimed => pc[c] \in Claimed
      PROVE  RaceInv'
  BY <1>q DEF RaceInv, OneLogin, LoginIsWinners, LoopDecided
<1>1. CASE Tick \/ Greeter
  BY <1>1, <1>q DEF Tick, Greeter, Connect, Send, HangUp, CompositorExits,
     UiExits, supVars, connVars, Goto, Claimed
<1>2. ASSUME NEW c \in Conns, Read(c) \/ Throttle(c) \/ WatchEnds(c)
      PROVE  RaceInv'
  BY <1>2, <1>q DEF Read, ReadClosed, ReadQuery, ReadAuthenticate, ReadWatch,
     Throttle, WatchEnds, supVars, Goto, Finish, Claimed
<1>3. ASSUME NEW c \in Conns, CheckDenied(c) \/ CheckFails(c) \/ Answer(c) \/ RecordWatch(c)
      PROVE  RaceInv'
  BY <1>3, <1>q DEF CheckDenied, CheckFails, Answer, Reply, ReplyGranted,
     RecordWatch, supVars, Goto, Finish, Claimed
<1>4. ASSUME NEW c \in Conns, CheckGranted(c) \/ WatchMatches(c)
      PROVE  RaceInv'
  <2>1. CASE granted
    BY <1>4, <2>1, <1>q DEF CheckGranted, WatchMatches, supVars, Goto, Finish,
       Claimed
  <2>2. CASE ~granted
    <3>1. /\ winner = Nobody
          /\ winner' = c
          /\ UNCHANGED <<sup, outcome, channel>>
          /\ \A d \in Conns \ {c} : pc'[d] = pc[d]
      BY <1>4, <2>2 DEF CheckGranted, WatchMatches, granted, supVars, Goto
    <3>2. \A d \in Conns : pc[d] \notin Claimed
      BY <3>1 DEF RaceInv, LoginIsWinners
    <3>3. outcome \notin Logins
      BY <3>1 DEF RaceInv, LoginIsWinners
    <3>4. channel = <<>>
      <4>1. SUFFICES ASSUME channel # <<>> PROVE FALSE
        OBVIOUS
      <4>2. Head(channel) \in Logins /\ Head(channel).by = winner
        BY <4>1 DEF RaceInv, LoginIsWinners
      <4> QED
        BY <4>2, <3>1
    <3> QED
      BY <3>1, <3>2, <3>3, <3>4
         DEF RaceInv, OneLogin, LoginIsWinners, LoopDecided
  <2> QED
    BY <2>1, <2>2
<1>5. ASSUME NEW c \in Conns, SendLogin(c) PROVE RaceInv'
  <2> DEFINE login == [by |-> c, account |-> job[c].account]
  <2>1. /\ pc[c] = "sending"
        /\ winner = c
        /\ channel = <<>>
        /\ outcome \notin Logins
    BY <1>5 DEF SendLogin, RaceInv, LoginIsWinners, OneLogin, Claimed
  <2>2. /\ UNCHANGED <<sup, outcome, winner>>
        /\ pc' = [pc EXCEPT ![c] = "ended"]
        /\ channel' = Append(channel, login)
    BY <1>5 DEF SendLogin, supVars, Finish, Goto
  <2>3. login \in Logins
    BY <2>1 DEF Logins
  <2>4. Len(channel') = 1 /\ Head(channel') = login
    BY <2>1, <2>2, <2>3
  <2>5. \A d \in Conns : pc'[d] \notin Claimed
    BY <2>1, <2>2 DEF RaceInv, OneLogin, Claimed
  <2> QED
    BY <2>1, <2>2, <2>4, <2>5 DEF RaceInv, OneLogin, LoginIsWinners, LoopDecided
<1>6. ASSUME NEW c \in Conns, Accept(c) PROVE RaceInv'
  <2>1. \A d \in Conns : pc'[d] \in Claimed => pc[d] \in Claimed
    BY <1>6 DEF Accept, Goto, Claimed
  <2> QED
    BY <1>6, <2>1 DEF Accept, RaceInv, OneLogin, LoginIsWinners, LoopDecided
<1>7. CASE AcceptNone
  BY <1>7 DEF AcceptNone, connVars, RaceInv, OneLogin, LoginIsWinners, LoopDecided
<1>8. CASE AcceptFails
  BY <1>8 DEF AcceptFails, connVars, RaceInv, OneLogin, LoginIsWinners, LoopDecided
<1>9. CASE Receive
  <2>1. CASE channel = <<>>
    BY <1>9, <2>1 DEF Receive, connVars, RaceInv, OneLogin, LoginIsWinners,
       LoopDecided
  <2>2. CASE channel # <<>>
    <3>1. /\ outcome' = Head(channel)
          /\ channel' = Tail(channel)
          /\ sup' = "shut"
          /\ UNCHANGED <<pc, winner>>
      BY <1>9, <2>2 DEF Receive, connVars
    <3>2. Head(channel) \in Logins /\ Head(channel).by = winner
      BY <2>2 DEF RaceInv, LoginIsWinners
    <3>3. Len(channel) = 1
      <4>1. Len(channel) <= 1
        BY DEF RaceInv, OneLogin
      <4>2. Len(channel) \in Nat \ {0}
        BY <2>2
      <4> DEFINE n == Len(channel)
      <4> HIDE DEF n
      <4>3. n <= 1 /\ n \in Nat \ {0}
        BY <4>1, <4>2 DEF n
      <4>4. n = 1
        BY ONLY <4>3, SMT
      <4> QED
        BY <4>4 DEF n
    <3>4. channel' = <<>>
      BY <3>1, <3>3
    <3>5. \A d \in Conns : pc'[d] \notin Claimed
      BY <2>2, <3>1 DEF RaceInv, OneLogin
    <3> QED
      BY <3>1, <3>2, <3>4, <3>5
         DEF RaceInv, OneLogin, LoginIsWinners, LoopDecided
  <2> QED
    BY <2>1, <2>2
<1>10. CASE Supervise
  BY <1>10 DEF Supervise, connVars, RaceInv, OneLogin, LoginIsWinners, LoopDecided
<1>11. CASE Sweep \/ Shut \/ Join
  BY <1>11 DEF Sweep, Shut, Join, connVars, RaceInv, OneLogin, LoginIsWinners,
     LoopDecided
<1>12. CASE Greet
  <2>1. \A d \in Conns : pc'[d] \notin Claimed
    BY <1>12 DEF Greet, Claimed
  <2> QED
    BY <1>12, <2>1 DEF Greet, RaceInv, OneLogin, LoginIsWinners, LoopDecided
<1>13. CASE Done \/ UNCHANGED vars
  BY <1>13, <1>q DEF Done, vars, supVars, connVars
<1> QED
  BY <1>1, <1>2, <1>3, <1>4, <1>5, <1>6, <1>7, <1>8, <1>9, <1>10, <1>11, <1>12,
     <1>13
     DEF Next, Serve, Check, AcceptLoop

LEMMA AlwaysRaced == Spec => []Raced
<1> QED
  BY InitRaced, NextRaced, PTL DEF Spec

(* At most one login of a greeting is ever under way (main.rs:389).        *)
THEOREM AtMostOneLogin == Spec => []OneLogin
<1>1. Raced => OneLogin
  BY DEF Raced, RaceInv
<1> QED
  BY <1>1, AlwaysRaced, PTL

(* The accept loop, its threads and its channel implement the race of      *)
(* LoginRace: a greeting returns the first claimant's login or fails.      *)
THEOREM ImplementsRace == Spec => RaceSpec
<1>1. Init => Race!Init
  BY DEF Init, Race!Init, Undecided
<1>2. Raced /\ [Next]_vars => [Race!Next]_Race!race
  <2> SUFFICES ASSUME Raced, [Next]_vars PROVE [Race!Next]_Race!race
    OBVIOUS
  <2>a. /\ outcome \in Logins \cup {Undecided, Failure}
        /\ channel \in Seq(Logins)
        /\ winner \in Conns \cup {Nobody}
    BY DEF Raced, Typed, TypeOK
  <2>b. LoginIsWinners /\ LoopDecided
    BY DEF Raced, RaceInv
  <2>c. /\ Nobody \notin Conns
        /\ Failed # Nobody
        /\ Undecided.by = Nobody
        /\ Failure.by = Failed
        /\ \A login \in Logins : login.by \in Conns
    BY GreetAssumption DEF Undecided, Failure, Logins
  <2> USE <2>a, <2>b, <2>c
  <2>1. ASSUME UNCHANGED <<winner, outcome>> PROVE UNCHANGED Race!race
    BY <2>1 DEF Race!race
  <2>2. ASSUME NEW c \in Conns, CheckGranted(c) \/ WatchMatches(c)
        PROVE  Race!Win(c) \/ UNCHANGED Race!race
    BY <2>2, <2>1 DEF CheckGranted, WatchMatches, granted, supVars, Race!Win
  <2>3. CASE Receive
    <3>1. CASE channel = <<>>
      BY <2>1, <2>3, <3>1 DEF Receive
    <3>2. CASE channel # <<>>
      <4>1. Head(channel) \in Logins /\ Head(channel).by = winner
        BY <3>2 DEF LoginIsWinners
      <4>2. outcome = Undecided
        BY <2>3 DEF Receive, LoopDecided
      <4>3. Race!LogIn
        BY <2>3, <3>2, <4>1, <4>2 DEF Receive, Race!LogIn
      <4> QED
        BY <4>3 DEF Race!Next
    <3> QED
      BY <3>1, <3>2
  <2>4. CASE AcceptFails \/ Supervise
    <3>1. outcome = Undecided
      BY <2>4 DEF AcceptFails, Supervise, LoopDecided
    <3>2. Race!GiveUp \/ UNCHANGED Race!race
      BY <2>1, <2>4, <3>1 DEF AcceptFails, Supervise, Race!GiveUp
    <3> QED
      BY <3>2 DEF Race!Next
  <2>5. CASE Greet
    <3>1. outcome # Undecided /\ outcome' = Undecided /\ winner' = Nobody
      BY <2>5 DEF Greet, LoopDecided
    <3>2. Race!Again
      BY <3>1 DEF Race!Again
    <3> QED
      BY <3>2 DEF Race!Next
  <2>6. ASSUME NEW c \in Conns, Serve(c)
        PROVE  UNCHANGED <<winner, outcome>> \/ CheckGranted(c) \/ WatchMatches(c)
    BY <2>6 DEF Serve, Read, ReadClosed, ReadQuery, ReadAuthenticate, ReadWatch,
       Throttle, Check, CheckDenied, CheckFails, Answer, Reply, ReplyGranted,
       WatchEnds, RecordWatch, SendLogin, supVars
  <2>7. AcceptLoop
        => UNCHANGED <<winner, outcome>> \/ Receive \/ AcceptFails \/ Supervise
    BY DEF AcceptLoop, Accept, AcceptNone, Sweep, Shut, Join
  <2>8. Tick \/ Greeter \/ Done \/ UNCHANGED vars => UNCHANGED <<winner, outcome>>
    BY DEF Tick, Greeter, Connect, Send, HangUp, CompositorExits, UiExits,
       Done, vars, supVars
  <2> QED
    BY <2>1, <2>2, <2>3, <2>4, <2>5, <2>6, <2>7, <2>8 DEF Next, Race!Next
<1> QED
  BY <1>1, <1>2, AlwaysRaced, PTL DEF Spec, RaceSpec, Race!Spec
=============================================================================
