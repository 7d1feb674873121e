------------------------------- MODULE Guessing -------------------------------
(***************************************************************************)
(* Somebody guessing one account's password against the throttle, one      *)
(* attempt at a time: the Authenticate arm of `serve` (ravend/src/main.rs) *)
(* with the rest of the daemon left out, so that time can run far enough   *)
(* for the limits to matter.  Its names are its own, so that a module may  *)
(* extend it beside another of the limiter's users.                        *)
(***************************************************************************)
EXTENDS RateLimit, Sequences, FiniteSets

CONSTANTS MaxTime,    \* bound on time
          MaxGuesses  \* bound on the passwords checked

ASSUME GuessingAssumption == MaxTime \in Nat /\ MaxGuesses \in Nat

VARIABLES time,
          record,     \* the account's entry
          guesses     \* history: when each wrong password was checked

guessing == <<time, record, guesses>>

GuessingInit ==
    /\ time = 0
    /\ record = NoRecord
    /\ guesses = <<>>

TimePasses ==
    /\ time < MaxTime
    /\ time' = time + 1
    /\ UNCHANGED <<record, guesses>>

Guess ==
    /\ Len(guesses) < MaxGuesses
    /\ DelayFor(record, time) = 0
    /\ record' = RecordFailure(record, time)
    /\ guesses' = Append(guesses, time)
    /\ UNCHANGED time

(* The owner logs in, which ends the guessing as far as the history goes. *)
Succeed ==
    /\ DelayFor(record, time) = 0
    /\ record' = RecordSuccess(record)
    /\ guesses' = <<>>
    /\ UNCHANGED time

SweepRecord ==
    /\ record' = ForgetOld(record, time)
    /\ UNCHANGED <<time, guesses>>

TimeIsUp == time = MaxTime /\ UNCHANGED guessing

GuessingNext == TimePasses \/ Guess \/ Succeed \/ SweepRecord \/ TimeIsUp

GuessingSpec == GuessingInit /\ [][GuessingNext]_guessing

-----------------------------------------------------------------------------

GuessingTypeOK ==
    /\ time \in 0 .. MaxTime
    /\ record \in Record
    /\ guesses \in Seq(0 .. MaxTime)

(* "A slow guessing loop cannot outwait it" (ratelimit.rs:40): in any      *)
(* stretch of time shorter than forget_after no more passwords are checked *)
(* than the free ones, one more, and one for each base_delay that passes.  *)
GuessRateBounded ==
    \A i, j \in 1 .. Len(guesses) :
        i <= j /\ guesses[j] - guesses[i] < ForgetAfter
        => j - i + 1 <= FreeAttempts + 1
                        + (guesses[j] - guesses[i]) \div Least(BaseDelay, MaxDelay)

(* "The ceiling is a delay, not a wall" (ratelimit.rs:21): however long    *)
(* the guessing, and with the counter saturated, the account can be tried  *)
(* again max_delay after the last failure.                                 *)
NoLockout ==
    time >= record.last + MaxDelay => DelayFor(record, time) = 0
=============================================================================
