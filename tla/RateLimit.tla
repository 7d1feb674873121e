------------------------------ MODULE RateLimit ------------------------------
(***************************************************************************)
(* The login throttle of ravend/src/ratelimit.rs: a free allowance, then   *)
(* an exponential delay up to a ceiling, kept per account.  The source is  *)
(* a pure data structure that takes its clock as an argument, so these are *)
(* operators on one account's record; the modules that share a limiter     *)
(* between threads hold a function from accounts to records.               *)
(***************************************************************************)
EXTENDS Integers

CONSTANTS FreeAttempts,   \* Limits.free_attempts
          BaseDelay,      \* Limits.base_delay
          MaxDelay,       \* Limits.max_delay
          ForgetAfter,    \* Limits.forget_after
          Width           \* bits of the failure counter: 32 in the source

ASSUME LimitsAssumption ==
    /\ FreeAttempts \in Nat
    /\ BaseDelay \in Nat
    /\ MaxDelay \in Nat
    /\ ForgetAfter \in Nat
    /\ Width \in Nat \ {0}

(* Plain arithmetic, which the provers cannot derive: TLC evaluates it.    *)
ASSUME PowersAreNaturals ==
    \A k \in 0 .. Width : 2 ^ k \in Nat \ {0}

-----------------------------------------------------------------------------

CounterMax == 2 ^ Width - 1

Least(a, b) == IF a < b THEN a ELSE b

(* saturating_sub and saturating_duration_since *)
Monus(a, b) == IF a > b THEN a - b ELSE 0

(* One account's entry.  An entry of the map always counts at least one    *)
(* failure, so the record without failures stands for an absent entry.     *)
Record == [failures : 0 .. CounterMax, last : Nat]

NoRecord == [failures |-> 0, last |-> 0]

(* Mutant of Doublings: the shift wraps round. *)
DoublingsWrapped(k) == (2 ^ k) % (2 ^ Width)

(* 1u32.checked_shl(k).unwrap_or(u32::MAX) *)
Doublings(k) == IF k < Width THEN 2 ^ k ELSE CounterMax

(* Mutant of Required: no ceiling. *)
RequiredUncapped(failures) ==
    IF failures <= FreeAttempts
    THEN 0 ELSE BaseDelay * Doublings(failures - FreeAttempts - 1)

(* The whole delay that `failures` failures in a row call for. *)
Required(failures) ==
    LET penalized == Monus(failures, FreeAttempts)
    IN  IF penalized = 0
        THEN 0
        ELSE Least(BaseDelay * Doublings(penalized - 1), MaxDelay)

DelayFor(r, now) ==
    IF Monus(now, r.last) >= ForgetAfter
    THEN 0
    ELSE Monus(Required(r.failures), Monus(now, r.last))

(* Mutant of RecordFailure: the counter overflows. *)
RecordFailureUnsaturated(r, now) ==
    [failures |-> r.failures + 1, last |-> now]

RecordFailure(r, now) ==
    LET failures == IF Monus(now, r.last) >= ForgetAfter THEN 0 ELSE r.failures
    IN  [failures |-> Least(failures + 1, CounterMax), last |-> now]

RecordSuccess(r) == NoRecord

ForgetOld(r, now) ==
    IF Monus(now, r.last) < ForgetAfter THEN r ELSE NoRecord

=============================================================================
