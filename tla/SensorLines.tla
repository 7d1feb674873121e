----------------------------- MODULE SensorLines -----------------------------
(***************************************************************************)
(* What the clients of raven-fprintd (raven-finger/src/sensor.rs) and      *)
(* raven-faced (raven-face/src/camera.rs) make of the lines the two        *)
(* services say.  A line is its first word and the account it is about;    *)
(* the words of a retry, the numbers of a frame and the colours of a flash *)
(* are left out, and the last two are lines to be passed over.             *)
(***************************************************************************)
EXTENDS Naturals

CONSTANTS Accounts,
          Nobody,   \* the owner of a record without one, or of no record
          Known,    \* names of records that this stack uses
          Odd,      \* names that another stack has used
          MaxMisses

ASSUME LinesAssumption ==
    /\ Nobody \notin Accounts
    /\ Known \cap Odd = {}
    /\ MaxMisses \in Nat \ {0}

Sensors == {"finger", "face"}

(* A template the service keeps, labelled "<account>:<name>". *)
Records == [owner : Accounts, name : Known \cup Odd]

Words == {"ok", "error", "match", "nomatch", "retry", "unknown"}

Lines == {l \in [word : Words, owner : Accounts \cup {Nobody}] :
             l.owner # Nobody => l.word \in {"ok", "match"}}

(* `list`: the reader's service lists everybody's records, of which those  *)
(* under a name this stack does not use are passed over; the camera's      *)
(* numbers the account's own.                                              *)
Listed(sensor, account, stored) ==
    {r \in stored : r.owner = account
                    /\ (sensor = "finger" => r.name \in Known)}

(* Mutant of VerifySays: whoever it is that matched. *)
VerifySaysAnybody(line, account) ==
    CASE line.word = "match" -> "matched"
      [] line.word = "nomatch" -> "missed"
      [] line.word = "error" -> "failed"
      [] OTHER -> "again"

(* One line of the reader's `verify`.  A match counts only for the account *)
(* that owns the record; anything that is no verdict is shown or passed    *)
(* over, and the next line waited for.                                     *)
VerifySays(line, account) ==
    CASE line.word = "match" /\ line.owner = account -> "matched"
      [] line.word \in {"match", "nomatch"} -> "missed"
      [] line.word = "error" -> "failed"
      [] OTHER -> "again"

(* One line of an `enrol`.  The camera's service has to name what it has   *)
(* stored; one that does not has failed, though it has stored it.          *)
EnrolSays(sensor, line) ==
    CASE line.word = "ok" -> IF sensor = "face" /\ line.owner = Nobody
                             THEN "failed" ELSE "done"
      [] line.word = "error" -> "failed"
      [] OTHER -> "again"

(* The answer to a `forget`: anything is a yes that is not an error. *)
ForgetSays(line) == IF line.word = "error" THEN "failed" ELSE "done"

(* Those that a request to forget one record, or all, takes away: the      *)
(* reader can be cleared only for everybody.                               *)
Erased(sensor, account, name, stored) ==
    IF name \in Known \cup Odd
    THEN {r \in stored : r.owner = account /\ r.name = name}
    ELSE {r \in stored : sensor = "face" => r.owner = account}
=============================================================================
