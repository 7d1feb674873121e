------------------------------ MODULE Accounts ------------------------------
(***************************************************************************)
(* Who may come in (crate raven-auth, with the verdict of raven-crypt).    *)
(*                                                                         *)
(* A passwd line is its uid and the last component of its shell; a shadow  *)
(* line is what its hash field holds and its aging fields in days.  A line *)
(* that does not parse is a line that is not there (Absent); an aging      *)
(* field that is empty or not a number is Unset.  A hash is what the code  *)
(* tells apart: "" (empty), "!", "*" (what it begins with), "sha512" (the  *)
(* one scheme this build computes, well formed), "other" (a scheme it      *)
(* cannot compute) and "damaged" (SHA-512 crypt without a checksum).  Each *)
(* well-formed hash is the hash of the password "right".                   *)
(***************************************************************************)
EXTENDS Integers

CONSTANTS Absent,  \* no such line
          Unset    \* None, of an aging field

ASSUME AccountsAssumption == Unset \notin Int

FirstRegularUid == 1000
LastRegularUid  == 60000
NonInteractiveShells == {"nologin", "false", "sync", "shutdown", "halt"}

(* Mutant of IsPerson: the shell is not looked at. *)
AnyShellWillDo(line) ==
    line.uid >= FirstRegularUid /\ line.uid <= LastRegularUid

IsPerson(line) ==
    /\ line.uid >= FirstRegularUid
    /\ line.uid <= LastRegularUid
    /\ line.shell \notin NonInteractiveShells

-----------------------------------------------------------------------------
(***************************************************************************)
(* /etc/shadow: what a line says of its account on a day.                  *)
(***************************************************************************)
Hashes == {"", "!", "*", "sha512", "other", "damaged"}

Expired(entry, today) ==
    /\ entry.expire # Unset
    /\ entry.expire > 0
    /\ today >= entry.expire

Aged(entry, today) ==
    /\ entry.last_change # Unset /\ entry.max # Unset
    /\ entry.max > 0
    /\ today >= entry.last_change + entry.max

Status(entry, today) ==
    IF Expired(entry, today) THEN "AccountExpired"
    ELSE CASE entry.hash = ""  -> "Passwordless"
           [] entry.hash = "!" -> "Locked"
           [] entry.hash = "*" -> "NoPasswordLogin"
           [] OTHER -> IF entry.last_change = 0   THEN "MustChangePassword"
                       ELSE IF Aged(entry, today) THEN "PasswordExpired"
                       ELSE "Usable"

-----------------------------------------------------------------------------
(***************************************************************************)
(* An answer is "Granted" or the reason of the denial, with the number of  *)
(* hashes computed to reach it.  `Verify` is raven_crypt::verify.          *)
(***************************************************************************)
Answer(result, work) == [result |-> result, work |-> work]

Verify(typed, hash) ==
    CASE hash = "sha512"  -> Answer(IF typed = "right" THEN "Granted"
                                    ELSE "BadPassword", 1)
      [] hash = "damaged" -> Answer("MalformedHash", 0)
      [] OTHER            -> Answer("UnsupportedHash", 0)

DeniedAfterEqualWork(denial) == Answer(denial, 1)

(* What /etc/passwd alone refuses, or "none". *)
PasswdDenial(policy, line) ==
    IF line = Absent THEN "NoSuchUser"
    ELSE IF line.uid = 0 /\ ~ policy.allow_root THEN "RootNotPermitted"
    ELSE IF ~ IsPerson(line) /\ line.uid # 0 THEN "NotAPerson"
    ELSE "none"

(* Mutant of Admit: a finger opens an account without a password, whatever *)
(* the policy on empty passwords says.                                     *)
AdmitWithoutPolicy(policy, entry, today) ==
    IF entry = Absent THEN Answer("NoSuchUser", 0)
    ELSE LET status == Status(entry, today) IN
         Answer(IF status \in {"Usable", "Passwordless"} THEN "Granted"
                ELSE status, 0)

(* `admit`, once the passwd line has passed: by a finger or a face. *)
Admit(policy, entry, today) ==
    IF entry = Absent THEN Answer("NoSuchUser", 0)
    ELSE LET status == Status(entry, today) IN
         CASE status = "Usable" -> Answer("Granted", 0)
           [] status = "Passwordless" ->
                Answer(IF policy.allow_empty_password THEN "Granted"
                       ELSE "PasswordlessNotPermitted", 0)
           [] OTHER -> Answer(status, 0)

(* Mutant of Authenticate: the account that has no shadow line, or may not *)
(* be used, is refused at once.                                            *)
AuthenticateInAHurry(policy, entry, today, typed) ==
    IF entry = Absent THEN Answer("NoSuchUser", 0)
    ELSE LET status == Status(entry, today) IN
         IF status = "Usable" THEN Verify(typed, entry.hash)
         ELSE Answer(status, 0)

(* `authenticate`, once the passwd line has passed: by a password. *)
Authenticate(policy, entry, today, typed) ==
    IF entry = Absent THEN DeniedAfterEqualWork("NoSuchUser")
    ELSE LET status == Status(entry, today) IN
         CASE status = "Usable" -> Verify(typed, entry.hash)
           [] status = "Passwordless" ->
                IF policy.allow_empty_password /\ typed = ""
                THEN Answer("Granted", 0)
                ELSE DeniedAfterEqualWork("PasswordlessNotPermitted")
           [] OTHER -> DeniedAfterEqualWork(status)

(* The sentence a denial puts in front of the person at the keyboard. *)
IsSafeToDisplay(denial) ==
    denial \in {"AccountExpired", "PasswordExpired", "MustChangePassword",
                "UnsupportedHash"}

Message(denial) ==
    IF IsSafeToDisplay(denial) THEN denial ELSE "Incorrect password."
=============================================================================
