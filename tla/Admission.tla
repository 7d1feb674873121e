----------------------------- MODULE Admission ------------------------------
(***************************************************************************)
(* One attempt at a time on the account files (raven-auth's Authenticator  *)
(* as ravend calls it: `authenticate` for a password, `admit` for a finger *)
(* or a face), while the administrator edits /etc/passwd and /etc/shadow   *)
(* and days pass.  An attempt reads the day, then passwd, then shadow:     *)
(* three reads at three moments, and an edit fits between any two.         *)
(***************************************************************************)
EXTENDS Accounts

CONSTANTS Names,    \* account names anyone may ask about
          Lines,    \* passwd lines the administrator may write
          Entries,  \* shadow lines the administrator may write
          MaxDay    \* bound on the days that pass

ASSUME AdmissionAssumption ==
    /\ MaxDay \in Nat
    /\ Absent \notin Lines \cup Entries \cup Names
    /\ \A line \in Lines : line.uid \in Nat
    /\ \A entry \in Entries :
          /\ entry.hash \in Hashes
          /\ {entry.expire, entry.last_change, entry.max} \subseteq
                Int \cup {Unset}

VARIABLES policy,   \* Policy, as ravend was started with it
          passwd, shadow,
          today,
          attempt,  \* the attempt being made
          opened    \* history: which file was open to it at some moment of it

vars == <<policy, passwd, shadow, today, attempt, opened>>

Policies == [allow_empty_password : BOOLEAN, allow_root : BOOLEAN]
Passwords == {"", "right", "wrong"}
Proofs == {"password", "finger"}
Results == {"none", "Granted", "BadPassword", "NoSuchUser", "NotAPerson",
            "RootNotPermitted", "Locked", "NoPasswordLogin",
            "PasswordlessNotPermitted", "AccountExpired", "PasswordExpired",
            "MustChangePassword", "UnsupportedHash", "MalformedHash"}

Attempts == [stage  : {"idle", "began", "known", "answered", "failed"},
             by     : Proofs,
             name   : Names \cup {Absent},
             typed  : Passwords,
             day    : 0..MaxDay,
             result : Results,
             work   : 0..1]
Idle == [stage |-> "idle", by |-> "password", name |-> Absent, typed |-> "",
         day |-> 0, result |-> "none", work |-> 0]

TypeOK ==
    /\ policy \in Policies
    /\ passwd \in [Names -> Lines \cup {Absent}]
    /\ shadow \in [Names -> Entries \cup {Absent}]
    /\ today \in 0..MaxDay
    /\ attempt \in Attempts
    /\ attempt.stage # "idle" => attempt.name \in Names
    /\ opened \subseteq {"passwd", "shadow"}

-----------------------------------------------------------------------------
(***************************************************************************)
(* When an account is open, said once for the whole of it: what the person *)
(* who closes it relies on.  The history of an attempt records which of    *)
(* the two files was open to it at some moment since it began.             *)
(***************************************************************************)
LineOpen(line) ==
    /\ line # Absent
    /\ \/ line.uid = 0 /\ policy.allow_root
       \/ /\ line.uid >= 1000 /\ line.uid <= 60000
          /\ line.shell \notin NonInteractiveShells

EntryOpen(entry, day) ==
    /\ entry # Absent
    /\ entry.hash \notin {"!", "*"}
    /\ entry.hash = "" => policy.allow_empty_password
    /\ \/ entry.expire = Unset
       \/ entry.expire <= 0
       \/ day < entry.expire
    /\ entry.hash # "" =>
          /\ entry.last_change # 0
          /\ \/ entry.last_change = Unset \/ entry.max = Unset
             \/ entry.max <= 0
             \/ day < entry.last_change + entry.max

OpenNow(p, s, name, day) ==
    {f \in {"passwd"} : LineOpen(p[name])}
        \cup {f \in {"shadow"} : EntryOpen(s[name], day)}

Underway == attempt.stage \in {"began", "known"}

Watch == opened' = IF Underway
                   THEN opened \cup
                        OpenNow(passwd', shadow', attempt.name, attempt.day)
                   ELSE opened

-----------------------------------------------------------------------------
(***************************************************************************)
(* The attempt.                                                            *)
(***************************************************************************)
Init ==
    /\ policy \in Policies
    /\ passwd \in [Names -> Lines \cup {Absent}]
    /\ shadow \in [Names -> Entries \cup {Absent}]
    /\ today = 0
    /\ attempt = Idle
    /\ opened = {}

(* days_since_epoch: asked once, before anything is read. *)
Begin(by, name, typed) ==
    /\ attempt.stage = "idle"
    /\ attempt' = [stage |-> "began", by |-> by, name |-> name,
                   typed |-> typed, day |-> today,
                   result |-> "none", work |-> 0]
    /\ opened' = OpenNow(passwd, shadow, name, today)
    /\ UNCHANGED <<policy, passwd, shadow, today>>

Answered(answer) ==
    attempt' = [attempt EXCEPT !.stage = "answered",
                               !.result = answer.result,
                               !.work = answer.work]

(* passwd::load and find, with the refusals that need no more. *)
ReadPasswd ==
    /\ attempt.stage = "began"
    /\ LET denial == PasswdDenial(policy, passwd[attempt.name]) IN
       IF denial = "none"
       THEN attempt' = [attempt EXCEPT !.stage = "known"]
       ELSE Answered(IF attempt.by = "password"
                     THEN DeniedAfterEqualWork(denial)
                     ELSE Answer(denial, 0))
    /\ UNCHANGED <<policy, passwd, shadow, today, opened>>

ReadShadow ==
    /\ attempt.stage = "known"
    /\ LET entry == shadow[attempt.name] IN
       Answered(IF attempt.by = "password"
                THEN Authenticate(policy, entry, attempt.day, attempt.typed)
                ELSE Admit(policy, entry, attempt.day))
    /\ UNCHANGED <<policy, passwd, shadow, today, opened>>

(* A file that cannot be read is an error, never a denial. *)
ReadFails ==
    /\ Underway
    /\ attempt' = [attempt EXCEPT !.stage = "failed"]
    /\ UNCHANGED <<policy, passwd, shadow, today, opened>>

Done ==
    /\ attempt.stage \in {"answered", "failed"}
    /\ attempt' = Idle
    /\ opened' = {}
    /\ UNCHANGED <<policy, passwd, shadow, today>>

(***************************************************************************)
(* The machine around it: useradd, userdel, chsh, passwd and chage, each   *)
(* replacing one line of one file; and midnight.                           *)
(***************************************************************************)
EditPasswd(name, line) ==
    /\ passwd' = [passwd EXCEPT ![name] = line]
    /\ UNCHANGED <<policy, shadow, today, attempt>>
    /\ Watch

EditShadow(name, entry) ==
    /\ shadow' = [shadow EXCEPT ![name] = entry]
    /\ UNCHANGED <<policy, passwd, today, attempt>>
    /\ Watch

Midnight ==
    /\ today < MaxDay
    /\ today' = today + 1
    /\ UNCHANGED <<policy, passwd, shadow, attempt, opened>>

Next ==
    \/ \E by \in Proofs, name \in Names, typed \in Passwords :
          Begin(by, name, typed)
    \/ ReadPasswd \/ ReadShadow \/ ReadFails \/ Done
    \/ \E name \in Names, line \in Lines \cup {Absent} : EditPasswd(name, line)
    \/ \E name \in Names, entry \in Entries \cup {Absent} :
          EditShadow(name, entry)
    \/ Midnight

Spec == Init /\ [][Next]_vars

-----------------------------------------------------------------------------
Granted == attempt.stage = "answered" /\ attempt.result = "Granted"

(* Nobody is let in whom one of the files shut out for the whole of the    *)
(* attempt: an account the administrator has locked, expired or taken the  *)
(* shell of stays out, whatever is edited and whatever day begins between  *)
(* the reads, whether a password or a finger asks (lib.rs:245-345).        *)
ClosedStaysOut == Granted => opened = {"passwd", "shadow"}

(* Refusals that look the same on the screen cost the same: a password     *)
(* refused with "Incorrect password." has been paid for with one hash, be  *)
(* the account missing, locked or merely mistyped at, unless its hash is   *)
(* damaged (lib.rs:163-176, 347-356).                                      *)
RefusalsCostTheSame ==
    /\ attempt.stage = "answered"
    /\ attempt.by = "password"
    /\ ~ Granted
    /\ attempt.result # "MalformedHash"
    /\ Message(attempt.result) = "Incorrect password."
    => attempt.work = 1

(* A finger is another way to prove who somebody is, not another set of    *)
(* rules about who may come in (lib.rs:237-241): on the files as they are, *)
(* whoever a finger may let in some password may let in too, unless it is  *)
(* only that this build cannot check the hash, and the other way round.    *)
FingerFollowsPassword ==
    \A name \in Names :
       PasswdDenial(policy, passwd[name]) = "none" =>
          LET entry  == shadow[name]
              opens  == Admit(policy, entry, today).result = "Granted"
              typing == \E typed \in Passwords :
                           Authenticate(policy, entry, today, typed).result
                               = "Granted"
          IN opens <=> typing \/ /\ entry # Absent
                                 /\ entry.hash \in {"other", "damaged"}
                                 /\ Status(entry, today) = "Usable"
=============================================================================
