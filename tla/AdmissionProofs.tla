-------------------------- MODULE AdmissionProofs ---------------------------
(***************************************************************************)
(* Proofs about Admission, for any accounts, any lines the administrator   *)
(* may write and any number of days.                                       *)
(*                                                                         *)
(* What an answer needs of the files is found by cases on one line (the    *)
(* lemmas of the first part).  That it was so at some moment of the        *)
(* attempt needs an invariant about its history: while the attempt is      *)
(* under way the history has at least what the files say now, whatever     *)
(* has been edited meanwhile, and it never forgets.                        *)
(*                                                                         *)
(* The second half is about Greeter, the screen an admission is asked for  *)
(* at: for any accounts, any number of requests owed and any number of     *)
(* events a drawing drains at once.  Draining is a loop, so what it keeps  *)
(* is proved by an induction over its turns first.                         *)
(***************************************************************************)
EXTENDS Admission, Greeter, FiniteSetTheorems, WellFoundedInduction, TLAPS

Days == 0..MaxDay

Underwritten ==
    /\ Underway => OpenNow(passwd, shadow, attempt.name, attempt.day)
                      \subseteq opened
    /\ attempt.stage = "known" => "passwd" \in opened
    /\ ClosedStaysOut

Paid ==
    /\ attempt.stage = "answered"
    /\ attempt.by = "password"
    /\ attempt.result \notin {"Granted", "MalformedHash", "UnsupportedHash"}
    => attempt.work = 1

IInv == TypeOK /\ Underwritten /\ Paid

-----------------------------------------------------------------------------
(***************************************************************************)
(* One line.                                                               *)
(***************************************************************************)

(* A passwd line the code lets pass is one that is open. *)
LEMMA PasswdPasses ==
    ASSUME AdmissionAssumption, TypeOK, NEW line \in Lines \cup {Absent},
           PasswdDenial(policy, line) = "none"
    PROVE  LineOpen(line)
  <1>1. line # Absent
    BY DEF PasswdDenial
  <1>2. line.uid = 0 => policy.allow_root
    BY <1>1 DEF PasswdDenial
  <1>3. line.uid # 0 => IsPerson(line)
    BY <1>1 DEF PasswdDenial
  <1>4. line.uid # 0 => /\ line.uid >= 1000
                        /\ line.uid <= 60000
                        /\ line.shell \notin NonInteractiveShells
    BY <1>3 DEF IsPerson, FirstRegularUid, LastRegularUid
  <1> QED  BY <1>1, <1>2, <1>4 DEF LineOpen

(* A shadow line whose status is Usable is open, and has a hash. *)
LEMMA UsableIsOpen ==
    ASSUME AdmissionAssumption, AccountsAssumption,
           NEW entry \in Entries, NEW day \in Int,
           Status(entry, day) = "Usable"
    PROVE  EntryOpen(entry, day) /\ entry.hash \in {"sha512", "other", "damaged"}
  <1>1. /\ entry.hash \in {"", "!", "*", "sha512", "other", "damaged"}
        /\ entry.expire \in Int \cup {Unset}
        /\ entry.last_change \in Int \cup {Unset}
        /\ entry.max \in Int \cup {Unset}
        /\ Unset \notin Int
        /\ entry # Absent
    BY DEF AdmissionAssumption, AccountsAssumption, Hashes
  <1>2. ~ Expired(entry, day)
    BY DEF Status
  <1>a. entry.hash \notin {"", "!", "*"}
    BY <1>1, <1>2 DEF Status
  <1>b. entry.last_change # 0
    BY <1>1, <1>2, <1>a DEF Status
  <1>c. ~ Aged(entry, day)
    BY <1>1, <1>2, <1>a DEF Status
  <1>3. \/ entry.expire = Unset \/ entry.expire <= 0
        \/ day < entry.expire
    <2>1. CASE entry.expire \in Int
      BY <1>2, <2>1, AccountsAssumption DEF Expired, AccountsAssumption
    <2> QED  BY <1>1, <2>1
  <1>4. \/ entry.last_change = Unset \/ entry.max = Unset
        \/ entry.max <= 0 \/ day < entry.last_change + entry.max
    <2>1. CASE entry.last_change \in Int /\ entry.max \in Int
      BY <1>c, <2>1, AccountsAssumption DEF Aged, AccountsAssumption
    <2> QED  BY <1>1, <2>1
  <1> QED  BY <1>1, <1>a, <1>b, <1>3, <1>4 DEF EntryOpen

(* A shadow line whose status is Passwordless is open if the policy allows *)
(* an empty password.                                                      *)
LEMMA PasswordlessIsOpen ==
    ASSUME AdmissionAssumption, AccountsAssumption,
           NEW entry \in Entries, NEW day \in Int,
           Status(entry, day) = "Passwordless", policy.allow_empty_password
    PROVE  EntryOpen(entry, day) /\ entry.hash = ""
  <1>1. /\ entry.hash \in {"", "!", "*", "sha512", "other", "damaged"}
        /\ entry.expire \in Int \cup {Unset}
    BY DEF AdmissionAssumption, Hashes
  <1>2. ~ Expired(entry, day)
    BY DEF Status
  <1>3. entry.hash = ""
    BY <1>1, <1>2 DEF Status
  <1>4. \/ entry.expire = Unset \/ entry.expire <= 0
        \/ day < entry.expire
    <2>1. CASE entry.expire \in Int
      BY <1>2, <2>1, AccountsAssumption DEF Expired, AccountsAssumption
    <2> QED  BY <1>1, <2>1
  <1>5. entry # Absent
    BY DEF AdmissionAssumption
  <1> QED  BY <1>3, <1>4, <1>5 DEF EntryOpen

(* What a status can be. *)
Statuses == {"AccountExpired", "Passwordless", "Locked", "NoPasswordLogin",
             "MustChangePassword", "PasswordExpired", "Usable"}

LEMMA StatusIsOne ==
    ASSUME AdmissionAssumption, NEW entry \in Entries, NEW day
    PROVE  Status(entry, day) \in Statuses
  <1>1. entry.hash \in {"", "!", "*", "sha512", "other", "damaged"}
    BY DEF AdmissionAssumption, Hashes
  <1> QED  BY <1>1 DEF Status, Statuses

(* What `admit` answers, and of which lines. *)
LEMMA AdmitAnswers ==
    ASSUME AdmissionAssumption, AccountsAssumption, TypeOK,
           NEW entry \in Entries \cup {Absent}, NEW day \in Int
    PROVE  /\ Admit(policy, entry, day).result \in Results
           /\ Admit(policy, entry, day).work = 0
           /\ Admit(policy, entry, day).result = "Granted" =>
                 entry # Absent /\ EntryOpen(entry, day)
  <1>1. CASE entry = Absent
    BY <1>1 DEF Admit, Answer, Results
  <1>2. CASE entry # Absent
    <2>1. entry \in Entries
      BY <1>2
    <2>2. Status(entry, day) \in Statuses
      BY <2>1, StatusIsOne
    <2>3. CASE Status(entry, day) = "Usable"
      BY <1>2, <2>1, <2>3, UsableIsOpen DEF Admit, Answer, Results
    <2>4. CASE Status(entry, day) = "Passwordless"
      BY <1>2, <2>1, <2>4, PasswordlessIsOpen
         DEF Admit, Answer, Results, TypeOK, Policies
    <2>5. CASE Status(entry, day) \notin {"Usable", "Passwordless"}
      BY <1>2, <2>2, <2>5 DEF Admit, Answer, Results, Statuses
    <2> QED  BY <2>3, <2>4, <2>5
  <1> QED  BY <1>1, <1>2

(* What `authenticate` answers, of which lines, and at what cost. *)
LEMMA AuthenticateAnswers ==
    ASSUME AdmissionAssumption, AccountsAssumption, TypeOK,
           NEW entry \in Entries \cup {Absent}, NEW day \in Int,
           NEW typed \in Passwords
    PROVE  /\ Authenticate(policy, entry, day, typed).result \in Results
           /\ Authenticate(policy, entry, day, typed).work \in 0..1
           /\ Authenticate(policy, entry, day, typed).result = "Granted" =>
                 entry # Absent /\ EntryOpen(entry, day)
           /\ Authenticate(policy, entry, day, typed).result \notin
                 {"Granted", "MalformedHash", "UnsupportedHash"} =>
                 Authenticate(policy, entry, day, typed).work = 1
  <1>1. CASE entry = Absent
    BY <1>1 DEF Authenticate, DeniedAfterEqualWork, Answer, Results
  <1>2. CASE entry # Absent
    <2>1. entry \in Entries
      BY <1>2
    <2>2. Status(entry, day) \in Statuses
      BY <2>1, StatusIsOne
    <2>3. CASE Status(entry, day) = "Usable"
      <3>1. EntryOpen(entry, day) /\ entry.hash \in {"sha512", "other", "damaged"}
        BY <2>1, <2>3, UsableIsOpen
      <3>2. Authenticate(policy, entry, day, typed) = Verify(typed, entry.hash)
        BY <1>2, <2>3 DEF Authenticate
      <3> QED  BY <1>2, <3>1, <3>2 DEF Verify, Answer, Results
    <2>4. CASE Status(entry, day) = "Passwordless"
      <3>1. CASE policy.allow_empty_password /\ typed = ""
        <4>1. Authenticate(policy, entry, day, typed) = Answer("Granted", 0)
          BY <1>2, <2>4, <3>1 DEF Authenticate
        <4>2. EntryOpen(entry, day)
          BY <2>1, <2>4, <3>1, PasswordlessIsOpen
        <4> QED  BY <1>2, <4>1, <4>2 DEF Answer, Results
      <3>2. CASE ~ (policy.allow_empty_password /\ typed = "")
        <4>1. Authenticate(policy, entry, day, typed)
                 = Answer("PasswordlessNotPermitted", 1)
          BY <1>2, <2>4, <3>2 DEF Authenticate, DeniedAfterEqualWork
        <4> QED  BY <4>1 DEF Answer, Results
      <3> QED  BY <3>1, <3>2
    <2>5. CASE Status(entry, day) \notin {"Usable", "Passwordless"}
      <3>1. Authenticate(policy, entry, day, typed)
               = Answer(Status(entry, day), 1)
        BY <1>2, <2>5 DEF Authenticate, DeniedAfterEqualWork
      <3>2. /\ Status(entry, day) \in Results
            /\ Status(entry, day) # "Granted"
        BY <2>2, <2>5 DEF Statuses, Results
      <3>3. /\ Authenticate(policy, entry, day, typed).result
                  = Status(entry, day)
            /\ Authenticate(policy, entry, day, typed).work = 1
        BY <3>1 DEF Answer
      <3> QED  BY <3>2, <3>3
    <2> QED  BY <2>3, <2>4, <2>5
  <1> QED  BY <1>1, <1>2

-----------------------------------------------------------------------------
(***************************************************************************)
(* The files as they are.                                                  *)
(***************************************************************************)

(* Of one shadow line: the finger opens what some password opens, and the  *)
(* accounts whose hash this build cannot check.                            *)
LEMMA FingerFollowsOnALine ==
    ASSUME AdmissionAssumption, TypeOK,
           NEW entry \in Entries \cup {Absent}, NEW day
    PROVE  Admit(policy, entry, day).result = "Granted"
           <=> \/ \E typed \in Passwords :
                     Authenticate(policy, entry, day, typed).result = "Granted"
               \/ /\ entry # Absent
                  /\ entry.hash \in {"other", "damaged"}
                  /\ Status(entry, day) = "Usable"
  <1>1. CASE entry = Absent
    BY <1>1 DEF Admit, Authenticate, DeniedAfterEqualWork, Answer
  <1>2. CASE entry # Absent
    <2>1. entry \in Entries
      BY <1>2
    <2>2. Status(entry, day) \in Statuses
      BY <2>1, StatusIsOne
    <2>3. entry.hash \in {"", "!", "*", "sha512", "other", "damaged"}
      BY <2>1 DEF AdmissionAssumption, Hashes
    <2>4. CASE Status(entry, day) = "Usable"
      <3>1. entry.hash \in {"sha512", "other", "damaged"}
        BY <2>3, <2>4 DEF Status
      <3>2. Admit(policy, entry, day).result = "Granted"
        BY <1>2, <2>4 DEF Admit, Answer
      <3>3. entry.hash = "sha512" =>
               Authenticate(policy, entry, day, "right").result = "Granted"
        BY <1>2, <2>4 DEF Authenticate, Verify, Answer
      <3>4. "right" \in Passwords
        BY DEF Passwords
      <3> QED  BY <1>2, <2>4, <3>1, <3>2, <3>3, <3>4
    <2>5. CASE Status(entry, day) = "Passwordless"
      <3>1. "" \in Passwords
        BY DEF Passwords
      <3>2. Admit(policy, entry, day).result = "Granted"
            <=> policy.allow_empty_password
        BY <1>2, <2>5 DEF Admit, Answer
      <3>3. \A typed \in Passwords :
               Authenticate(policy, entry, day, typed).result = "Granted"
               <=> policy.allow_empty_password /\ typed = ""
        BY <1>2, <2>5 DEF Authenticate, DeniedAfterEqualWork, Answer
      <3> QED  BY <2>5, <3>1, <3>2, <3>3
    <2>6. CASE Status(entry, day) \notin {"Usable", "Passwordless"}
      BY <1>2, <2>2, <2>6
         DEF Admit, Authenticate, DeniedAfterEqualWork, Answer, Statuses
    <2> QED  BY <2>4, <2>5, <2>6
  <1> QED  BY <1>1, <1>2

LEMMA FollowsFromTypes == AdmissionAssumption /\ TypeOK => FingerFollowsPassword
  <1> SUFFICES ASSUME AdmissionAssumption, TypeOK, NEW name \in Names
               PROVE  LET entry == shadow[name] IN
                      Admit(policy, entry, today).result = "Granted"
                      <=> \/ \E typed \in Passwords :
                                Authenticate(policy, entry, today, typed).result
                                   = "Granted"
                          \/ /\ entry # Absent
                             /\ entry.hash \in {"other", "damaged"}
                             /\ Status(entry, today) = "Usable"
    BY Zenon DEF FingerFollowsPassword
  <1>1. shadow[name] \in Entries \cup {Absent}
    BY DEF TypeOK
  <1> QED  BY <1>1, FingerFollowsOnALine

-----------------------------------------------------------------------------
(***************************************************************************)
(* The attempt.                                                            *)
(***************************************************************************)
LEMMA IdleTyped == AdmissionAssumption => Idle \in Attempts
  <1>1. AdmissionAssumption => 0 \in 0..MaxDay
    BY DEF AdmissionAssumption
  <1>2. "none" \in Results
    BY DEF Results
  <1> QED  BY <1>1, <1>2 DEF Idle, Attempts, Proofs, Passwords

LEMMA InitHolds == AdmissionAssumption /\ Init => IInv
  <1> SUFFICES ASSUME AdmissionAssumption, Init PROVE IInv
    OBVIOUS
  <1>1. attempt = Idle /\ attempt.stage = "idle"
    BY DEF Init, Idle
  <1>2. TypeOK
    BY <1>1, IdleTyped DEF Init, TypeOK, AdmissionAssumption
  <1>3. Underwritten /\ Paid
    BY <1>1 DEF Underwritten, Underway, ClosedStaysOut, Granted, Paid
  <1> QED  BY <1>2, <1>3 DEF IInv

(* Every step of an attempt and every edit keeps the types. *)
LEMMA TypesKept ==
    ASSUME AdmissionAssumption, AccountsAssumption, TypeOK, [Next]_vars
    PROVE  TypeOK'
  <1> USE DEF AdmissionAssumption
  <1>1. ASSUME NEW by \in Proofs, NEW name \in Names, NEW typed \in Passwords,
               Begin(by, name, typed)
        PROVE  TypeOK'
    <2>1. attempt' \in Attempts /\ attempt'.name \in Names
      BY <1>1 DEF Begin, TypeOK, Attempts, Results
    <2>2. opened' \subseteq {"passwd", "shadow"}
      BY <1>1 DEF Begin, OpenNow
    <2> QED  BY <1>1, <2>1, <2>2 DEF Begin, TypeOK
  <1>2. ASSUME ReadPasswd PROVE TypeOK'
    <2>1. /\ attempt \in Attempts
          /\ attempt.name \in Names
          /\ passwd[attempt.name] \in Lines \cup {Absent}
      BY <1>2 DEF ReadPasswd, TypeOK
    <2>2. PasswdDenial(policy, passwd[attempt.name]) \in
             {"none", "NoSuchUser", "RootNotPermitted", "NotAPerson"}
      BY DEF PasswdDenial
    <2>3. attempt' \in Attempts /\ attempt'.name = attempt.name
      <3>1. CASE PasswdDenial(policy, passwd[attempt.name]) = "none"
        BY <1>2, <2>1, <3>1 DEF ReadPasswd, Attempts
      <3>2. CASE PasswdDenial(policy, passwd[attempt.name]) # "none"
        <4>1. PasswdDenial(policy, passwd[attempt.name]) \in Results
          BY <2>2 DEF Results
        <4>0. \E n \in 0..1 :
                 Answered(Answer(PasswdDenial(policy, passwd[attempt.name]),
                                 n))
          BY <1>2, <3>2 DEF ReadPasswd, DeniedAfterEqualWork
        <4>2. PICK n \in 0..1 :
                 attempt' = [attempt EXCEPT !.stage = "answered",
                    !.result = PasswdDenial(policy, passwd[attempt.name]),
                    !.work = n]
          BY <4>0 DEF Answered, Answer
        <4> QED  BY <2>1, <4>1, <4>2 DEF Attempts
      <3> QED  BY <3>1, <3>2
    <2> QED  BY <1>2, <2>1, <2>3 DEF ReadPasswd, TypeOK
  <1>3. ASSUME ReadShadow PROVE TypeOK'
    <2> DEFINE entry == shadow[attempt.name]
    <2>1. /\ attempt \in Attempts
          /\ attempt.name \in Names
          /\ attempt.day \in Int
          /\ attempt.typed \in Passwords
          /\ entry \in Entries \cup {Absent}
      BY <1>3 DEF ReadShadow, TypeOK, Attempts
    <2> DEFINE given == IF attempt.by = "password"
                        THEN Authenticate(policy, entry, attempt.day,
                                          attempt.typed)
                        ELSE Admit(policy, entry, attempt.day)
    <2>2. given.result \in Results /\ given.work \in 0..1
      BY <2>1, AdmitAnswers, AuthenticateAnswers
    <2>3. Answered(given)
      BY <1>3 DEF ReadShadow
    <2> HIDE DEF given
    <2>4. attempt' \in Attempts /\ attempt'.name = attempt.name
      BY <2>1, <2>2, <2>3 DEF Answered, Attempts
    <2> QED  BY <1>3, <2>1, <2>4 DEF ReadShadow, TypeOK
  <1>4. ASSUME ReadFails PROVE TypeOK'
    BY <1>4 DEF ReadFails, Underway, TypeOK, Attempts
  <1>5. ASSUME Done PROVE TypeOK'
    <2>1. Idle \in Attempts /\ Idle.stage = "idle"
      BY IdleTyped DEF Idle
    <2> QED  BY <1>5, <2>1 DEF Done, TypeOK
  <1>6. ASSUME NEW name \in Names, NEW line \in Lines \cup {Absent},
               EditPasswd(name, line)
        PROVE  TypeOK'
    <2>1. opened' \subseteq {"passwd", "shadow"}
      BY <1>6 DEF EditPasswd, Watch, OpenNow, TypeOK
    <2> QED  BY <1>6, <2>1 DEF EditPasswd, TypeOK
  <1>7. ASSUME NEW name \in Names, NEW entry \in Entries \cup {Absent},
               EditShadow(name, entry)
        PROVE  TypeOK'
    <2>1. opened' \subseteq {"passwd", "shadow"}
      BY <1>7 DEF EditShadow, Watch, OpenNow, TypeOK
    <2> QED  BY <1>7, <2>1 DEF EditShadow, TypeOK
  <1>8. ASSUME Midnight PROVE TypeOK'
    BY <1>8 DEF Midnight, TypeOK, Attempts
  <1>9. ASSUME UNCHANGED vars PROVE TypeOK'
    BY <1>9 DEF vars, TypeOK
  <1> QED
    BY <1>1, <1>2, <1>3, <1>4, <1>5, <1>6, <1>7, <1>8, <1>9 DEF Next

(* The history has what the files have shown, and a grant needs both. *)
LEMMA UnderwrittenKept ==
    ASSUME AdmissionAssumption, AccountsAssumption, IInv, [Next]_vars
    PROVE  Underwritten'
  <1>0. TypeOK /\ Underwritten
    BY DEF IInv
  <1>1. ASSUME NEW by \in Proofs, NEW name \in Names, NEW typed \in Passwords,
               Begin(by, name, typed)
        PROVE  Underwritten'
    <2>1. /\ attempt'.stage = "began"
          /\ attempt'.name = name /\ attempt'.day = today
          /\ passwd' = passwd /\ shadow' = shadow /\ policy' = policy
          /\ opened' = OpenNow(passwd, shadow, name, today)
      BY <1>1 DEF Begin
    <2>2. OpenNow(passwd, shadow, attempt.name, attempt.day)' = opened'
      <3>1. LineOpen(passwd[attempt.name])' <=> LineOpen(passwd[name])
        BY <2>1 DEF LineOpen
      <3>2. EntryOpen(shadow[attempt.name], attempt.day)'
               <=> EntryOpen(shadow[name], today)
        BY <2>1 DEF EntryOpen
      <3> QED  BY <2>1, <3>1, <3>2 DEF OpenNow
    <2> QED
      BY <2>1, <2>2 DEF Underwritten, Underway, ClosedStaysOut, Granted
  <1>2. ASSUME ReadPasswd PROVE Underwritten'
    <2>1. /\ attempt.stage = "began" /\ attempt \in Attempts
          /\ attempt.name \in Names
          /\ passwd[attempt.name] \in Lines \cup {Absent}
          /\ opened' = opened /\ passwd' = passwd /\ shadow' = shadow
          /\ policy' = policy
      BY <1>0, <1>2 DEF ReadPasswd, TypeOK
    <2>2. OpenNow(passwd, shadow, attempt.name, attempt.day) \subseteq opened
      BY <1>0, <2>1 DEF Underwritten, Underway
    <2>3. CASE PasswdDenial(policy, passwd[attempt.name]) = "none"
      <3>1. "passwd" \in opened
        BY <1>0, <2>1, <2>2, <2>3, PasswdPasses DEF OpenNow
      <3>2. attempt' = [attempt EXCEPT !.stage = "known"]
        BY <1>2, <2>3 DEF ReadPasswd
      <3>3. /\ attempt'.stage = "known" /\ attempt'.name = attempt.name
            /\ attempt'.day = attempt.day
        BY <2>1, <3>2 DEF Attempts
      <3>4. OpenNow(passwd, shadow, attempt.name, attempt.day)'
               = OpenNow(passwd, shadow, attempt.name, attempt.day)
        BY <2>1, <3>3 DEF OpenNow, LineOpen, EntryOpen
      <3> QED
        BY <2>1, <2>2, <3>1, <3>3, <3>4
           DEF Underwritten, Underway, ClosedStaysOut, Granted
    <2>4. CASE PasswdDenial(policy, passwd[attempt.name]) # "none"
      <3>1. PasswdDenial(policy, passwd[attempt.name]) # "Granted"
        BY DEF PasswdDenial
      <3>2. attempt'.stage = "answered" /\ attempt'.result # "Granted"
        BY <1>2, <2>1, <2>4, <3>1
           DEF ReadPasswd, Answered, DeniedAfterEqualWork, Answer, Attempts
      <3> QED
        BY <3>2 DEF Underwritten, Underway, ClosedStaysOut, Granted
    <2> QED  BY <2>3, <2>4
  <1>3. ASSUME ReadShadow PROVE Underwritten'
    <2> DEFINE entry == shadow[attempt.name]
    <2>1. /\ attempt.stage = "known" /\ attempt \in Attempts
          /\ attempt.name \in Names /\ attempt.day \in Int
          /\ attempt.typed \in Passwords
          /\ entry \in Entries \cup {Absent}
          /\ opened' = opened
      BY <1>0, <1>3 DEF ReadShadow, TypeOK, Attempts
    <2>2. /\ "passwd" \in opened
          /\ OpenNow(passwd, shadow, attempt.name, attempt.day) \subseteq opened
          /\ opened \subseteq {"passwd", "shadow"}
      BY <1>0, <2>1 DEF Underwritten, Underway, TypeOK
    <2> DEFINE given == IF attempt.by = "password"
                        THEN Authenticate(policy, entry, attempt.day,
                                          attempt.typed)
                        ELSE Admit(policy, entry, attempt.day)
    <2>3. given.result = "Granted" => EntryOpen(entry, attempt.day)
      BY <1>0, <2>1, AdmitAnswers, AuthenticateAnswers
    <2>4. given.result = "Granted" => opened = {"passwd", "shadow"}
      BY <2>2, <2>3 DEF OpenNow
    <2>5. Answered(given)
      BY <1>3 DEF ReadShadow
    <2> HIDE DEF given
    <2>6. attempt'.stage = "answered" /\ attempt'.result = given.result
      BY <2>1, <2>5 DEF Answered, Attempts
    <2> QED
      BY <2>1, <2>4, <2>6 DEF Underwritten, Underway, ClosedStaysOut, Granted
  <1>4. ASSUME ReadFails PROVE Underwritten'
    <2>1. attempt'.stage = "failed"
      BY <1>0, <1>4 DEF ReadFails, TypeOK, Attempts
    <2> QED
      BY <2>1 DEF Underwritten, Underway, ClosedStaysOut, Granted
  <1>5. ASSUME Done PROVE Underwritten'
    BY <1>5 DEF Done, Idle, Underwritten, Underway, ClosedStaysOut, Granted
  <1>6. ASSUME attempt' = attempt, policy' = policy, Watch
        PROVE  Underwritten'
    <2>1. CASE Underway
      <3>1. opened' = opened \cup
               OpenNow(passwd', shadow', attempt.name, attempt.day)
        BY <1>6, <2>1 DEF Watch
      <3>2. OpenNow(passwd', shadow', attempt.name, attempt.day)
               = OpenNow(passwd, shadow, attempt.name, attempt.day)'
        BY <1>6 DEF OpenNow, LineOpen, EntryOpen
      <3>3. attempt.stage # "answered"
        BY <2>1 DEF Underway
      <3> QED
        BY <1>0, <1>6, <3>1, <3>2, <3>3
           DEF Underwritten, ClosedStaysOut, Granted
    <2>2. CASE ~ Underway
      <3>1. opened' = opened
        BY <1>6, <2>2 DEF Watch
      <3> QED
        BY <1>0, <1>6, <2>2, <3>1
           DEF Underwritten, Underway, ClosedStaysOut, Granted
    <2> QED  BY <2>1, <2>2
  <1>7. ASSUME NEW name \in Names, NEW line \in Lines \cup {Absent},
               EditPasswd(name, line)
        PROVE  Underwritten'
    BY <1>6, <1>7 DEF EditPasswd
  <1>8. ASSUME NEW name \in Names, NEW entry \in Entries \cup {Absent},
               EditShadow(name, entry)
        PROVE  Underwritten'
    BY <1>6, <1>8 DEF EditShadow
  <1>9. ASSUME UNCHANGED <<policy, passwd, shadow, attempt, opened>>
        PROVE  Underwritten'
    <2>1. OpenNow(passwd, shadow, attempt.name, attempt.day)'
             = OpenNow(passwd, shadow, attempt.name, attempt.day)
      BY <1>9 DEF OpenNow, LineOpen, EntryOpen
    <2> QED
      BY <1>0, <1>9, <2>1 DEF Underwritten, Underway, ClosedStaysOut, Granted
  <1>10. Midnight \/ UNCHANGED vars
            => UNCHANGED <<policy, passwd, shadow, attempt, opened>>
    BY DEF Midnight, vars
  <1> QED
    BY <1>1, <1>2, <1>3, <1>4, <1>5, <1>7, <1>8, <1>9, <1>10 DEF Next

(* Nothing but an answer changes what has been paid for. *)
LEMMA PaidKept ==
    ASSUME AdmissionAssumption, AccountsAssumption, IInv, [Next]_vars
    PROVE  Paid'
  <1>0. TypeOK /\ Paid
    BY DEF IInv
  <1>1. ASSUME NEW by \in Proofs, NEW name \in Names, NEW typed \in Passwords,
               Begin(by, name, typed)
        PROVE  Paid'
    BY <1>1 DEF Begin, Paid
  <1>2. ASSUME ReadPasswd PROVE Paid'
    <2>1. attempt \in Attempts
      BY <1>0 DEF TypeOK
    <2> QED
      BY <1>2, <2>1 DEF ReadPasswd, Paid, Answered, DeniedAfterEqualWork,
                        Answer, Attempts
  <1>3. ASSUME ReadShadow PROVE Paid'
    <2> DEFINE entry == shadow[attempt.name]
    <2>1. /\ attempt.stage = "known" /\ attempt \in Attempts
          /\ attempt.name \in Names /\ attempt.day \in Int
          /\ attempt.typed \in Passwords
          /\ entry \in Entries \cup {Absent}
      BY <1>0, <1>3 DEF ReadShadow, TypeOK, Attempts
    <2> DEFINE given == Authenticate(policy, entry, attempt.day, attempt.typed)
    <2>2. given.result \notin {"Granted", "MalformedHash", "UnsupportedHash"}
             => given.work = 1
      BY <1>0, <2>1, AuthenticateAnswers
    <2>3. attempt.by = "password" => Answered(given)
      BY <1>3 DEF ReadShadow
    <2>4. attempt'.by = attempt.by
      BY <1>3, <2>1 DEF ReadShadow, Answered, Attempts
    <2> HIDE DEF given
    <2>5. attempt.by = "password" =>
             attempt'.result = given.result /\ attempt'.work = given.work
      BY <2>1, <2>3 DEF Answered, Attempts
    <2> QED  BY <2>2, <2>4, <2>5 DEF Paid
  <1>4. ASSUME ReadFails PROVE Paid'
    <2>1. attempt'.stage = "failed"
      BY <1>0, <1>4 DEF ReadFails, TypeOK, Attempts
    <2> QED  BY <2>1 DEF Paid
  <1>5. ASSUME Done PROVE Paid'
    BY <1>5 DEF Done, Idle, Paid
  <1>6. ASSUME UNCHANGED attempt PROVE Paid'
    BY <1>0, <1>6 DEF Paid
  <1> QED
    BY <1>1, <1>2, <1>3, <1>4, <1>5, <1>6
       DEF Next, EditPasswd, EditShadow, Midnight, vars

(* The invariant is inductive. *)
LEMMA Inductive ==
    ASSUME AdmissionAssumption, AccountsAssumption
    PROVE  Spec => []IInv
  <1>1. Init => IInv
    BY InitHolds
  <1>2. IInv /\ [Next]_vars => IInv'
    BY TypesKept, UnderwrittenKept, PaidKept DEF IInv
  <1> QED  BY <1>1, <1>2, PTL DEF Spec

-----------------------------------------------------------------------------
(***************************************************************************)
(* The theorems.                                                           *)
(***************************************************************************)

(* The files, the attempt and its history keep their types. *)
THEOREM AdmissionTypes == Spec => []TypeOK
  <1>1. IInv => TypeOK
    BY DEF IInv
  <1> QED  BY <1>1, Inductive, AdmissionAssumption, AccountsAssumption, PTL

(* Nobody is let in whom one of the files shut out for the whole of the    *)
(* attempt, whatever the administrator edits between its reads.            *)
THEOREM ClosedAccountsStayOut == Spec => []ClosedStaysOut
  <1>1. IInv => ClosedStaysOut
    BY DEF IInv, Underwritten
  <1> QED  BY <1>1, Inductive, AdmissionAssumption, AccountsAssumption, PTL

(* A password refused with the common sentence has cost one hash. *)
THEOREM RefusalsCost == Spec => []RefusalsCostTheSame
  <1>1. IInv => RefusalsCostTheSame
    BY DEF IInv, Paid, RefusalsCostTheSame, Granted, Message, IsSafeToDisplay
  <1> QED  BY <1>1, Inductive, AdmissionAssumption, AccountsAssumption, PTL

(* On the files as they are at any moment, a finger opens what some        *)
(* password opens, and what only this build's missing schemes keep shut.   *)
THEOREM FingerFollows == Spec => []FingerFollowsPassword
  <1>1. AdmissionAssumption /\ TypeOK => FingerFollowsPassword
    BY FollowsFromTypes
  <1>2. IInv => FingerFollowsPassword
    BY <1>1, AdmissionAssumption DEF IInv
  <1> QED  BY <1>2, Inductive, AdmissionAssumption, AccountsAssumption, PTL

-----------------------------------------------------------------------------
(***************************************************************************)
(* The greeter, for any accounts and any length of its channels.  `w` is   *)
(* the account whose proof was accepted, `l` whether an older request's    *)
(* grant was read.                                                         *)
(***************************************************************************)
Watches == [account : Accounts \cup {Nobody}, inbox : Seq(Events),
            open : BOOLEAN]
Pairs == [screen : Screens, watch : [Sensors -> Watches]]

(* A match waiting in a channel is the one that won, of whoever is watched *)
(* there; only the camera washes.                                          *)
ChannelOf(record, s, w) ==
    \A i \in 1 .. Len(record.inbox) :
        /\ record.inbox[i] = "granted" => w = record.account
        /\ record.inbox[i] \in {"wash", "unwash"} => s = "face"

ScreenRight(s, w, l) ==
    /\ s \in Screens
    /\ s.users = 0 \/ s.selected < s.users
    /\ s.dismissing => /\ s.busy
                       /\ l \/ (w = Current(s) /\ w # Nobody)

Shown(s, watched) ==
    /\ s.flash => watched["face"] # NoWatch
    /\ ~ s.dismissing =>
          \A x \in Sensors : s.row[x] # "none" => watched[x] # NoWatch

(* What holds between the screen and the watches at any moment, but for    *)
(* whom they are for; and that a sensor is watched for who is selected.    *)
Sound(v, w, l) ==
    /\ v \in Pairs
    /\ ScreenRight(v.screen, w, l)
    /\ \A s \in Sensors : ChannelOf(v.watch[s], s, w)
    /\ Shown(v.screen, v.watch)

For(v, s) ==
    v.watch[s] # NoWatch => /\ v.watch[s].account = Current(v.screen)
                            /\ Current(v.screen) # Nobody

Good(v, w, l) == Sound(v, w, l) /\ \A s \in Sensors : For(v, s)

SameUser(u, v) == /\ v.screen.users = u.screen.users
                  /\ v.screen.selected = u.screen.selected

(* What was asked in the exchange under way, and what has come back.       *)
CallRight ==
    call.stage # "none" =>
       /\ call.account = Current(screen)
       /\ call.account # Nobody
       /\ \A i \in 1 .. Len(conn.asked) :
             conn.asked[i].own => conn.asked[i].account = call.account
       /\ \A i \in 1 .. Len(conn.said) :
             conn.said[i].own /\ conn.said[i].verdict = "Granted"
             => winner = call.account

ConnRight ==
    /\ ~ conn.up => conn.asked = <<>>
    /\ winner # Nobody => strays = {}

GreeterInv ==
    /\ GreeterTypeOK
    /\ Good(Pair, winner, late)
    /\ CallRight
    /\ ConnRight

-----------------------------------------------------------------------------
(* Loops.  The provers have no induction over numbers that they can be     *)
(* told the predicate of; a set of numbers will do, as will a function for *)
(* what a loop does at each turn.                                          *)

LEMMA LeastElement ==
    ASSUME NEW N \in SUBSET Nat, N # {}
    PROVE  \E m \in N : \A k \in N : m <= k
  <1> DEFINE upto == {1 .. k : k \in N}
  <1>1. upto \subseteq FiniteSubsetsOf(Nat) /\ upto # {}
    <2>1. ASSUME NEW k \in N PROVE 1 .. k \in FiniteSubsetsOf(Nat)
      <3>1. IsFiniteSet(1 .. k)
        BY FS_Interval
      <3>2. 1 .. k \in SUBSET Nat
        OBVIOUS
      <3> QED
        BY <3>1, <3>2 DEF FiniteSubsetsOf
    <2> QED
      BY <2>1
  <1>2. PICK x \in upto : \A y \in upto : <<y, x>> \notin StrictSubsetOrdering(Nat)
    <2> HIDE DEF upto
    <2> QED
      BY <1>1, FS_StrictSubsetOrderingWellFounded, WFMin
  <1>3. PICK m \in N : x = 1 .. m
    OBVIOUS
  <1>4. ASSUME NEW k \in N, k < m PROVE FALSE
    <2>1. 1 .. k \in upto
      OBVIOUS
    <2>2. 1 .. k \in SUBSET Nat /\ x \in SUBSET Nat
      BY <1>3
    <2>3. 1 .. k \subseteq x /\ 1 .. k # x
      <3>1. m \in x /\ m \notin 1 .. k
        BY <1>3, <1>4
      <3> QED
        BY <1>3, <1>4, <3>1
    <2> HIDE DEF upto
    <2> QED
      BY <1>2, <2>1, <2>2, <2>3 DEF StrictSubsetOrdering
  <1> QED
    BY <1>4

(* What holds before the first turn, and after a turn if before it, holds  *)
(* after every one.                                                        *)
LEMMA TurnByTurn ==
    ASSUME NEW n \in Nat, NEW N, 0 \in N,
           \A i \in 1 .. n : i - 1 \in N => i \in N
    PROVE  0 .. n \subseteq N
  <1> DEFINE M == {i \in 0 .. n : i \notin N}
  <1>1. SUFFICES ASSUME M # {} PROVE FALSE
    OBVIOUS
  <1>2. PICK m \in M : \A k \in M : m <= k
    <2>1. M \in SUBSET Nat
      OBVIOUS
    <2> HIDE DEF M
    <2> QED
      BY <1>1, <2>1, LeastElement
  <1>3. m \in 1 .. n /\ m - 1 \in 0 .. n
    OBVIOUS
  <1>4. m - 1 \in N
    BY <1>2, <1>3
  <1> QED
    BY <1>3, <1>4

(* The states a loop goes through, when each turn is a function of the     *)
(* state before it.                                                        *)
LEMMA LoopRuns ==
    ASSUME NEW S, NEW first \in S, NEW n \in Nat,
           NEW turn \in [1 .. n -> [S -> S]]
    PROVE  \E f \in [0 .. n -> S] :
              /\ f[0] = first
              /\ \A i \in 1 .. n : f[i] = turn[i][f[i - 1]]
  <1> DEFINE Runs(f, m) ==
                /\ f \in [0 .. m -> S]
                /\ f[0] = first
                /\ \A i \in 1 .. m : f[i] = turn[i][f[i - 1]]
             N == {m \in 0 .. n : \E f : Runs(f, m)}
  <1>1. 0 \in N
    <2> DEFINE g == [i \in 0 .. 0 |-> first]
    <2>1. /\ g \in [0 .. 0 -> S]
          /\ g[0] = first
          /\ \A i \in 1 .. 0 : g[i] = turn[i][g[i - 1]]
      OBVIOUS
    <2>2. \E f : Runs(f, 0)
      <3> HIDE DEF g
      <3> QED
        BY <2>1
    <2> QED
      BY <2>2
  <1>2. ASSUME NEW m \in 1 .. n, m - 1 \in N PROVE m \in N
    <2>1. PICK f : Runs(f, m - 1)
      BY <1>2
    <2> DEFINE g == [i \in 0 .. m |-> IF i = m THEN turn[m][f[m - 1]] ELSE f[i]]
    <2>2. turn[m] \in [S -> S] /\ f[m - 1] \in S
      BY <2>1
    <2>3. \A i \in 0 .. m : i = m \/ i \in 0 .. (m - 1)
      OBVIOUS
    <2>4. g \in [0 .. m -> S]
      BY <2>1, <2>2, <2>3
    <2>5. g[0] = first
      BY <2>1
    <2>6. ASSUME NEW i \in 1 .. m PROVE g[i] = turn[i][g[i - 1]]
      <3>1. i \in 0 .. m /\ i - 1 \in 0 .. m /\ i - 1 # m
        OBVIOUS
      <3>2. CASE i = m
        BY <3>1, <3>2
      <3>3. CASE i # m
        <4>1. i \in 1 .. (m - 1)
          BY <3>3
        <4> QED
          BY <2>1, <3>1, <3>3, <4>1
      <3> QED
        BY <3>2, <3>3
    <2>7. Runs(g, m)
      BY <2>4, <2>5, <2>6
    <2>8. \E h : Runs(h, m)
      <3> HIDE DEF g, Runs
      <3> QED
        BY <2>7
    <2> QED
      BY <2>8
  <1>3. n \in N
    <2>1. 0 .. n \subseteq N
      <3> HIDE DEF N
      <3> QED
        BY <1>1, <1>2, TurnByTurn
    <2> QED
      BY <2>1
  <1> QED
    BY <1>3


(* Draining a channel keeps what hearing each of its events keeps          *)
(* (main.rs:428-495).                                                      *)
LEMMA DrainKeeps ==
    ASSUME NEW u, NEW s \in Sensors, NEW T,
           Len(u.watch[s].inbox) \in Nat,
           [u EXCEPT !.watch[s].inbox = <<>>] \in T,
           \A v \in T : \A i \in 1 .. Len(u.watch[s].inbox) :
              Hear(v, s, u.watch[s].inbox[i]) \in T
    PROVE  Drain(u, s) \in T
  <1> DEFINE inbox == u.watch[s].inbox
             n == Len(inbox)
             first == [u EXCEPT !.watch[s].inbox = <<>>]
             Turns(g) == g = [i \in 0 .. n |->
                                IF i = 0 THEN first ELSE Hear(g[i - 1], s, inbox[i])]
             heard == CHOOSE g : Turns(g)
             turn == [i \in 1 .. n |-> [v \in T |-> Hear(v, s, inbox[i])]]
  <1>1. Drain(u, s) = heard[n]
    BY DEF Drain
  <1>2. first \in T /\ n \in Nat
    OBVIOUS
  <1>3. turn \in [1 .. n -> [T -> T]]
    <2> HIDE DEF first
    <2> QED
      OBVIOUS
  <1>4. \E g : Turns(g)
    <2>1. PICK f \in [0 .. n -> T] :
             /\ f[0] = first
             /\ \A i \in 1 .. n : f[i] = turn[i][f[i - 1]]
      <3> HIDE DEF first, turn, n
      <3> QED
        BY <1>2, <1>3, LoopRuns
    <2>2. ASSUME NEW i \in 0 .. n
          PROVE  f[i] = IF i = 0 THEN first ELSE Hear(f[i - 1], s, inbox[i])
      <3>1. CASE i = 0
        BY <2>1, <3>1
      <3>2. CASE i # 0
        <4>1. i \in 1 .. n /\ i - 1 \in 0 .. n
          BY <1>2, <3>2
        <4>2. f[i - 1] \in T
          BY <2>1, <4>1
        <4>3. turn[i][f[i - 1]] = Hear(f[i - 1], s, inbox[i])
          BY <4>1, <4>2
        <4> HIDE DEF turn, first, n, inbox
        <4> QED
          BY <2>1, <3>2, <4>1, <4>3
      <3> QED
        BY <3>1, <3>2
    <2>3. f = [i \in 0 .. n |-> f[i]]
      BY <2>1
    <2>4. Turns(f)
      <3> HIDE DEF first, n, inbox, turn
      <3> QED
        BY <2>2, <2>3
    <2> HIDE DEF Turns
    <2> QED
      BY <2>4
  <1>5. Turns(heard)
    <2> HIDE DEF Turns
    <2> QED
      BY <1>4
  <1>6. 0 .. n \subseteq {i \in 0 .. n : heard[i] \in T}
    <2> DEFINE N == {i \in 0 .. n : heard[i] \in T}
    <2> HIDE DEF heard
    <2>1. 0 \in N
      BY <1>2, <1>5
    <2>2. ASSUME NEW i \in 1 .. n, i - 1 \in N PROVE i \in N
      <3>1. i \in 0 .. n /\ i # 0
        BY <1>2
      <3>2. heard[i] = Hear(heard[i - 1], s, inbox[i])
        <4> HIDE DEF first, inbox, n
        <4> QED
          BY <1>5, <3>1
      <3> QED
        BY <2>2, <3>1, <3>2
    <2> HIDE DEF N
    <2>3. 0 .. n \subseteq N
      BY <1>2, <2>1, <2>2, TurnByTurn
    <2> QED
      BY <2>3 DEF N
  <1> QED
    <2> HIDE DEF heard, n
    <2> QED
      BY <1>1, <1>2, <1>6
(* A watch over: its row and the wash it brought go with it. *)
LEMMA UnwatchKeeps ==
    ASSUME NEW v, NEW w, NEW l, Sound(v, w, l), NEW s \in Sensors
    PROVE  /\ Sound(Unwatch(v, s), w, l)
           /\ SameUser(v, Unwatch(v, s))
           /\ Unwatch(v, s).watch[s] = NoWatch
           /\ \A x \in Sensors \ {s} : Unwatch(v, s).watch[x] = v.watch[x]
           /\ Unwatch(v, s).screen.row[s] = "none"
           /\ Unwatch(v, s).screen.dismissing = v.screen.dismissing
  <1> DEFINE o == Unwatch(v, s)
             bare == [v.screen EXCEPT !.row[s] = "none"]
  <1>1. v \in Pairs /\ v.screen \in Screens /\ v.watch \in [Sensors -> Watches]
    BY DEF Sound, Pairs
  <1>2. NoWatch \in Watches /\ Len(NoWatch.inbox) = 0
    BY DEF NoWatch, Watches
  <1>3. /\ o.watch = [v.watch EXCEPT ![s] = NoWatch]
        /\ o.screen = IF s = "face" THEN [bare EXCEPT !.flash = FALSE] ELSE bare
        /\ o = [screen |-> o.screen, watch |-> o.watch]
    BY DEF Unwatch, SetBiometric, SetFlash
  <1>4. /\ o.watch \in [Sensors -> Watches]
        /\ o.watch[s] = NoWatch
        /\ \A x \in Sensors \ {s} : o.watch[x] = v.watch[x]
    BY <1>1, <1>2, <1>3
  <1>5. /\ o.screen \in Screens
        /\ o.screen.users = v.screen.users
        /\ o.screen.selected = v.screen.selected
        /\ o.screen.busy = v.screen.busy
        /\ o.screen.dismissing = v.screen.dismissing
        /\ o.screen.row = [v.screen.row EXCEPT ![s] = "none"]
        /\ o.screen.flash = IF s = "face" THEN FALSE ELSE v.screen.flash
    <2> DEFINE row == [v.screen.row EXCEPT ![s] = "none"]
    <2>1. row \in [Sensors -> Rows]
      BY <1>1 DEF Screens, Rows
    <2>2. /\ bare = [v.screen EXCEPT !.row = row]
          /\ o.screen = IF s = "face" THEN [bare EXCEPT !.flash = FALSE] ELSE bare
      BY <1>3
    <2>3. v.screen \in Screens
      BY <1>1
    <2>4. /\ bare \in Screens
          /\ bare.row = row
          /\ bare.users = v.screen.users /\ bare.selected = v.screen.selected
          /\ bare.busy = v.screen.busy /\ bare.dismissing = v.screen.dismissing
          /\ bare.flash = v.screen.flash
      <3> HIDE DEF row
      <3> QED
        BY <2>1, <2>2, <2>3 DEF Screens
    <2> HIDE DEF o, bare, row
    <2>5. /\ o.screen \in Screens
          /\ o.screen.row = row
          /\ o.screen.users = v.screen.users
          /\ o.screen.selected = v.screen.selected
          /\ o.screen.busy = v.screen.busy
          /\ o.screen.dismissing = v.screen.dismissing
          /\ o.screen.flash = IF s = "face" THEN FALSE ELSE v.screen.flash
      <3>1. CASE s = "face"
        BY <2>2, <2>4, <3>1 DEF Screens
      <3>2. CASE s # "face"
        BY <2>2, <2>4, <3>2
      <3> QED
        BY <3>1, <3>2
    <2> QED
      BY <2>5 DEF row
  <1>6. /\ o.screen.row[s] = "none"
        /\ \A x \in Sensors \ {s} : o.screen.row[x] = v.screen.row[x]
    BY <1>1, <1>5 DEF Screens
  <1>7. o \in Pairs
    BY <1>3, <1>4, <1>5 DEF Pairs
  <1>8. Current(o.screen) = Current(v.screen)
    BY <1>5 DEF Current
  <1> HIDE DEF o, bare
  <1>9. ScreenRight(o.screen, w, l)
    BY <1>5, <1>8 DEF Sound, ScreenRight
  <1>10. \A x \in Sensors : ChannelOf(o.watch[x], x, w)
    BY <1>2, <1>4 DEF Sound, ChannelOf
  <1>11. Shown(o.screen, o.watch)
    <2>1. o.screen.flash => o.watch["face"] # NoWatch
      BY <1>4, <1>5 DEF Sound, Shown, Sensors
    <2>2. ASSUME ~ o.screen.dismissing, NEW x \in Sensors, o.screen.row[x] # "none"
          PROVE  o.watch[x] # NoWatch
      BY <1>4, <1>5, <1>6, <2>2 DEF Sound, Shown
    <2> QED
      BY <2>1, <2>2 DEF Shown
  <1> QED
    BY <1>4, <1>5, <1>6, <1>7, <1>9, <1>10, <1>11 DEF Sound, SameUser, o

(* Someone recognised: the screen leaves, for the account that won. *)
LEMMA RecognisedKeeps ==
    ASSUME NEW v, NEW w, NEW l, Good(v, w, l), NEW s \in Sensors,
           w = Current(v.screen), w # Nobody
    PROVE  Good(Recognised(v, s), w, l) /\ SameUser(v, Recognised(v, s))
  <1> DEFINE o == Recognised(v, s)
  <1>1. v \in Pairs /\ v.screen \in Screens /\ v.watch \in [Sensors -> Watches]
    BY DEF Good, Sound, Pairs
  <1>2. NoWatch \in Watches /\ Len(NoWatch.inbox) = 0
    BY DEF NoWatch, Watches
  <1>3. /\ o.watch = IF s = "finger" THEN [x \in Sensors |-> NoWatch]
                     ELSE [v.watch EXCEPT !["face"] = NoWatch]
        /\ o.screen = [v.screen EXCEPT !.row[s] = "accepted", !.flash = FALSE,
                                       !.busy = TRUE, !.dismissing = TRUE]
        /\ o = [screen |-> o.screen, watch |-> o.watch]
    BY DEF Recognised, Dismiss, SetBiometric, SetFlash
  <1>4. /\ o.watch \in [Sensors -> Watches]
        /\ \A x \in Sensors : o.watch[x] \in {NoWatch, v.watch[x]}
    BY <1>1, <1>2, <1>3
  <1>5. /\ o.screen \in Screens
        /\ o.screen.users = v.screen.users
        /\ o.screen.selected = v.screen.selected
        /\ o.screen.busy = TRUE
        /\ o.screen.dismissing = TRUE
        /\ o.screen.flash = FALSE
    <2> DEFINE row == [v.screen.row EXCEPT ![s] = "accepted"]
    <2>1. row \in [Sensors -> Rows]
      BY <1>1 DEF Screens, Rows
    <2>2. o.screen = [v.screen EXCEPT !.row = row, !.flash = FALSE,
                                      !.busy = TRUE, !.dismissing = TRUE]
      BY <1>3
    <2>3. v.screen \in Screens
      BY <1>1
    <2> HIDE DEF o, row
    <2> QED
      BY <2>1, <2>2, <2>3 DEF Screens
  <1>6. o \in Pairs
    BY <1>3, <1>4, <1>5 DEF Pairs
  <1>7. Current(o.screen) = Current(v.screen)
    BY <1>5 DEF Current
  <1> HIDE DEF o
  <1>8. ScreenRight(o.screen, w, l)
    BY <1>5, <1>7 DEF Good, Sound, ScreenRight
  <1>9. \A x \in Sensors : ChannelOf(o.watch[x], x, w)
    BY <1>2, <1>4 DEF Good, Sound, ChannelOf
  <1>10. Shown(o.screen, o.watch)
    BY <1>5 DEF Shown
  <1>11. \A x \in Sensors : For(o, x)
    BY <1>4, <1>7 DEF Good, For
  <1> QED
    BY <1>5, <1>6, <1>8, <1>9, <1>10, <1>11 DEF Good, Sound, SameUser, o

(* A sensor's row or the wash changed, while the sensor is watched. *)
LEMMA ScreenKeeps ==
    ASSUME NEW v, NEW w, NEW l, Good(v, w, l), NEW t \in Screens,
           t.users = v.screen.users, t.selected = v.screen.selected,
           t.busy = v.screen.busy, t.dismissing = v.screen.dismissing,
           Shown(t, v.watch)
    PROVE  /\ Good([v EXCEPT !.screen = t], w, l)
           /\ SameUser(v, [v EXCEPT !.screen = t])
  <1> DEFINE o == [v EXCEPT !.screen = t]
  <1>1. v \in Pairs
    BY DEF Good, Sound
  <1>2. o \in Pairs /\ o.screen = t /\ o.watch = v.watch
    BY <1>1 DEF Pairs
  <1>3. Current(t) = Current(v.screen)
    BY DEF Current
  <1> HIDE DEF o
  <1>4. ScreenRight(t, w, l)
    BY <1>3 DEF Good, Sound, ScreenRight
  <1>5. \A x \in Sensors : For(o, x)
    BY <1>2, <1>3 DEF Good, For
  <1> QED
    BY <1>2, <1>4, <1>5 DEF Good, Sound, SameUser, o

(* One event drained. *)
LEMMA HearKeeps ==
    ASSUME NEW v, NEW w, NEW l, Good(v, w, l), NEW s \in Sensors, NEW event,
           event = "granted" /\ v.watch[s] # NoWatch => w = Current(v.screen),
           event \in {"wash", "unwash"} => s = "face"
    PROVE  Good(Hear(v, s, event), w, l) /\ SameUser(v, Hear(v, s, event))
  <1> DEFINE o == Hear(v, s, event)
  <1>1. v.screen \in Screens
    BY DEF Good, Sound, Pairs
  <1>2. CASE v.watch[s] = NoWatch
    BY <1>2 DEF Hear, SameUser
  <1>3. CASE v.watch[s] # NoWatch /\ event = "prompt"
    <2> DEFINE t == SetBiometric(v.screen, s, "prompt")
    <2>1. o = [v EXCEPT !.screen = t]
      BY <1>3 DEF Hear
    <2>2. /\ t \in Screens
          /\ t.users = v.screen.users /\ t.selected = v.screen.selected
          /\ t.busy = v.screen.busy /\ t.dismissing = v.screen.dismissing
          /\ t.flash = v.screen.flash
          /\ \A x \in Sensors : x # s => t.row[x] = v.screen.row[x]
      BY <1>1 DEF SetBiometric, Screens, Rows
    <2> HIDE DEF t
    <2>3. Shown(t, v.watch)
      BY <1>3, <2>2 DEF Shown, Good, Sound
    <2> QED
      BY <2>1, <2>2, <2>3, ScreenKeeps
  <1>4. CASE v.watch[s] # NoWatch /\ event \in {"wash", "unwash"}
    <2> DEFINE t == SetFlash(v.screen, event = "wash")
    <2>1. o = [v EXCEPT !.screen = t]
      BY <1>4 DEF Hear
    <2>2. /\ t \in Screens
          /\ t.users = v.screen.users /\ t.selected = v.screen.selected
          /\ t.busy = v.screen.busy /\ t.dismissing = v.screen.dismissing
          /\ t.row = v.screen.row
      BY <1>1 DEF SetFlash, Screens
    <2> HIDE DEF t
    <2>3. Shown(t, v.watch)
      BY <1>4, <2>2 DEF Shown, Good, Sound
    <2> QED
      BY <2>1, <2>2, <2>3, ScreenKeeps
  <1>5. CASE v.watch[s] # NoWatch /\ event = "granted"
    <2>1. o = Recognised(v, s)
      BY <1>5 DEF Hear
    <2>2. w = Current(v.screen) /\ w # Nobody
      BY <1>5 DEF Good, For
    <2> QED
      BY <2>1, <2>2, RecognisedKeeps
  <1>6. CASE v.watch[s] # NoWatch /\ event \notin {"prompt", "wash", "unwash", "granted"}
    <2>1. o = Unwatch(v, s)
      BY <1>6 DEF Hear
    <2>2. Sound(v, w, l)
      BY DEF Good
    <2>3. \A x \in Sensors : For(Unwatch(v, s), x)
      <3>1. Current(Unwatch(v, s).screen) = Current(v.screen)
        BY <2>2, UnwatchKeeps DEF SameUser, Current
      <3> QED
        BY <2>2, <3>1, UnwatchKeeps DEF Good, For
    <2> QED
      BY <2>1, <2>2, <2>3, UnwatchKeeps DEF Good
  <1> QED
    BY <1>2, <1>3, <1>4, <1>5, <1>6

(* A channel drained, and both. *)
LEMMA DrainGood ==
    ASSUME NEW u, NEW w, NEW l, Good(u, w, l), NEW s \in Sensors
    PROVE  Good(Drain(u, s), w, l) /\ SameUser(u, Drain(u, s))
  <1> DEFINE T == {v \in Pairs : Good(v, w, l) /\ SameUser(u, v)}
             inbox == u.watch[s].inbox
             bare == [u EXCEPT !.watch[s].inbox = <<>>]
  <1>1. /\ u \in Pairs /\ u.watch \in [Sensors -> Watches]
        /\ u.watch[s] \in Watches /\ inbox \in Seq(Events) /\ Len(inbox) \in Nat
    BY DEF Good, Sound, Pairs, Watches
  <1>2. /\ bare.screen = u.screen
        /\ bare.watch = [u.watch EXCEPT ![s].inbox = <<>>]
        /\ bare \in Pairs
    <2> DEFINE record == [u.watch[s] EXCEPT !.inbox = <<>>]
    <2>1. record \in Watches
      <3>1. <<>> \in Seq(Events)
        OBVIOUS
      <3>2. ASSUME NEW r \in Watches, NEW e \in Seq(Events)
            PROVE  [r EXCEPT !.inbox = e] \in Watches
        BY DEF Watches
      <3> QED
        BY <1>1, <3>1, <3>2
    <2>2. bare = [u EXCEPT !.watch = [u.watch EXCEPT ![s] = record]]
      OBVIOUS
    <2>3. [u.watch EXCEPT ![s] = record] \in [Sensors -> Watches]
      <3> HIDE DEF record
      <3> QED
        BY <1>1, <2>1
    <2>4. /\ bare.screen = u.screen
          /\ bare.watch = [u.watch EXCEPT ![s] = record]
          /\ bare \in Pairs
      <3> HIDE DEF record, bare
      <3> QED
        BY <1>1, <2>2, <2>3 DEF Pairs
    <2> HIDE DEF bare, record
    <2> QED
      BY <2>4 DEF record
  <1>3. /\ \A x \in Sensors \ {s} : bare.watch[x] = u.watch[x]
        /\ bare.watch[s].account = u.watch[s].account
        /\ bare.watch[s].inbox = <<>>
        /\ u.watch[s] = NoWatch => bare.watch[s] = NoWatch
        /\ bare.watch[s] = NoWatch => u.watch[s].account = Nobody
    BY <1>1, <1>2 DEF Watches, NoWatch
  <1>4. Good(bare, w, l) /\ SameUser(u, bare)
    <2> HIDE DEF bare, inbox
    <2>1. \A x \in Sensors : For(bare, x)
      BY <1>2, <1>3 DEF Good, For
    <2>2. \A x \in Sensors : bare.watch[x] = NoWatch <=> u.watch[x] = NoWatch
      BY <1>2, <1>3 DEF Good, For
    <2>3. Shown(bare.screen, bare.watch)
      BY <1>2, <2>2 DEF Good, Sound, Shown, Sensors
    <2>4. \A x \in Sensors : ChannelOf(bare.watch[x], x, w)
      BY <1>3 DEF Good, Sound, ChannelOf
    <2> QED
      BY <1>2, <2>1, <2>3, <2>4 DEF Good, Sound, SameUser
  <1>5. ASSUME NEW v \in T, NEW i \in 1 .. Len(inbox)
        PROVE  Hear(v, s, inbox[i]) \in T
    <2>1. Good(v, w, l) /\ SameUser(u, v)
      OBVIOUS
    <2>2. Current(v.screen) = Current(u.screen)
      BY <2>1 DEF SameUser, Current
    <2>3. u.watch[s] # NoWatch
      BY <1>1 DEF NoWatch
    <2>4. inbox[i] = "granted" => w = Current(v.screen)
      BY <2>2, <2>3 DEF Good, Sound, ChannelOf, For
    <2>5. inbox[i] \in {"wash", "unwash"} => s = "face"
      BY DEF Good, Sound, ChannelOf
    <2>6. /\ Good(Hear(v, s, inbox[i]), w, l)
          /\ SameUser(v, Hear(v, s, inbox[i]))
      <3> HIDE DEF inbox
      <3> QED
        BY <2>1, <2>4, <2>5, HearKeeps
    <2> HIDE DEF inbox
    <2> QED
      BY <2>1, <2>6 DEF Good, Sound, SameUser
  <1>6. bare \in T
    BY <1>2, <1>4
  <1>7. Drain(u, s) \in T
    <2> HIDE DEF T
    <2> QED
      BY <1>1, <1>5, <1>6, DrainKeeps
  <1> QED
    BY <1>7

LEMMA PollGood ==
    ASSUME NEW u, NEW w, NEW l, Good(u, w, l)
    PROVE  Good(Poll(u), w, l) /\ SameUser(u, Poll(u))
  <1>1. "face" \in Sensors /\ "finger" \in Sensors
    BY DEF Sensors
  <1>2. Good(Drain(u, "face"), w, l) /\ SameUser(u, Drain(u, "face"))
    BY <1>1, DrainGood
  <1>3. Good(Poll(u), w, l) /\ SameUser(Drain(u, "face"), Poll(u))
    BY <1>1, <1>2, DrainGood DEF Poll
  <1> QED
    BY <1>2, <1>3 DEF SameUser

(* Who is selected is one of the accounts listed, or nobody. *)
LEMMA CurrentIs ==
    ASSUME ScreenAssumption, NEW s \in Screens
    PROVE  Current(s) \in Accounts \cup {Nobody}
  <1>1. CASE s.selected < s.users
    <2>1. s.selected + 1 \in 1 .. Len(Users)
      BY <1>1 DEF ScreenAssumption, Screens
    <2> QED
      BY <1>1, <2>1 DEF Current, Accounts
  <1>2. CASE ~ s.selected < s.users
    BY <1>2 DEF Current
  <1> QED
    BY <1>1, <1>2

(* A sensor watched for whoever is selected, if anybody is. *)
LEMMA WatchForKeeps ==
    ASSUME ScreenAssumption, NEW v, NEW w, NEW l, Sound(v, w, l),
           NEW s \in Sensors, NEW reached,
           For(v, s) \/ Current(v.screen) # Nobody
    PROVE  /\ Sound(WatchFor(v, s, reached), w, l)
           /\ SameUser(v, WatchFor(v, s, reached))
           /\ For(WatchFor(v, s, reached), s)
           /\ \A x \in Sensors \ {s} :
                 WatchFor(v, s, reached).watch[x] = v.watch[x]
  <1> DEFINE account == Current(v.screen)
             o == WatchFor(v, s, reached)
             u == Unwatch(v, s)
  <1>1. CASE account = Nobody \/ v.watch[s].account = account
    <2>1. o = v
      BY <1>1 DEF WatchFor
    <2>2. For(v, s)
      BY <1>1 DEF For
    <2> QED
      BY <2>1, <2>2 DEF SameUser
  <1>2. CASE account # Nobody /\ v.watch[s].account # account /\ s \notin reached
    <2>1. o = u
      BY <1>2 DEF WatchFor
    <2> QED
      BY <2>1, UnwatchKeeps DEF For
  <1>3. CASE account # Nobody /\ v.watch[s].account # account /\ s \in reached
    <2>1. o = [u EXCEPT !.watch[s] = Watching(account)]
      BY <1>3 DEF WatchFor
    <2>2. /\ Sound(u, w, l) /\ SameUser(v, u)
          /\ \A x \in Sensors \ {s} : u.watch[x] = v.watch[x]
          /\ u.screen.row[s] = "none"
      BY UnwatchKeeps
    <2>3. u \in Pairs /\ u.watch \in [Sensors -> Watches]
      BY <2>2 DEF Sound, Pairs
    <2>4. /\ Watching(account) \in Watches
          /\ Watching(account).account = account
          /\ Watching(account) # NoWatch
          /\ Len(Watching(account).inbox) = 0
      <3>1. account \in Accounts \cup {Nobody}
        BY CurrentIs DEF Sound, Pairs
      <3>2. <<>> \in Seq(Events)
        OBVIOUS
      <3> HIDE DEF account
      <3>3. Watching(account) \in Watches
        BY <3>1, <3>2 DEF Watching, Watches
      <3> QED
        BY <3>3 DEF Watching, NoWatch
    <2> HIDE DEF u, o
    <2>5. /\ o.screen = u.screen
          /\ o.watch = [u.watch EXCEPT ![s] = Watching(account)]
          /\ o \in Pairs
      <3> DEFINE t == [u.watch EXCEPT ![s] = Watching(account)]
      <3>1. t \in [Sensors -> Watches]
        <4> HIDE DEF account
        <4> QED
          BY <2>3, <2>4
      <3>2. o = [u EXCEPT !.watch = t]
        BY <2>1
      <3>3. o.screen = u.screen /\ o.watch = t /\ o \in Pairs
        <4> HIDE DEF t
        <4> QED
          BY <2>3, <3>1, <3>2 DEF Pairs
      <3> QED
        BY <3>3
    <2> HIDE DEF account
    <2>6. /\ o.watch[s] = Watching(account)
          /\ \A x \in Sensors \ {s} : o.watch[x] = u.watch[x]
      BY <2>3, <2>5
    <2>7. Current(o.screen) = account
      BY <2>2, <2>5 DEF SameUser, Current, account
    <2>8. For(o, s)
      BY <1>3, <2>4, <2>6, <2>7 DEF For
    <2>9. \A x \in Sensors : ChannelOf(o.watch[x], x, w)
      BY <2>2, <2>4, <2>6 DEF Sound, ChannelOf
    <2>10. Shown(o.screen, o.watch)
      BY <2>2, <2>4, <2>5, <2>6 DEF Sound, Shown, Sensors
    <2>11. Sound(o, w, l)
      BY <2>2, <2>5, <2>9, <2>10 DEF Sound
    <2> QED
      BY <2>2, <2>5, <2>6, <2>8, <2>11 DEF SameUser, o
  <1> QED
    BY <1>1, <1>2, <1>3

LEMMA WatchBothKeeps ==
    ASSUME ScreenAssumption, NEW v, NEW w, NEW l, Sound(v, w, l), NEW reached,
           Good(v, w, l) \/ Current(v.screen) # Nobody
    PROVE  Good(WatchBoth(v, reached), w, l) /\ SameUser(v, WatchBoth(v, reached))
  <1> DEFINE a == WatchFor(v, "finger", reached)
             b == WatchFor(a, "face", reached)
  <1>1. "finger" \in Sensors /\ "face" \in Sensors \ {"finger"}
    BY DEF Sensors
  <1>2. \A s \in Sensors : For(v, s) \/ Current(v.screen) # Nobody
    BY DEF Good
  <1>3. /\ Sound(a, w, l) /\ SameUser(v, a) /\ For(a, "finger")
        /\ a.watch["face"] = v.watch["face"]
    BY <1>1, <1>2, WatchForKeeps
  <1>4. Current(a.screen) = Current(v.screen)
    BY <1>3 DEF SameUser, Current
  <1> HIDE DEF a
  <1>5. For(a, "face") \/ Current(a.screen) # Nobody
    BY <1>1, <1>2, <1>3, <1>4 DEF For
  <1>6. /\ Sound(b, w, l) /\ SameUser(a, b) /\ For(b, "face")
        /\ b.watch["finger"] = a.watch["finger"]
    BY <1>1, <1>3, <1>5, WatchForKeeps
  <1>7. Current(b.screen) = Current(a.screen)
    BY <1>6 DEF SameUser, Current
  <1> HIDE DEF b
  <1>8. For(b, "finger")
    BY <1>3, <1>6, <1>7 DEF For
  <1>9. Good(b, w, l) /\ SameUser(v, b)
    BY <1>3, <1>6, <1>8 DEF Good, Sensors, SameUser
  <1> QED
    BY <1>9 DEF WatchBoth, a, b

(* Another account selected: somebody, or as it was. *)
LEMMA SelectKeeps ==
    ASSUME ScreenAssumption, NEW v, NEW w, NEW l, Good(v, w, l),
           ~ v.screen.dismissing, NEW step \in Int,
           NEW u, u = [screen |-> Select(v.screen, step), watch |-> v.watch]
    PROVE  Sound(u, w, l) /\ (Good(u, w, l) \/ Current(u.screen) # Nobody)
  <1>1. v \in Pairs /\ v.screen \in Screens /\ v.watch \in [Sensors -> Watches]
    BY DEF Good, Sound, Pairs
  <1>2. CASE v.screen.users < 2
    <2>1. u = v
      BY <1>1, <1>2 DEF Select, Pairs
    <2> QED
      BY <2>1 DEF Good
  <1>3. CASE ~ v.screen.users < 2
    <2> DEFINE n == v.screen.users
               m == (v.screen.selected + step) % n
    <2>1. n \in 2 .. Len(Users) /\ v.screen.selected \in Nat
      BY <1>1, <1>3 DEF Screens, ScreenAssumption
    <2>2. m \in 0 .. (n - 1)
      <3>1. ASSUME NEW a \in Int, NEW b \in Nat \ {0}
            PROVE  a % b \in 0 .. (b - 1)
        OBVIOUS
      <3>2. n \in Nat \ {0} /\ v.screen.selected + step \in Int
        BY <2>1
      <3> HIDE DEF n
      <3> QED
        BY <3>1, <3>2
    <2>3. u.screen = [v.screen EXCEPT !.selected = m] /\ u.watch = v.watch
      BY <1>3 DEF Select
    <2> HIDE DEF m
    <2>4. m \in 0 .. Len(Users)
      BY <2>1, <2>2 DEF ScreenAssumption
    <2>5. /\ u.screen \in Screens
          /\ u.screen.selected = m
          /\ u.screen.users = n
          /\ u.screen.dismissing = v.screen.dismissing
          /\ u.screen.row = v.screen.row
          /\ u.screen.flash = v.screen.flash
      BY <1>1, <2>3, <2>4 DEF Screens
    <2>6. u.screen.selected < u.screen.users
      BY <2>1, <2>2, <2>5
    <2>7. Current(u.screen) # Nobody
      <3>1. m + 1 \in 1 .. Len(Users)
        BY <2>1, <2>2
      <3> QED
        BY <2>5, <2>6, <3>1 DEF Current, ScreenAssumption
    <2>8. u \in Pairs
      BY <1>1, <2>3, <2>5 DEF Pairs
    <2>9. ScreenRight(u.screen, w, l)
      BY <2>5, <2>6 DEF ScreenRight
    <2>10. Shown(u.screen, u.watch)
      BY <2>3, <2>5 DEF Good, Sound, Shown
    <2> QED
      BY <2>3, <2>7, <2>8, <2>9, <2>10 DEF Good, Sound
  <1> QED
    BY <1>2, <1>3

(* While no proof has been accepted no match waits in a channel and no     *)
(* screen leaves, but for a grant read late: whoever may win.              *)
LEMMA WinnerComes ==
    ASSUME NEW v, NEW l, NEW w, Good(v, Nobody, l)
    PROVE  Good(v, w, l)
  <1>1. ScreenRight(v.screen, w, l)
    BY DEF Good, Sound, ScreenRight
  <1>2. ASSUME NEW s \in Sensors PROVE ChannelOf(v.watch[s], s, w)
    <2>1. CASE v.watch[s] = NoWatch
      BY <2>1 DEF ChannelOf, NoWatch
    <2>2. CASE v.watch[s] # NoWatch
      BY <2>2 DEF Good, Sound, ChannelOf, For
    <2> QED
      BY <2>1, <2>2
  <1> QED
    BY <1>1, <1>2 DEF Good, Sound

-----------------------------------------------------------------------------
(* A drawing, with what it lets go of. *)
LEMMA DrawKeeps ==
    ASSUME GreeterInv, NEW u, NEW l \in BOOLEAN, Good(u, winner, l),
           screen' = Poll(u).screen, watch' = Poll(u).watch, Dropping
    PROVE  /\ Good(Pair', winner, l)
           /\ Current(screen') = Current(u.screen)
           /\ screen' \in Screens /\ watch' \in [Sensors -> Watches]
           /\ strays' \subseteq Accounts
           /\ winner # Nobody => strays' = {}
  <1>1. Good(Poll(u), winner, l) /\ SameUser(u, Poll(u))
    BY PollGood
  <1>2. /\ Poll(u) \in Pairs
        /\ Pair' = [screen |-> screen', watch |-> watch']
    BY <1>1 DEF Good, Sound, Pair
  <1>3. Poll(u) = Pair'
    BY <1>2 DEF Pairs
  <1>4. screen' \in Screens /\ watch' \in [Sensors -> Watches]
    BY <1>2 DEF Pairs
  <1>5. strays' \subseteq Accounts /\ (winner # Nobody => strays' = {})
    <2> DEFINE A == {watch[s].account : s \in {s \in Sensors :
                        watch[s].open /\ watch'[s].account # watch[s].account}}
    <2>1. A \subseteq Accounts \cup {Nobody}
      BY DEF GreeterInv, GreeterTypeOK
    <2>2. strays' = IF winner = Nobody THEN strays \cup (A \ {Nobody}) ELSE {}
      BY DEF Dropping, Stray
    <2>3. strays \subseteq Accounts
      BY DEF GreeterInv, GreeterTypeOK
    <2> HIDE DEF A
    <2> QED
      BY <2>1, <2>2, <2>3
  <1> QED
    BY <1>1, <1>3, <1>4, <1>5 DEF SameUser, Current

LEMMA PaintedIs ==
    ASSUME NEW before, before \in {"coming", "gone", "failed"},
           NEW painted
    PROVE  Painted(before, painted) \in {"coming", "gone", "failed"}
  BY DEF Painted

LEMMA InvParts ==
    ASSUME GreeterInv
    PROVE  /\ Good(Pair, winner, late)
           /\ Pair \in Pairs /\ Pair.screen = screen /\ Pair.watch = watch
           /\ Pair = [screen |-> screen, watch |-> watch]
           /\ screen \in Screens /\ watch \in [Sensors -> Watches]
  BY DEF GreeterInv, Good, Sound, Pair, Pairs

-----------------------------------------------------------------------------
LEMMA GreeterStarts ==
    ASSUME ScreenAssumption, GreeterAssumption, GreeterInit
    PROVE  GreeterInv
  <1>1. PICK users \in Offers, reached \in SUBSET Sensors :
           LET u == WatchBoth([screen |-> New(users),
                               watch |-> [s \in Sensors |-> NoWatch]], reached)
           IN screen = u.screen /\ watch = u.watch
    BY DEF GreeterInit
  <1> DEFINE v == [screen |-> New(users), watch |-> [s \in Sensors |-> NoWatch]]
             u == WatchBoth(v, reached)
  <1>2. /\ NoWatch \in Watches /\ Len(NoWatch.inbox) = 0
    BY DEF NoWatch, Watches
  <1>3. /\ New(users) \in Screens
        /\ New(users).users = users /\ New(users).selected = 0
        /\ ~ New(users).dismissing /\ ~ New(users).flash
        /\ \A s \in Sensors : New(users).row[s] = "none"
    BY DEF New, Screens, Rows, GreeterAssumption, ScreenAssumption
  <1>4. users \in Nat
    BY DEF GreeterAssumption, ScreenAssumption
  <1>5. Good(v, Nobody, FALSE)
    <2>1. v \in Pairs /\ v.screen = New(users) /\ \A s \in Sensors : v.watch[s] = NoWatch
      BY <1>2, <1>3 DEF Pairs
    <2> HIDE DEF v
    <2>2. ScreenRight(v.screen, Nobody, FALSE)
      BY <1>3, <1>4, <2>1 DEF ScreenRight
    <2>3. Shown(v.screen, v.watch)
      BY <1>3, <2>1 DEF Shown
    <2>4. \A s \in Sensors : ChannelOf(v.watch[s], s, Nobody)
      BY <1>2, <2>1 DEF ChannelOf
    <2>5. \A s \in Sensors : For(v, s)
      BY <2>1 DEF For
    <2> QED
      BY <2>1, <2>2, <2>3, <2>4, <2>5 DEF Good, Sound
  <1>6. Good(u, Nobody, FALSE)
    BY <1>5, WatchBothKeeps DEF Good
  <1>7. u \in Pairs /\ screen = u.screen /\ watch = u.watch
    BY <1>1, <1>6 DEF Good, Sound
  <1>8. Pair = u
    BY <1>7 DEF Pair, Pairs
  <1>9. screen \in Screens /\ watch \in [Sensors -> Watches]
    BY <1>7 DEF Pairs
  <1> HIDE DEF u, v
  <1>10. GreeterTypeOK
    <2>1. conn \in [up : BOOLEAN, asked : Seq(Requests), said : Seq(Replies)]
      <3>1. <<>> \in Seq(Requests) /\ <<>> \in Seq(Replies)
        OBVIOUS
      <3>2. <<[account |-> Nobody, own |-> FALSE]>> \in Seq(Requests)
        BY DEF Requests
      <3>3. \A asked \in Seq(Requests) : NewConn(asked)
               \in [up : BOOLEAN, asked : Seq(Requests), said : Seq(Replies)]
        BY <3>1 DEF NewConn
      <3>4. \E asked \in Seq(Requests) : conn = NewConn(asked)
        BY <3>1, <3>2 DEF GreeterInit
      <3> QED
        BY <3>3, <3>4
    <2> QED
      BY <1>9, <2>1 DEF GreeterTypeOK, Watches, GreeterInit, NoCall
  <1>11. CallRight /\ ConnRight
    BY DEF CallRight, ConnRight, GreeterInit, NoCall, NewConn
  <1> QED
    BY <1>6, <1>8, <1>10, <1>11 DEF GreeterInv, GreeterInit

(* Drawings that only poll: a frame, a key that edits the password. *)
LEMMA PollStep ==
    ASSUME GreeterInv, Running, screen' = Poll(Pair).screen,
           watch' = Poll(Pair).watch, frame' \in {"coming", "gone", "failed"},
           Dropping, UNCHANGED <<call, conn, winner, late, exit>>
    PROVE  GreeterInv'
  <1>1. /\ Good(Pair', winner, late)
        /\ screen' \in Screens /\ watch' \in [Sensors -> Watches]
        /\ strays' \subseteq Accounts
        /\ winner # Nobody => strays' = {}
    BY InvParts, DrawKeeps DEF GreeterInv, GreeterTypeOK
  <1>2. GreeterTypeOK'
    BY <1>1 DEF GreeterInv, GreeterTypeOK, Watches
  <1>3. CallRight' /\ ConnRight'
    BY <1>1 DEF GreeterInv, CallRight, ConnRight, Running
  <1> QED
    BY <1>1, <1>2, <1>3 DEF GreeterInv

LEMMA TabStep ==
    ASSUME ScreenAssumption, GreeterInv, NEW step \in {1, screen.users - 1},
           NEW reached, NEW painted, Tab(step, reached, painted)
    PROVE  GreeterInv'
  <1> DEFINE v == [screen |-> Select(screen, step), watch |-> watch]
             u == WatchBoth(v, reached)
  <1>1. ~ screen.dismissing
    BY DEF Tab, GreeterInv, Good, Sound, ScreenRight, Pair
  <1>2. step \in Int
    BY DEF GreeterInv, GreeterTypeOK, Screens, ScreenAssumption
  <1>3. Sound(v, winner, late) /\ (Good(v, winner, late) \/ Current(v.screen) # Nobody)
    <2>1. v = [screen |-> Select(Pair.screen, step), watch |-> Pair.watch]
      BY DEF Pair
    <2>2. Good(Pair, winner, late) /\ ~ Pair.screen.dismissing
      BY <1>1 DEF GreeterInv, Pair
    <2> HIDE DEF v
    <2> QED
      BY <1>2, <2>1, <2>2, SelectKeeps
  <1>4. Good(u, winner, late)
    <2> HIDE DEF v
    <2> QED
      BY <1>3, WatchBothKeeps
  <1>5. /\ screen' = Poll(u).screen /\ watch' = Poll(u).watch
        /\ frame' = Painted(frame, painted)
        /\ Dropping
        /\ UNCHANGED <<call, conn, winner, late, exit>>
        /\ Running
    BY DEF Tab, Draw
  <1>6. late \in BOOLEAN
    BY DEF GreeterInv, GreeterTypeOK
  <1> HIDE DEF u
  <1>7. /\ Good(Pair', winner, late)
        /\ screen' \in Screens /\ watch' \in [Sensors -> Watches]
        /\ strays' \subseteq Accounts
        /\ winner # Nobody => strays' = {}
    BY <1>4, <1>5, <1>6, DrawKeeps
  <1>8. GreeterTypeOK'
    BY <1>5, <1>7, PaintedIs DEF GreeterInv, GreeterTypeOK, Watches
  <1>9. CallRight' /\ ConnRight'
    BY <1>5, <1>7 DEF GreeterInv, CallRight, ConnRight, Running
  <1> QED
    BY <1>5, <1>7, <1>8, <1>9 DEF GreeterInv

(* What a new exchange makes of the messages of older ones. *)
LEMMA Disowned ==
    ASSUME NEW A \in {Requests, Replies}, NEW msgs \in Seq(A)
    PROVE  /\ Disown(msgs) \in Seq(A)
           /\ Len(Disown(msgs)) = Len(msgs)
           /\ \A i \in 1 .. Len(msgs) : Disown(msgs)[i].own = FALSE
  <1>1. Len(msgs) \in Nat /\ DOMAIN msgs = 1 .. Len(msgs)
    OBVIOUS
  <1>2. ASSUME NEW i \in 1 .. Len(msgs)
        PROVE  /\ [msgs[i] EXCEPT !.own = FALSE] \in A
               /\ [msgs[i] EXCEPT !.own = FALSE].own = FALSE
    <2>1. msgs[i] \in A
      BY <1>1
    <2>2. \A request \in Requests :
             /\ [request EXCEPT !.own = FALSE] \in Requests
             /\ [request EXCEPT !.own = FALSE].own = FALSE
      BY DEF Requests
    <2>3. \A reply \in Replies :
             /\ [reply EXCEPT !.own = FALSE] \in Replies
             /\ [reply EXCEPT !.own = FALSE].own = FALSE
      BY DEF Replies
    <2> QED
      BY <2>1, <2>2, <2>3
  <1>3. Disown(msgs) = [i \in 1 .. Len(msgs) |-> [msgs[i] EXCEPT !.own = FALSE]]
    BY <1>1 DEF Disown
  <1> DEFINE d == [i \in 1 .. Len(msgs) |-> [msgs[i] EXCEPT !.own = FALSE]]
  <1>4. d \in [1 .. Len(msgs) -> A]
    BY <1>2
  <1>5. \A i \in 1 .. Len(msgs) : d[i].own = FALSE
    BY <1>2
  <1>6. \A n \in Nat : \A f \in [1 .. n -> A] : f \in Seq(A) /\ Len(f) = n
    OBVIOUS
  <1> HIDE DEF d
  <1>7. d \in Seq(A) /\ Len(d) = Len(msgs)
    BY <1>1, <1>4, <1>6
  <1> QED
    BY <1>3, <1>5, <1>7 DEF d

LEMMA EnterStep ==
    ASSUME ScreenAssumption, GreeterInv, NEW painted, Enter(painted)
    PROVE  GreeterInv'
  <1> DEFINE u == [screen |-> Submit(screen), watch |-> watch]
             account == Current(screen)
  <1>1. /\ Running /\ MaySubmit(screen)
        /\ screen' = Poll(u).screen /\ watch' = Poll(u).watch
        /\ frame' = Painted(frame, painted)
        /\ call' = [stage |-> "first", account |-> account]
        /\ conn' = [conn EXCEPT
                      !.asked = IF conn.up THEN Disown(@) \o <<Ask(account)>> ELSE @,
                      !.said = Disown(@)]
        /\ Dropping
        /\ UNCHANGED <<winner, late, exit>>
    BY DEF Enter, Draw
  <1>2. account \in Accounts /\ account # Nobody
    BY <1>1, InvParts, CurrentIs DEF MaySubmit
  <1>3. Good(u, winner, late) /\ Current(u.screen) = account
    <2> DEFINE t == Submit(screen)
    <2>1. /\ t \in Screens
          /\ t.users = screen.users /\ t.selected = screen.selected
          /\ t.busy = TRUE /\ t.dismissing = screen.dismissing
          /\ t.row = screen.row /\ t.flash = screen.flash
      BY InvParts DEF Submit, Screens
    <2>2. u \in Pairs /\ u.screen = t /\ u.watch = watch
      BY <2>1, InvParts DEF Pairs
    <2> HIDE DEF t, u
    <2>3. Current(t) = account
      BY <2>1 DEF Current
    <2>4. ScreenRight(t, winner, late)
      BY <2>1, <2>3, InvParts DEF Good, Sound, ScreenRight
    <2>5. Shown(t, watch)
      BY <2>1, InvParts DEF Good, Sound, Shown
    <2>6. \A s \in Sensors : For(u, s)
      BY <2>2, <2>3, InvParts DEF Good, For
    <2> QED
      BY <2>2, <2>3, <2>4, <2>5, <2>6, InvParts DEF Good, Sound
  <1>4. late \in BOOLEAN
    BY DEF GreeterInv, GreeterTypeOK
  <1> HIDE DEF u, account
  <1>5. /\ Good(Pair', winner, late)
        /\ Current(screen') = account
        /\ screen' \in Screens /\ watch' \in [Sensors -> Watches]
        /\ strays' \subseteq Accounts
        /\ winner # Nobody => strays' = {}
    BY <1>1, <1>3, <1>4, DrawKeeps
  <1> DEFINE asked == IF conn.up THEN Disown(conn.asked) \o <<Ask(account)>>
                      ELSE conn.asked
             said == Disown(conn.said)
  <1>6. conn \in [up : BOOLEAN, asked : Seq(Requests), said : Seq(Replies)]
    BY DEF GreeterInv, GreeterTypeOK
  <1>7. /\ asked \in Seq(Requests)
        /\ \A i \in 1 .. Len(asked) : asked[i].own => asked[i].account = account
    <2>1. CASE ~ conn.up
      BY <1>6, <2>1 DEF GreeterInv, ConnRight
    <2>2. CASE conn.up
      <3> DEFINE d == Disown(conn.asked)
      <3>1. /\ d \in Seq(Requests) /\ Len(d) \in Nat
            /\ \A i \in 1 .. Len(d) : d[i].own = FALSE
        <4>1. conn.asked \in Seq(Requests) /\ Len(conn.asked) \in Nat
          BY <1>6
        <4> QED
          BY <4>1, Disowned
      <3>2. Ask(account) \in Requests /\ Ask(account).account = account
        BY <1>2 DEF Ask, Requests
      <3>3. asked = Append(d, Ask(account))
        <4> HIDE DEF d
        <4> QED
          BY <2>2, <3>1 DEF d
      <3> HIDE DEF d, asked
      <3>4. asked \in Seq(Requests) /\ Len(asked) = Len(d) + 1
        BY <3>1, <3>2, <3>3
      <3>5. \A i \in 1 .. Len(asked) :
               asked[i] = IF i = Len(d) + 1 THEN Ask(account) ELSE d[i]
        <4>1. \A q \in Seq(Requests) : \A e \in Requests :
                 \A i \in 1 .. Len(q) + 1 :
                    Append(q, e)[i] = IF i = Len(q) + 1 THEN e ELSE q[i]
          OBVIOUS
        <4> QED
          BY <3>1, <3>2, <3>3, <3>4, <4>1
      <3>6. ASSUME NEW i \in 1 .. Len(asked), asked[i].own
            PROVE  asked[i].account = account
        <4>1. i = Len(d) + 1 \/ i \in 1 .. Len(d)
          BY <3>1, <3>4
        <4>2. i \notin 1 .. Len(d)
          BY <3>1, <3>5, <3>6
        <4> QED
          BY <3>2, <3>5, <4>1, <4>2
      <3> QED
        BY <3>4, <3>6
    <2> QED
      BY <2>1, <2>2
  <1>8. /\ said \in Seq(Replies)
        /\ \A i \in 1 .. Len(said) : said[i].own = FALSE
    <2>1. conn.said \in Seq(Replies)
      BY <1>6
    <2> QED
      BY <2>1, Disowned
  <1>9. conn' = [conn EXCEPT !.asked = asked, !.said = said]
    BY <1>1
  <1>10. ~ conn.up => asked = <<>>
    BY DEF GreeterInv, ConnRight
  <1> HIDE DEF asked, said
  <1>11. /\ conn' \in [up : BOOLEAN, asked : Seq(Requests), said : Seq(Replies)]
         /\ conn'.up = conn.up /\ conn'.asked = asked /\ conn'.said = said
    BY <1>6, <1>7, <1>8, <1>9
  <1>12. /\ call'.stage = "first" /\ call'.account = account
         /\ call' \in [stage : {"none", "first", "second"},
                       account : Accounts \cup {Nobody}]
    BY <1>1, <1>2
  <1>13. GreeterTypeOK'
    BY <1>1, <1>5, <1>11, <1>12, PaintedIs DEF GreeterInv, GreeterTypeOK, Watches
  <1>14. CallRight'
    BY <1>2, <1>5, <1>7, <1>8, <1>11, <1>12 DEF CallRight
  <1>15. ConnRight'
    BY <1>1, <1>5, <1>10, <1>11 DEF ConnRight
  <1> QED
    BY <1>1, <1>5, <1>13, <1>14, <1>15 DEF GreeterInv

(* An exchange that ends, with the screen it leaves. *)
LEMMA ReplyKeeps ==
    ASSUME GreeterInv, NEW s, NEW w, NEW painted, NEW l \in BOOLEAN,
           Good([screen |-> s, watch |-> w], winner, l),
           Replied(s, w, painted), late' = l,
           conn' \in [up : BOOLEAN, asked : Seq(Requests), said : Seq(Replies)],
           ~ conn'.up => conn'.asked = <<>>
    PROVE  GreeterInv'
  <1> DEFINE u == [screen |-> s, watch |-> w]
  <1>1. /\ screen' = Poll(u).screen /\ watch' = Poll(u).watch
        /\ frame' = Painted(frame, painted)
        /\ call' = NoCall /\ Dropping /\ UNCHANGED <<winner, exit>>
    BY DEF Replied, Draw
  <1> HIDE DEF u
  <1>2. /\ Good(Pair', winner, l)
        /\ screen' \in Screens /\ watch' \in [Sensors -> Watches]
        /\ strays' \subseteq Accounts
        /\ winner # Nobody => strays' = {}
    BY <1>1, DrawKeeps DEF u
  <1>3. /\ call'.stage = "none"
        /\ call' \in [stage : {"none", "first", "second"},
                      account : Accounts \cup {Nobody}]
    BY <1>1 DEF NoCall
  <1>4. GreeterTypeOK'
    BY <1>1, <1>2, <1>3, PaintedIs DEF GreeterInv, GreeterTypeOK, Watches
  <1>5. CallRight' /\ ConnRight'
    BY <1>1, <1>2, <1>3 DEF CallRight, ConnRight
  <1> QED
    BY <1>1, <1>2, <1>4, <1>5 DEF GreeterInv

(* The keyboard given back, as a screen on its way out does not. *)
LEMMA IdleKeeps ==
    ASSUME GreeterInv
    PROVE  Good([screen |-> SetIdle(screen), watch |-> watch], winner, late)
  <1> DEFINE t == SetIdle(screen)
             u == [screen |-> t, watch |-> watch]
  <1>1. /\ t \in Screens
        /\ t.users = screen.users /\ t.selected = screen.selected
        /\ t.dismissing = screen.dismissing
        /\ t.dismissing => t.busy = screen.busy
        /\ t.row = screen.row /\ t.flash = screen.flash
    BY InvParts DEF SetIdle, Screens
  <1>2. u \in Pairs /\ u.screen = t /\ u.watch = watch
    BY <1>1, InvParts DEF Pairs
  <1> HIDE DEF t, u
  <1>3. Current(t) = Current(screen)
    BY <1>1 DEF Current
  <1>4. ScreenRight(t, winner, late)
    BY <1>1, <1>3, InvParts DEF Good, Sound, ScreenRight
  <1>5. Shown(t, watch)
    BY <1>1, InvParts DEF Good, Sound, Shown
  <1>6. \A s \in Sensors : For(u, s)
    BY <1>2, <1>3, InvParts DEF Good, For
  <1>7. Good(u, winner, late)
    BY <1>2, <1>4, <1>5, <1>6, InvParts DEF Good, Sound
  <1> QED
    BY <1>7 DEF u, t

(* A password accepted: the screen leaves, and the finger's watch with it. *)
LEMMA GrantKeeps ==
    ASSUME GreeterInv, NEW l, late => l,
           l \/ (winner = Current(screen) /\ winner # Nobody)
    PROVE  Good([screen |-> Dismiss(screen),
                 watch |-> [watch EXCEPT !.finger = NoWatch]], winner, l)
  <1> DEFINE t == Dismiss(screen)
             w == [watch EXCEPT !.finger = NoWatch]
             u == [screen |-> t, watch |-> w]
  <1>1. /\ t \in Screens
        /\ t.users = screen.users /\ t.selected = screen.selected
        /\ t.dismissing /\ t.busy
        /\ t.flash = screen.flash
    BY InvParts DEF Dismiss, Screens
  <1>2. NoWatch \in Watches /\ Len(NoWatch.inbox) = 0
    BY DEF NoWatch, Watches
  <1>3. /\ w \in [Sensors -> Watches]
        /\ w["face"] = watch["face"]
        /\ \A s \in Sensors : w[s] \in {NoWatch, watch[s]}
    BY <1>2, InvParts DEF Sensors
  <1>4. u \in Pairs /\ u.screen = t /\ u.watch = w
    BY <1>1, <1>3 DEF Pairs
  <1> HIDE DEF t, u, w
  <1>5. Current(t) = Current(screen)
    BY <1>1 DEF Current
  <1>6. ScreenRight(t, winner, l)
    BY <1>1, <1>5, InvParts DEF Good, Sound, ScreenRight
  <1>7. Shown(t, w)
    BY <1>1, <1>3, InvParts DEF Good, Sound, Shown
  <1>8. \A s \in Sensors : For(u, s)
    BY <1>3, <1>4, <1>5, InvParts DEF Good, For
  <1>9. \A s \in Sensors : ChannelOf(w[s], s, winner)
    BY <1>2, <1>3, InvParts DEF Good, Sound, ChannelOf
  <1>10. Good(u, winner, l)
    BY <1>4, <1>6, <1>7, <1>8, <1>9 DEF Good, Sound
  <1> QED
    BY <1>10 DEF u, t, w

LEMMA ConnTyped ==
    ASSUME GreeterInv
    PROVE  /\ conn \in [up : BOOLEAN, asked : Seq(Requests), said : Seq(Replies)]
           /\ conn.up \in BOOLEAN
           /\ conn.asked \in Seq(Requests) /\ Len(conn.asked) \in Nat
           /\ conn.said \in Seq(Replies) /\ Len(conn.said) \in Nat
           /\ ~ conn.up => conn.asked = <<>>
           /\ late \in BOOLEAN
  <1>1. conn \in [up : BOOLEAN, asked : Seq(Requests), said : Seq(Replies)]
    BY DEF GreeterInv, GreeterTypeOK
  <1>2. conn.asked \in Seq(Requests) /\ conn.said \in Seq(Replies)
    BY <1>1
  <1> QED
    BY <1>1, <1>2 DEF GreeterInv, GreeterTypeOK, ConnRight

LEMMA ReadReplyStep ==
    ASSUME GreeterInv, NEW painted, ReadReply(painted)
    PROVE  GreeterInv'
  <1> DEFINE reply == Head(conn.said)
             granted == reply.verdict = "Granted"
             l == late \/ (granted /\ ~ reply.own)
  <1>1. /\ call.stage # "none" /\ conn.said # <<>>
        /\ late' = l
        /\ conn' = [conn EXCEPT !.said = Tail(@)]
        /\ granted => Replied(Dismiss(screen), [watch EXCEPT !.finger = NoWatch],
                              painted)
        /\ ~ granted => Replied(SetIdle(screen), watch, painted)
    BY DEF ReadReply, Silent
  <1>2. /\ Tail(conn.said) \in Seq(Replies)
        /\ 1 \in 1 .. Len(conn.said) /\ reply = conn.said[1]
    BY <1>1, ConnTyped
  <1>3. /\ conn' \in [up : BOOLEAN, asked : Seq(Requests), said : Seq(Replies)]
        /\ ~ conn'.up => conn'.asked = <<>>
    BY <1>1, <1>2, ConnTyped
  <1>4. l \in BOOLEAN
    BY ConnTyped
  <1>5. CASE granted
    <2>1. l \/ (winner = Current(screen) /\ winner # Nobody)
      <3>1. CASE reply.own
        BY <1>1, <1>2, <1>5, <3>1 DEF GreeterInv, CallRight
      <3>2. CASE ~ reply.own
        BY <1>5, <3>2
      <3> QED
        BY <3>1, <3>2
    <2> HIDE DEF l
    <2>2. Good([screen |-> Dismiss(screen),
                watch |-> [watch EXCEPT !.finger = NoWatch]], winner, l)
      BY <2>1, GrantKeeps DEF l
    <2> HIDE DEF granted
    <2> QED
      BY <1>1, <1>3, <1>4, <1>5, <2>2, ReplyKeeps
  <1>6. CASE ~ granted
    <2>1. l = late
      BY <1>6, ConnTyped
    <2> HIDE DEF l, granted
    <2> QED
      BY <1>1, <1>3, <1>4, <1>6, <2>1, IdleKeeps, ReplyKeeps
  <1> QED
    BY <1>5, <1>6

LEMMA GiveUpStep ==
    ASSUME GreeterInv, NEW painted, GiveUp(painted)
    PROVE  GreeterInv'
  <1>1. /\ Replied(SetIdle(screen), watch, painted)
        /\ conn' = conn /\ late' = late
    BY DEF GiveUp
  <1> QED
    BY <1>1, ConnTyped, IdleKeeps, ReplyKeeps

LEMMA ReconnectStep ==
    ASSUME GreeterInv, Reconnect
    PROVE  GreeterInv'
  <1>1. /\ call.stage = "first"
        /\ call' = [call EXCEPT !.stage = "second"]
        /\ conn' = NewConn(<<Ask(call.account)>>)
        /\ Stray({conn.asked[i].account : i \in DOMAIN conn.asked})
        /\ UNCHANGED <<ui, winner, late, exit>>
    BY DEF Reconnect
  <1>2. /\ call.account = Current(screen) /\ call.account # Nobody
        /\ call.account \in Accounts
    BY <1>1 DEF GreeterInv, GreeterTypeOK, CallRight
  <1>3. strays' \subseteq Accounts /\ (winner # Nobody => strays' = {})
    <2> DEFINE A == {conn.asked[i].account : i \in DOMAIN conn.asked}
    <2>1. A \subseteq Accounts \cup {Nobody}
      <3>1. \A i \in DOMAIN conn.asked : conn.asked[i] \in Requests
        BY ConnTyped
      <3> QED
        BY <3>1 DEF Requests
    <2>2. strays' = IF winner = Nobody THEN strays \cup (A \ {Nobody}) ELSE {}
      BY <1>1 DEF Stray
    <2>3. strays \subseteq Accounts
      BY DEF GreeterInv, GreeterTypeOK
    <2> HIDE DEF A
    <2> QED
      BY <2>1, <2>2, <2>3
  <1>4. /\ call'.stage = "second" /\ call'.account = call.account
        /\ call' \in [stage : {"none", "first", "second"},
                      account : Accounts \cup {Nobody}]
    BY <1>1 DEF GreeterInv, GreeterTypeOK
  <1>5. /\ conn'.up /\ conn'.said = <<>> /\ conn'.asked = <<Ask(call.account)>>
        /\ conn' \in [up : BOOLEAN, asked : Seq(Requests), said : Seq(Replies)]
    <2>1. Ask(call.account) \in Requests
      BY <1>2 DEF Ask, Requests
    <2>2. \A e \in Requests : <<e>> \in Seq(Requests)
      OBVIOUS
    <2>3. <<>> \in Seq(Replies)
      OBVIOUS
    <2>4. \A asked \in Seq(Requests) : NewConn(asked)
             \in [up : BOOLEAN, asked : Seq(Requests), said : Seq(Replies)]
      BY <2>3 DEF NewConn
    <2> QED
      BY <1>1, <2>1, <2>2, <2>4 DEF NewConn
  <1>6. \A i \in 1 .. Len(conn'.asked) : conn'.asked[i].account = call.account
    <2>1. ASSUME NEW i \in 1 .. Len(<<Ask(call.account)>>)
          PROVE  <<Ask(call.account)>>[i] = Ask(call.account)
      OBVIOUS
    <2> QED
      BY <1>5, <2>1 DEF Ask
  <1>7. screen' = screen /\ watch' = watch /\ frame' = frame /\ Pair' = Pair
    BY <1>1 DEF ui, Pair
  <1>8. GreeterTypeOK'
    BY <1>1, <1>3, <1>4, <1>5, <1>7 DEF GreeterInv, GreeterTypeOK
  <1>9. CallRight'
    BY <1>1, <1>2, <1>4, <1>5, <1>6, <1>7 DEF CallRight
  <1>10. ConnRight'
    BY <1>1, <1>3, <1>5 DEF ConnRight
  <1> QED
    BY <1>1, <1>7, <1>8, <1>9, <1>10 DEF GreeterInv

-----------------------------------------------------------------------------
(* Messages taken from the front and put at the end. *)
LEMMA FirstOf ==
    ASSUME NEW A, NEW q \in Seq(A), q # <<>>
    PROVE  /\ Head(q) \in A /\ 1 \in 1 .. Len(q) /\ Head(q) = q[1]
           /\ Tail(q) \in Seq(A)
           /\ \A i \in 1 .. Len(Tail(q)) :
                 i + 1 \in 1 .. Len(q) /\ Tail(q)[i] = q[i + 1]
  OBVIOUS

LEMMA LastOf ==
    ASSUME NEW A, NEW q \in Seq(A), NEW e \in A
    PROVE  /\ Append(q, e) \in Seq(A)
           /\ \A i \in 1 .. Len(Append(q, e)) :
                 \/ i \in 1 .. Len(q) /\ Append(q, e)[i] = q[i]
                 \/ Append(q, e)[i] = e
  OBVIOUS

LEMMA ServeStep ==
    ASSUME GreeterInv, NEW verdict \in Verdicts, Serve(verdict)
    PROVE  GreeterInv'
  <1> DEFINE request == Head(conn.asked)
             wins == verdict = "Granted" /\ winner = Nobody
             said == IF verdict = "Granted" /\ ~ wins THEN "Refused" ELSE verdict
             answer == [verdict |-> said, own |-> request.own]
  <1>1. /\ conn.up /\ conn.asked # <<>>
        /\ request.account = Nobody => verdict = "Refused"
        /\ winner' = IF wins THEN request.account ELSE winner
        /\ conn' = [up    |-> ~ wins,
                    asked |-> IF wins THEN <<>> ELSE Tail(conn.asked),
                    said  |-> Append(conn.said, answer)]
        /\ strays' = IF winner' = Nobody THEN strays ELSE {}
        /\ UNCHANGED <<ui, call, late, exit>>
    BY DEF Serve
  <1>2. /\ request \in Requests /\ request = conn.asked[1] /\ 1 \in 1 .. Len(conn.asked)
        /\ Tail(conn.asked) \in Seq(Requests)
        /\ \A i \in 1 .. Len(Tail(conn.asked)) :
              /\ i + 1 \in 1 .. Len(conn.asked)
              /\ Tail(conn.asked)[i] = conn.asked[i + 1]
    BY <1>1, ConnTyped, FirstOf
  <1> HIDE DEF request
  <1>3. answer \in Replies
    BY <1>2 DEF Replies, Requests, Verdicts
  <1>4. /\ Append(conn.said, answer) \in Seq(Replies)
        /\ \A i \in 1 .. Len(Append(conn.said, answer)) :
              \/ /\ i \in 1 .. Len(conn.said)
                 /\ Append(conn.said, answer)[i] = conn.said[i]
              \/ Append(conn.said, answer)[i] = answer
    <2> HIDE DEF answer
    <2> QED
      BY <1>3, ConnTyped, LastOf
  <1>5. /\ winner' \in Accounts \cup {Nobody}
        /\ wins => winner' # Nobody
    <2>1. request.account \in Accounts \cup {Nobody}
      BY <1>2 DEF Requests
    <2>2. wins => request.account # Nobody
      BY <1>1
    <2> QED
      BY <1>1, <2>1, <2>2 DEF GreeterInv, GreeterTypeOK
  <1>6. /\ strays' \subseteq Accounts
        /\ winner' # Nobody => strays' = {}
    BY <1>1 DEF GreeterInv, GreeterTypeOK
  <1>7. /\ conn' \in [up : BOOLEAN, asked : Seq(Requests), said : Seq(Replies)]
        /\ conn'.up = ~ wins
        /\ conn'.asked = IF wins THEN <<>> ELSE Tail(conn.asked)
        /\ conn'.said = Append(conn.said, answer)
    <2>1. <<>> \in Seq(Requests)
      OBVIOUS
    <2> HIDE DEF answer, wins
    <2>2. (IF wins THEN <<>> ELSE Tail(conn.asked)) \in Seq(Requests)
      BY <1>2, <2>1
    <2> QED
      BY <1>1, <1>4, <2>2
  <1>8. screen' = screen /\ watch' = watch /\ frame' = frame /\ Pair' = Pair
    BY <1>1 DEF ui, Pair
  <1>9. Good(Pair, winner', late)
    <2>1. CASE wins
      BY <2>1, InvParts, WinnerComes
    <2>2. CASE ~ wins
      BY <1>1, <2>2, InvParts
    <2> QED
      BY <2>1, <2>2
  <1>10. GreeterTypeOK'
    BY <1>1, <1>5, <1>6, <1>7, <1>8 DEF GreeterInv, GreeterTypeOK
  <1>11. CallRight'
    <2> SUFFICES ASSUME call.stage # "none" PROVE CallRight'
      BY <1>1 DEF CallRight
    <2>1. /\ call.account = Current(screen) /\ call.account # Nobody
          /\ \A i \in 1 .. Len(conn.asked) :
                conn.asked[i].own => conn.asked[i].account = call.account
          /\ \A i \in 1 .. Len(conn.said) :
                conn.said[i].own /\ conn.said[i].verdict = "Granted"
                => winner = call.account
      BY DEF GreeterInv, CallRight
    <2>2. \A i \in 1 .. Len(conn'.asked) :
             conn'.asked[i].own => conn'.asked[i].account = call.account
      <3>1. CASE wins
        <4>1. Len(conn'.asked) = 0
          BY <1>7, <3>1
        <4> QED
          BY <4>1
      <3>2. CASE ~ wins
        BY <1>2, <1>7, <2>1, <3>2
      <3> QED
        BY <3>1, <3>2
    <2>3. ASSUME NEW i \in 1 .. Len(conn'.said), conn'.said[i].own,
                 conn'.said[i].verdict = "Granted"
          PROVE  winner' = call.account
      <3>1. CASE i \in 1 .. Len(conn.said) /\ conn'.said[i] = conn.said[i]
        <4>1. winner = call.account
          BY <2>1, <2>3, <3>1
        <4> QED
          BY <1>1, <2>1, <4>1
      <3>2. CASE conn'.said[i] = answer
        <4>1. wins /\ request.own
          BY <2>3, <3>2
        <4> QED
          BY <1>1, <1>2, <2>1, <4>1
      <3> QED
        BY <1>4, <1>7, <3>1, <3>2
    <2> QED
      BY <1>1, <1>8, <2>1, <2>2, <2>3 DEF CallRight
  <1>12. ConnRight'
    BY <1>6, <1>7 DEF ConnRight
  <1> QED
    BY <1>1, <1>8, <1>9, <1>10, <1>11, <1>12 DEF GreeterInv

LEMMA HangUpStep ==
    ASSUME GreeterInv, HangUp
    PROVE  GreeterInv'
  <1>1. /\ conn' = [conn EXCEPT !.up = FALSE, !.asked = <<>>]
        /\ UNCHANGED <<ui, call, strays, winner, late, exit>>
    BY DEF HangUp
  <1>2. /\ conn' \in [up : BOOLEAN, asked : Seq(Requests), said : Seq(Replies)]
        /\ conn'.asked = <<>> /\ conn'.said = conn.said
    <2>1. <<>> \in Seq(Requests)
      OBVIOUS
    <2>2. \A e \in Seq(Requests) :
             LET c == [conn EXCEPT !.up = FALSE, !.asked = e] IN
             /\ c \in [up : BOOLEAN, asked : Seq(Requests), said : Seq(Replies)]
             /\ c.asked = e /\ c.said = conn.said
      BY ConnTyped
    <2>3. conn' = [conn EXCEPT !.up = FALSE, !.asked = <<>>]
      BY <1>1
    <2> QED
      BY <2>1, <2>2, <2>3
  <1>3. screen' = screen /\ watch' = watch /\ frame' = frame /\ Pair' = Pair
    BY <1>1 DEF ui, Pair
  <1>4. GreeterTypeOK'
    BY <1>1, <1>2, <1>3 DEF GreeterInv, GreeterTypeOK
  <1>5. Len(conn'.asked) = 0
    BY <1>2
  <1>6. CallRight' /\ ConnRight'
    BY <1>1, <1>2, <1>3, <1>5 DEF GreeterInv, CallRight, ConnRight
  <1> QED
    BY <1>1, <1>3, <1>4, <1>6 DEF GreeterInv

(* A proof accepted elsewhere, or nothing: the exchange under way has had  *)
(* no grant of its own before the first.                                   *)
LEMMA WonElsewhere ==
    ASSUME GreeterInv, winner' = winner \/ winner = Nobody,
           UNCHANGED <<screen, call, conn>>
    PROVE  CallRight'
  BY DEF GreeterInv, CallRight

LEMMA StrayStep ==
    ASSUME GreeterInv, NEW account \in Accounts, NEW wins,
           StrayEnds(account, wins)
    PROVE  GreeterInv'
  <1>1. /\ account \in strays
        /\ strays' = IF wins THEN {} ELSE strays \ {account}
        /\ winner' = IF wins THEN account ELSE winner
        /\ UNCHANGED <<ui, call, conn, late, exit>>
    BY DEF StrayEnds
  <1>2. winner = Nobody
    BY <1>1 DEF GreeterInv, ConnRight
  <1>3. screen' = screen /\ watch' = watch /\ frame' = frame /\ Pair' = Pair
    BY <1>1 DEF ui, Pair
  <1>4. Good(Pair, winner', late)
    BY <1>2, InvParts, WinnerComes
  <1>5. GreeterTypeOK'
    BY <1>1, <1>3 DEF GreeterInv, GreeterTypeOK
  <1>6. CallRight'
    BY <1>1, <1>2, <1>3, WonElsewhere
  <1>7. ConnRight'
    BY <1>1, <1>2 DEF GreeterInv, ConnRight
  <1> QED
    BY <1>1, <1>3, <1>4, <1>5, <1>6, <1>7 DEF GreeterInv

LEMMA SayStep ==
    ASSUME GreeterInv, NEW sensor \in Sensors, NEW event \in Events,
           Say(sensor, event)
    PROVE  GreeterInv'
  <1> DEFINE record == [account |-> watch[sensor].account,
                        inbox   |-> Append(watch[sensor].inbox, event),
                        open    |-> event \in {"prompt", "wash", "unwash"}]
  <1>1. /\ watch[sensor].open
        /\ event \in {"wash", "unwash"} => sensor = "face"
        /\ event = "granted" => winner = Nobody
        /\ watch' = [watch EXCEPT
                       ![sensor].inbox = Append(@, event),
                       ![sensor].open = event \in {"prompt", "wash", "unwash"}]
        /\ winner' = IF event = "granted" THEN watch[sensor].account ELSE winner
        /\ strays' = IF winner' = Nobody THEN strays ELSE {}
        /\ UNCHANGED <<screen, frame, call, conn, late, exit>>
    BY DEF Say
  <1>2. /\ watch \in [Sensors -> Watches] /\ watch[sensor] \in Watches
        /\ watch[sensor].inbox \in Seq(Events)
        /\ watch[sensor].account \in Accounts \cup {Nobody}
    BY InvParts DEF Watches
  <1>3. watch[sensor] # NoWatch
    BY <1>1 DEF NoWatch
  <1>4. /\ watch[sensor].account = Current(screen)
        /\ Current(screen) # Nobody
    BY <1>3, InvParts DEF Good, For
  <1>5. Good(Pair, winner', late)
    <2>1. CASE event = "granted"
      BY <1>1, <2>1, InvParts, WinnerComes
    <2>2. CASE event # "granted"
      BY <1>1, <2>2, InvParts
    <2> QED
      BY <2>1, <2>2
  <1>6. /\ Append(watch[sensor].inbox, event) \in Seq(Events)
        /\ \A i \in 1 .. Len(Append(watch[sensor].inbox, event)) :
              \/ /\ i \in 1 .. Len(watch[sensor].inbox)
                 /\ Append(watch[sensor].inbox, event)[i] = watch[sensor].inbox[i]
              \/ Append(watch[sensor].inbox, event)[i] = event
    BY <1>2, LastOf
  <1>7. /\ record \in Watches
        /\ record.account # Nobody
    BY <1>2, <1>4, <1>6 DEF Watches
  <1>8. watch' = [watch EXCEPT ![sensor] = record]
    <2> DEFINE going == event \in {"prompt", "wash", "unwash"}
               inbox == Append(watch[sensor].inbox, event)
               told == [watch[sensor] EXCEPT !.inbox = inbox]
               once == [watch EXCEPT ![sensor] = told]
    <2>1. once[sensor] = told
      <3> HIDE DEF told
      <3> QED
        BY <1>2
    <2>2. watch' = [once EXCEPT ![sensor] = [once[sensor] EXCEPT !.open = going]]
      BY <1>1
    <2>3. [told EXCEPT !.open = going] = record
      <3>1. told \in Watches /\ told.account = watch[sensor].account
            /\ told.inbox = inbox
        BY <1>2, <1>6 DEF Watches
      <3>2. ASSUME NEW r \in Watches, NEW b \in BOOLEAN
            PROVE  [r EXCEPT !.open = b]
                   = [account |-> r.account, inbox |-> r.inbox, open |-> b]
        BY DEF Watches
      <3>3. going \in BOOLEAN
        OBVIOUS
      <3>4. record = [account |-> told.account, inbox |-> told.inbox, open |-> going]
        BY <3>1
      <3> HIDE DEF told, going, record
      <3> QED
        BY <3>1, <3>2, <3>3, <3>4
    <2>4. watch' = [once EXCEPT ![sensor] = record]
      <3> HIDE DEF once, told, going
      <3> QED
        BY <2>1, <2>2, <2>3
    <2>5. ASSUME NEW a, NEW b
          PROVE  [[watch EXCEPT ![sensor] = a] EXCEPT ![sensor] = b]
                 = [watch EXCEPT ![sensor] = b]
      BY <1>2
    <2> HIDE DEF told, record
    <2> QED
      BY <2>4, <2>5
  <1>9. ChannelOf(record, sensor, winner')
    <2>1. ChannelOf(watch[sensor], sensor, winner')
      BY <1>5 DEF Good, Sound, Pair
    <2> QED
      BY <1>1, <1>6, <2>1 DEF ChannelOf
  <1> HIDE DEF record
  <1>10. /\ watch' \in [Sensors -> Watches]
         /\ watch'[sensor] = record
         /\ \A s \in Sensors \ {sensor} : watch'[s] = watch[s]
    BY <1>2, <1>7, <1>8
  <1>11. record.account = watch[sensor].account /\ record # NoWatch
    BY <1>7 DEF record, NoWatch
  <1>12. Good(Pair', winner', late)
    <2>1. /\ Pair' = [screen |-> screen, watch |-> watch'] /\ Pair' \in Pairs
          /\ Pair'.screen = screen /\ Pair'.watch = watch'
      BY <1>1, <1>10, InvParts DEF Pair, Pairs
    <2>2. ScreenRight(screen, winner', late)
      BY <1>5 DEF Good, Sound, Pair
    <2>3. \A s \in Sensors : ChannelOf(watch'[s], s, winner')
      BY <1>5, <1>9, <1>10 DEF Good, Sound, Pair
    <2>4. Shown(screen, watch')
      <3>1. Shown(screen, watch)
        BY InvParts DEF Good, Sound
      <3>2. \A s \in Sensors : watch[s] # NoWatch => watch'[s] # NoWatch
        BY <1>10, <1>11
      <3> QED
        BY <3>1, <3>2 DEF Shown, Sensors
    <2>5. \A s \in Sensors : For(Pair', s)
      <3>1. \A s \in Sensors : For(Pair, s)
        BY InvParts DEF Good
      <3>2. ASSUME NEW s \in Sensors PROVE For(Pair', s)
        <4>1. CASE s = sensor
          BY <1>4, <1>10, <1>11, <2>1, <4>1 DEF For
        <4>2. CASE s # sensor
          BY <1>10, <2>1, <3>1, <4>2, InvParts DEF For
        <4> QED
          BY <4>1, <4>2
      <3> QED
        BY <3>2
    <2> QED
      BY <2>1, <2>2, <2>3, <2>4, <2>5 DEF Good, Sound
  <1>13. GreeterTypeOK'
    <2>1. winner' \in Accounts \cup {Nobody} /\ strays' \subseteq Accounts
      BY <1>1, <1>2 DEF GreeterInv, GreeterTypeOK
    <2> QED
      BY <1>1, <1>10, <2>1 DEF GreeterInv, GreeterTypeOK, Watches
  <1>14. CallRight'
    BY <1>1, WonElsewhere
  <1>15. ConnRight'
    BY <1>1 DEF GreeterInv, ConnRight
  <1> QED
    BY <1>1, <1>12, <1>13, <1>14, <1>15 DEF GreeterInv

LEMMA ClosedStep ==
    ASSUME ScreenAssumption, Closed
    PROVE  GreeterInv'
  <1>1. /\ exit' = TRUE
        /\ screen' = New(0)
        /\ watch' = [s \in Sensors |-> NoWatch]
        /\ frame' = "failed"
        /\ call' = NoCall /\ conn' = NewConn(<<>>)
        /\ strays' = {} /\ winner' = Nobody /\ late' = FALSE
    BY DEF Closed
  <1>2. /\ NoWatch \in Watches /\ Len(NoWatch.inbox) = 0
    BY DEF NoWatch, Watches
  <1>3. /\ screen' \in Screens
        /\ screen'.users = 0 /\ ~ screen'.dismissing /\ ~ screen'.flash
        /\ \A s \in Sensors : screen'.row[s] = "none"
    BY <1>1 DEF New, Screens, Rows, ScreenAssumption
  <1>4. watch' \in [Sensors -> Watches] /\ \A s \in Sensors : watch'[s] = NoWatch
    BY <1>1, <1>2
  <1>5. Good(Pair', Nobody, FALSE)
    <2>1. Pair' \in Pairs /\ Pair'.screen = screen' /\ Pair'.watch = watch'
      BY <1>3, <1>4 DEF Pair, Pairs
    <2>2. ScreenRight(screen', Nobody, FALSE)
      BY <1>3 DEF ScreenRight
    <2>3. Shown(screen', watch')
      BY <1>3 DEF Shown
    <2>4. \A s \in Sensors : ChannelOf(watch'[s], s, Nobody)
      BY <1>2, <1>4 DEF ChannelOf
    <2>5. \A s \in Sensors : For(Pair', s)
      BY <1>4, <2>1 DEF For
    <2> QED
      BY <2>1, <2>2, <2>3, <2>4, <2>5 DEF Good, Sound
  <1>6. /\ conn' \in [up : BOOLEAN, asked : Seq(Requests), said : Seq(Replies)]
        /\ conn'.asked = <<>>
    <2>1. <<>> \in Seq(Requests) /\ <<>> \in Seq(Replies)
      OBVIOUS
    <2> QED
      BY <1>1, <2>1 DEF NewConn
  <1>7. GreeterTypeOK'
    BY <1>1, <1>3, <1>4, <1>6 DEF GreeterTypeOK, Watches, NoCall
  <1>8. CallRight' /\ ConnRight'
    BY <1>1, <1>6 DEF CallRight, ConnRight, NoCall
  <1> QED
    BY <1>1, <1>5, <1>7, <1>8 DEF GreeterInv

LEMMA GreeterStep ==
    ASSUME ScreenAssumption, GreeterInv, [GreeterNext]_greeter
    PROVE  GreeterInv'
  <1>1. CASE \E painted \in BOOLEAN : Redraw(painted)
    <2>1. PICK painted \in BOOLEAN : Redraw(painted)
      BY <1>1
    <2>2. frame' \in {"coming", "gone", "failed"}
      BY <2>1, PaintedIs DEF Redraw, Draw, GreeterInv, GreeterTypeOK
    <2> QED
      BY <2>1, <2>2, PollStep DEF Redraw, Draw
  <1>2. CASE Draws
    <2>1. PICK painted \in BOOLEAN : Frame(painted)
      BY <1>2 DEF Draws
    <2>2. frame' \in {"coming", "gone", "failed"}
      BY <2>1, PaintedIs DEF Frame
    <2> QED
      BY <2>1, <2>2, PollStep DEF Frame
  <1>3. CASE \E painted \in BOOLEAN : Enter(painted)
    BY <1>3, EnterStep
  <1>4. CASE \E painted \in BOOLEAN : \E step \in {1, screen.users - 1},
                reached \in SUBSET Sensors : Tab(step, reached, painted)
    BY <1>4, TabStep
  <1>5. CASE Exchanges
    BY <1>5, ReadReplyStep, ReconnectStep, GiveUpStep DEF Exchanges
  <1>6. CASE \E verdict \in Verdicts : Serve(verdict)
    BY <1>6, ServeStep
  <1>7. CASE HangUp
    BY <1>7, HangUpStep
  <1>8. CASE \E sensor \in Sensors, event \in Events : Say(sensor, event)
    BY <1>8, SayStep
  <1>9. CASE \E account \in Accounts, wins \in BOOLEAN : StrayEnds(account, wins)
    BY <1>9, StrayStep
  <1>10. CASE Closed
    BY <1>10, ClosedStep
  <1>11. CASE UNCHANGED greeter
    <2>1. Pair' = Pair
      BY <1>11 DEF greeter, Pair
    <2> QED
      BY <1>11, <2>1
         DEF greeter, GreeterInv, GreeterTypeOK, CallRight, ConnRight
  <1> QED
    BY <1>1, <1>2, <1>3, <1>4, <1>5, <1>6, <1>7, <1>8, <1>9, <1>10, <1>11
       DEF GreeterNext

(* The greeter's invariant holds after every handler, whatever is drained  *)
(* in it and whatever the daemon has answered (raven-greeter/src/main.rs:  *)
(* 271-747).                                                               *)
THEOREM GreeterInvariant == GreeterSpec => []GreeterInv
  <1>1. GreeterInit => GreeterInv
    BY ScreenAssumption, GreeterAssumption, GreeterStarts
  <1>2. GreeterInv /\ [GreeterNext]_greeter => GreeterInv'
    BY ScreenAssumption, GreeterStep
  <1> QED
    BY <1>1, <1>2, PTL DEF GreeterSpec

(* The greeter's variables keep their types (raven-greeter/src/main.rs:79- *)
(* 110, 428-546).                                                          *)
THEOREM GreeterTypes == GreeterSpec => []GreeterTypeOK
  <1>1. GreeterInv => GreeterTypeOK
    BY DEF GreeterInv
  <1> QED
    BY <1>1, GreeterInvariant, PTL

(* Whoever the screen lets go is who the session is for, save where a      *)
(* grant that answers an older request was read for a newer one: for any   *)
(* accounts and any number of events drained at once (main.rs:704-747).    *)
THEOREM SessionIsForWhoLeaves == GreeterSpec => []NameStays
  <1>1. GreeterInv => NameStays
    BY InvParts DEF NameStays, Good, Sound, ScreenRight
  <1> QED
    BY <1>1, GreeterInvariant, PTL

(* The screen speaks of a sensor only while it is watched, and lights the  *)
(* room only for the camera, however many events a drawing drains and in   *)
(* whatever order they come (main.rs:271-425, 498-515).                    *)
THEOREM RowsFollowWatches == GreeterSpec => []SensorsShown
  <1>1. GreeterInv => SensorsShown
    BY InvParts DEF SensorsShown, Good, Sound, Shown, For
  <1> QED
    BY <1>1, GreeterInvariant, PTL
=============================================================================
