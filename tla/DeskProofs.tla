------------------------------ MODULE DeskProofs -----------------------------
(***************************************************************************)
(* Desk for any threads, accounts, names of records, uses and bounds.      *)
(***************************************************************************)
EXTENDS Desk, FiniteSetTheorems, TLAPS

-----------------------------------------------------------------------------
(* Types: whoever is about something is so for an account.                 *)

OwnAccounts ==
    /\ \A t \in Threads : task[t].at # "idle" => task[t].account \in Accounts
    /\ \A t \in Threads : task[t].at \in {"connecting", "enrolling"}
                          => task[t].name # All
    /\ helper.at \notin {"none", "lost"} => helper.account \in Accounts

Typed == TypeOK /\ IsFiniteSet(orphans) /\ OwnAccounts

LEMMA InitTyped == Init => Typed
<1> SUFFICES ASSUME Init PROVE Typed
  OBVIOUS
<1>1. IsFiniteSet(orphans) /\ Cardinality(orphans) = 0
  BY FS_EmptySet DEF Init
<1>2. stored \subseteq Records
  BY DEF Init
<1>3. Idle \in Tasks /\ NoHelper \in Helpers
  BY LinesAssumption DEF Idle, Tasks, NoHelper, Helpers, All
<1>4. OwnAccounts
  BY DEF Init, OwnAccounts, Idle, NoHelper
<1> QED
  BY <1>1, <1>2, <1>3, <1>4, DeskAssumption DEF Init, Typed, TypeOK

(* A thread takes up, goes on with or drops a request.                     *)
Task(it) ==
    /\ it \in Tasks
    /\ it.at # "idle" => it.account \in Accounts
    /\ it.at \in {"connecting", "enrolling"} => it.name # All
OwnTasks == \A t \in Threads : Task(task[t])

Ats == {"idle", "loaded", "saving", "asked", "listing", "clearing",
        "connecting", "enrolling"}

LEMMA TypedTasks ==
    Typed => task \in [Threads -> Tasks] /\ OwnTasks
BY DEF Typed, TypeOK, OwnAccounts, OwnTasks, Task

LEMMA SwitchTask ==
    ASSUME NEW at \in {"loaded", "saving"}, NEW account \in Accounts,
           NEW want \in SUBSET Uses
    PROVE  Task([Idle EXCEPT !.at = at, !.account = account, !.want = want])
BY DEF Task, Tasks, Idle

LEMMA RecordTask ==
    ASSUME NEW at \in {"loaded", "asked"}, NEW account \in Accounts,
           NEW name \in Known \cup {All}
    PROVE  Task([Idle EXCEPT !.at = at, !.account = account, !.name = name])
BY DEF Task, Tasks, Idle, Names

LEMMA IdleTask == Task(Idle)
BY LinesAssumption DEF Task, Tasks, Idle, Names

LEMMA NextTask ==
    ASSUME NEW it, Task(it), it.at # "idle", NEW at \in Ats,
           at \in {"connecting", "enrolling"} => it.name # All
    PROVE  Task([it EXCEPT !.at = at])
BY DEF Task, Tasks, Ats

LEMMA ProvedTask ==
    ASSUME NEW it, Task(it), it.at # "idle", NEW at \in Ats,
           at \in {"connecting", "enrolling"} => it.name # All
    PROVE  Task([it EXCEPT !.at = at, !.proved = TRUE])
BY DEF Task, Tasks, Ats

LEMMA NamedTask ==
    ASSUME NEW it, Task(it), it.at # "idle",
           NEW at \in Ats \ {"connecting", "enrolling"}
    PROVE  Task([it EXCEPT !.at = at, !.name = All])
BY DEF Task, Tasks, Ats

LEMMA TaskSet ==
    ASSUME Typed, NEW t \in Threads, NEW it, Task(it),
           task' = [task EXCEPT ![t] = it]
    PROVE  task' \in [Threads -> Tasks] /\ OwnTasks'
<1>1. task \in [Threads -> Tasks] /\ OwnTasks
  BY TypedTasks
<1> QED
  BY <1>1 DEF OwnTasks, Task

(* The rest of the types, for a step of a thread.                          *)
Rest ==
    /\ sensor \in Sensors /\ stored \subseteq Records
    /\ policy \in [Accounts -> SUBSET Uses]
    /\ blessed \in [Accounts -> SUBSET Uses]
    /\ holder \in Threads \cup {"helper", Nobody}
    /\ orphans \subseteq Requests /\ Cardinality(orphans) <= MaxOrphans
    /\ IsFiniteSet(orphans)
    /\ helper \in Helpers
    /\ (helper.at \notin {"none", "lost"} => helper.account \in Accounts)
    /\ echo \in BOOLEAN
    /\ old \subseteq Accounts /\ excused \subseteq Accounts
    /\ late \subseteq Threads

LEMMA TypedParts ==
    Typed <=> Rest /\ task \in [Threads -> Tasks] /\ OwnTasks
BY DEF Typed, TypeOK, OwnAccounts, OwnTasks, Task, Rest

LEMMA TypedPartsNext ==
    Rest' /\ task' \in [Threads -> Tasks] /\ OwnTasks' => Typed'
BY DEF Typed, TypeOK, OwnAccounts, OwnTasks, Task, Rest

LEMMA StepTyped ==
    ASSUME Typed, NEW t \in Threads, NEW it, Task(it), Rest',
           task' = [task EXCEPT ![t] = it]
    PROVE  Typed'
BY TaskSet, TypedPartsNext

LEMMA ErasureTyped ==
    ASSUME Typed, NEW gone, Erase(gone)
    PROVE  /\ stored' \subseteq Records /\ old' \subseteq Accounts
           /\ late' \subseteq Threads
BY DEF Typed, TypeOK, Erase

(* What the threads of the settings do to the types.                       *)
LEMMA SettingsTyped ==
    ASSUME Typed, NEW t \in Threads, Settings(t)
    PROVE  Typed'
<1>0. Rest /\ task \in [Threads -> Tasks] /\ Task(task[t]) /\ Task(Idle)
  BY TypedParts, IdleTask DEF OwnTasks
<1>a. ASSUME UNCHANGED <<desk, helper, echo, past>>
      PROVE  Rest'
  BY <1>0, <1>a DEF Rest, desk, past
<1>b. Idle.name = All /\ Idle.want = {} /\ Idle.proved = FALSE
  BY DEF Idle
<1>1. ASSUME NEW account \in Accounts, NEW next \in SUBSET Uses,
             SetPolicy(t, account, next)
      PROVE  Typed'
  <2> DEFINE at == IF Widens(policy[account], next)
                   THEN "loaded" ELSE "saving"
             it == [Idle EXCEPT !.at = at, !.account = account, !.want = next]
  <2>1. task' = [task EXCEPT ![t] = it]
    BY <1>1 DEF SetPolicy
  <2>2. at \in {"loaded", "saving"}
    OBVIOUS
  <2>3. Task(it)
    <3> HIDE DEF at
    <3> QED BY <2>2, SwitchTask
  <2>4. Rest'
    BY <1>0, <1>1 DEF Rest, SetPolicy, desk
  <2> QED
    <3> HIDE DEF it
    <3> QED BY <2>1, <2>3, <2>4, StepTyped
<1>2. ASSUME NEW account \in Accounts, NEW name \in Known,
             Enrol(t, account, name)
      PROVE  Typed'
  <2> DEFINE it == [Idle EXCEPT !.at = "loaded", !.account = account,
                                !.name = name]
  <2>1. task' = [task EXCEPT ![t] = it]
    BY <1>2 DEF Enrol
  <2>2. Task(it)
    BY RecordTask
  <2> QED
    <3> HIDE DEF it
    <3> QED BY <1>2, <1>a, <2>1, <2>2, StepTyped DEF Enrol
<1>3. ASSUME NEW account \in Accounts, NEW name \in Known \cup {All},
             Forget(t, account, name)
      PROVE  Typed'
  <2> DEFINE it == [Idle EXCEPT !.at = "asked", !.account = account,
                                !.name = name]
  <2>1. task' = [task EXCEPT ![t] = it]
    BY <1>3 DEF Forget
  <2>2. Task(it)
    BY RecordTask
  <2> QED
    <3> HIDE DEF it
    <3> QED BY <1>3, <1>a, <2>1, <2>2, StepTyped DEF Forget
<1>4. ASSUME NEW right \in BOOLEAN, CheckPassword(t, right)
      PROVE  Typed'
  <2>1. UNCHANGED <<desk, helper, echo, past>> /\ task[t].at # "idle"
    BY <1>4 DEF CheckPassword
  <2>2. CASE ~ right
    BY <1>0, <1>4, <1>a, <2>1, <2>2, StepTyped DEF CheckPassword, Done
  <2>3. CASE right
    <3> DEFINE at == IF task[t].name = All THEN "saving" ELSE "connecting"
               it == [task[t] EXCEPT !.at = at, !.proved = TRUE]
    <3>1. task' = [task EXCEPT ![t] = it]
      BY <1>0, <1>4, <2>3 DEF CheckPassword
    <3>2. at \in Ats
      BY DEF Ats
    <3>3. Task(it)
      <4>1. at \in {"connecting", "enrolling"} => task[t].name # All
        OBVIOUS
      <4> HIDE DEF at
      <4> QED BY <1>0, <2>1, <3>2, <4>1, ProvedTask
    <3> QED
      <4> HIDE DEF it
      <4> QED BY <1>a, <2>1, <3>1, <3>3, StepTyped
  <2> QED BY <2>2, <2>3
<1>5. ASSUME NEW heard \in BOOLEAN, ForgetGivenUp(t, heard)
      PROVE  Typed'
  <2> DEFINE request == [account |-> task[t].account, name |-> task[t].name]
  <2>1. request \in Requests
    BY <1>0, <1>5 DEF ForgetGivenUp, Requests, Task, Tasks
  <2>2. /\ orphans' \subseteq Requests /\ IsFiniteSet(orphans')
        /\ Cardinality(orphans') <= MaxOrphans
    <3>1. CASE heard
      <4>1. orphans' = orphans \cup {request}
        BY <1>5, <3>1 DEF ForgetGivenUp
      <4>2. Cardinality(orphans) < MaxOrphans
        BY <1>5, <3>1 DEF ForgetGivenUp
      <4>3. IsFiniteSet(orphans) /\ orphans \subseteq Requests
        BY <1>0 DEF Rest
      <4>4. /\ IsFiniteSet(orphans \cup {request})
            /\ \/ Cardinality(orphans \cup {request}) = Cardinality(orphans)
               \/ Cardinality(orphans \cup {request}) = Cardinality(orphans) + 1
        BY <4>3, FS_AddElement
      <4>5. Cardinality(orphans) \in Nat
        BY <4>3, FS_CardinalityType
      <4> HIDE DEF request
      <4> QED
        BY <2>1, <4>1, <4>2, <4>3, <4>4, <4>5, DeskAssumption
    <3>2. CASE ~ heard
      BY <1>0, <1>5, <3>2 DEF ForgetGivenUp, Rest
    <3> QED BY <3>1, <3>2
  <2>3. Rest'
    BY <1>0, <1>5, <2>2 DEF Rest, ForgetGivenUp, past
  <2> QED
    BY <1>0, <1>5, <2>3, StepTyped DEF ForgetGivenUp, Done
<1>6. ASSUME NEW listed \in BOOLEAN, List(t, listed)
      PROVE  Typed'
  <2>1. Rest'
    BY <1>0, <1>6 DEF Rest, List
  <2>2. PICK it : Task(it) /\ task' = [task EXCEPT ![t] = it]
    <3>1. task[t].at # "idle" /\ "clearing" \in Ats
      BY <1>6 DEF List, Ats
    <3>2. Task([task[t] EXCEPT !.at = "clearing"])
      BY <1>0, <3>1, NextTask
    <3> QED BY <1>0, <1>6, <3>2 DEF List, Become, Done
  <2> QED BY <2>1, <2>2, StepTyped
<1>7. ASSUME NEW removed \in BOOLEAN, Clear(t, removed)
      PROVE  Typed'
  <2>1. Rest'
    BY <1>0, <1>7 DEF Rest, Clear
  <2> QED BY <1>0, <1>7, <2>1, StepTyped DEF Clear, Done
<1>8. ASSUME NEW served \in BOOLEAN, Connected(t, served)
      PROVE  Typed'
  <2>1. Rest'
    BY <1>0, <1>8 DEF Rest, Connected, past
  <2>2. PICK it : Task(it) /\ task' = [task EXCEPT ![t] = it]
    <3>1. task[t].at # "idle" /\ task[t].name # All /\ "enrolling" \in Ats
      BY <1>0, <1>8 DEF Connected, Ats, Task
    <3>2. Task([task[t] EXCEPT !.at = "enrolling"])
      BY <1>0, <3>1, NextTask
    <3> QED BY <1>0, <1>8, <3>2 DEF Connected, Become, Done
  <2> QED BY <2>1, <2>2, StepTyped
<1>9. ASSUME NEW line \in Lines, NEW kept \in BOOLEAN, Enrolled(t, line, kept)
      PROVE  Typed'
  <2>1. stored' \subseteq Records
    <3>1. stored \subseteq Records
      BY <1>0 DEF Rest
    <3>2. task[t].account \in Accounts
      BY <1>0, <1>9 DEF Enrolled, Task
    <3>3. task[t].name \in Names
      BY <1>0, <1>9 DEF Enrolled, Task, Tasks
    <3> QED
      BY <1>9, <3>1, <3>2, <3>3 DEF Enrolled, Records, Names
  <2>2. Rest'
    BY <1>0, <1>9, <2>1 DEF Rest, Enrolled, past
  <2> QED BY <1>0, <1>9, <2>2, StepTyped DEF Enrolled, Done
<1>10. CASE Save(t)
  <2>1. task[t].want \in SUBSET Uses /\ task[t].account \in Accounts
    BY <1>0, <1>10 DEF Task, Tasks, Save
  <2>2. old' \subseteq Accounts /\ excused' \subseteq Accounts
    BY <1>0, <1>10, <2>1 DEF Rest, Save
  <2>3. Rest'
    BY <1>0, <1>10, <2>1, <2>2 DEF Rest, Save
  <2> QED BY <1>0, <1>10, <2>3, StepTyped DEF Save, Done
<1>11. CASE SaveFails(t)
  <2>1. Rest'
    BY <1>0, <1>11 DEF Rest, SaveFails, desk
  <2> QED BY <1>0, <1>11, <2>1, StepTyped DEF SaveFails, Done
<1>12. ASSUME NEW line \in Lines, ForgetAnswered(t, line)
       PROVE  Typed'
  <2>1. CASE ForgetSays(line) # "done"
    <3>1. Rest'
      BY <1>0, <1>12, <2>1 DEF Rest, ForgetAnswered
    <3> QED BY <1>0, <1>12, <2>1, <3>1, StepTyped DEF ForgetAnswered, Done
  <2>2. CASE ForgetSays(line) = "done"
    <3>1. /\ stored' \subseteq Records /\ old' \subseteq Accounts
          /\ late' \subseteq Threads
      BY <1>12, <2>2, ErasureTyped DEF ForgetAnswered
    <3>2. excused' \subseteq Accounts
      BY <1>0, <1>12, <2>2, <3>1 DEF Rest, ForgetAnswered
    <3>3. Rest'
      BY <1>0, <1>12, <2>2, <3>1, <3>2 DEF Rest, ForgetAnswered
    <3>4. Task([task[t] EXCEPT !.at = "listing", !.name = All])
      <4>1. task[t].at # "idle" /\ "listing" \in Ats \ {"connecting", "enrolling"}
        BY <1>12 DEF ForgetAnswered, Ats
      <4> QED BY <1>0, <4>1, NamedTask
    <3>5. task' = [task EXCEPT ![t] =
                     [task[t] EXCEPT !.at = "listing", !.name = All]]
      BY <1>0, <1>12, <2>2 DEF ForgetAnswered
    <3> QED BY <3>3, <3>4, <3>5, StepTyped
  <2> QED BY <2>1, <2>2
<1> QED
  BY <1>1, <1>2, <1>3, <1>4, <1>5, <1>6, <1>7, <1>8, <1>9, <1>10, <1>11,
     <1>12 DEF Settings

(* A line that nobody waits for.                                           *)
LEMMA OrphanTyped ==
    ASSUME Typed, NEW request \in orphans, NEW obeyed \in BOOLEAN,
           OrphanServed(request, obeyed)
    PROVE  Typed'
<1>0. Rest /\ task \in [Threads -> Tasks] /\ OwnTasks
  BY TypedParts
<1>1. UNCHANGED <<task, helper, sensor, policy, holder, echo, blessed>>
  BY DEF OrphanServed
<1>2. /\ stored' \subseteq Records /\ old' \subseteq Accounts
      /\ late' \subseteq Threads
  BY <1>0, ErasureTyped DEF OrphanServed, Rest
<1>3. excused' \subseteq Accounts
  BY <1>0, <1>2 DEF OrphanServed, Rest
<1>4. /\ orphans' \subseteq Requests /\ IsFiniteSet(orphans')
      /\ Cardinality(orphans') <= MaxOrphans
  <2>1. orphans' = orphans \ {request}
    BY DEF OrphanServed
  <2>2. IsFiniteSet(orphans) /\ Cardinality(orphans) <= MaxOrphans
    BY <1>0 DEF Rest
  <2>3. /\ IsFiniteSet(orphans \ {request})
        /\ Cardinality(orphans \ {request}) = Cardinality(orphans) - 1
    BY <2>2, FS_RemoveElement
  <2>4. Cardinality(orphans) \in Nat
    BY <2>2, FS_CardinalityType
  <2> QED BY <1>0, <2>1, <2>2, <2>3, <2>4, DeskAssumption DEF Rest
<1>5. Rest'
  BY <1>0, <1>1, <1>2, <1>3, <1>4 DEF Rest
<1>6. task' \in [Threads -> Tasks] /\ OwnTasks'
  BY <1>0, <1>1 DEF OwnTasks
<1> QED BY <1>5, <1>6, TypedPartsNext

(* The helper is as it should be, or gone.                                 *)
Whole(it) ==
    it \in Helpers /\ (it.at \notin {"none", "lost"} => it.account \in Accounts)

LEMMA NoHelperWhole == Whole(NoHelper)
BY LinesAssumption DEF Whole, NoHelper, Helpers

LEMMA LeavesTyped ==
    ASSUME Typed, NEW left, Whole(left), NEW restored \in BOOLEAN,
           Leaves(left, restored)
    PROVE  /\ Whole(helper') /\ echo' \in BOOLEAN
           /\ holder' \in Threads \cup {"helper", Nobody}
<1>1. Whole(helper)
  BY TypedParts DEF Rest, Whole
<1>2. Whole(Lost)
  BY <1>1, NoHelperWhole DEF Whole, Lost, Helpers
<1>3. /\ echo \in BOOLEAN /\ helper' \in {left, Lost}
      /\ holder \in Threads \cup {"helper", Nobody}
  BY TypedParts DEF Leaves, Rest
<1>4. echo' = (echo \/ restored)
  BY DEF Leaves
<1>5. holder' \in {holder, Nobody}
  BY DEF Leaves
<1> QED
  BY <1>2, <1>3, <1>4, <1>5

LEMMA HelperSet ==
    ASSUME Typed, Whole(helper'), echo' \in BOOLEAN,
           holder' \in Threads \cup {"helper", Nobody},
           UNCHANGED <<sensor, stored, policy, orphans, task, past>>
    PROVE  Typed'
<1>1. Rest /\ task \in [Threads -> Tasks] /\ OwnTasks
  BY TypedParts
<1>2. Rest'
  BY <1>1 DEF Rest, Whole, past
<1>3. task' \in [Threads -> Tasks] /\ OwnTasks'
  BY <1>1 DEF OwnTasks
<1> QED BY <1>2, <1>3, TypedPartsNext

LEMMA SudoTyped ==
    ASSUME Typed, Sudo
    PROVE  Typed'
<1>0. /\ Whole(helper) /\ echo \in BOOLEAN
      /\ holder \in Threads \cup {"helper", Nobody}
  BY TypedParts DEF Rest, Whole
<1>a. ASSUME NEW at \in {"listed", "silent", "watching", "verdict"},
             helper.at \notin {"none", "lost"}
      PROVE  Whole([helper EXCEPT !.at = at])
  BY <1>0, <1>a DEF Whole, Helpers
<1>1. ASSUME NEW account \in Accounts, SudoAsks(account)
      PROVE  Typed'
  <2>1. Whole([NoHelper EXCEPT !.at = "permitted", !.account = account])
    BY NoHelperWhole DEF Whole, Helpers
  <2> QED BY <1>0, <1>1, <2>1, HelperSet DEF SudoAsks, desk
<1>2. CASE FingersListed
  BY <1>0, <1>a, <1>2, HelperSet DEF FingersListed, Helper
<1>3. CASE StepsAside
  BY <1>3, LeavesTyped, NoHelperWhole, HelperSet DEF StepsAside
<1>4. ASSUME NEW off \in BOOLEAN, Quiet(off)
      PROVE  Typed'
  BY <1>0, <1>a, <1>4, HelperSet DEF Quiet, Helper, desk
<1>5. ASSUME NEW handler \in BOOLEAN, NEW guard \in BOOLEAN,
             GuardsInstalled(handler, guard)
      PROVE  Typed'
  <2>1. Whole(helper')
    BY <1>0, <1>5 DEF GuardsInstalled, Whole, Helpers
  <2> QED BY <1>0, <1>5, <2>1, HelperSet DEF GuardsInstalled, desk
<1>6. ASSUME NEW line \in Lines, Sensed(line)
      PROVE  Typed'
  <2>1. helper.at = "watching"
    BY <1>6 DEF Sensed
  <2>2. line.owner \in Accounts \cup {Nobody}
    BY DEF Lines
  <2>3. Whole([helper EXCEPT !.at = "verdict", !.matched = line.owner])
    BY <1>0, <2>1, <2>2 DEF Whole, Helpers
  <2>4. helper.misses + 1 < MaxMisses =>
          Whole([helper EXCEPT !.misses = helper.misses + 1])
    BY <1>0, <2>1, LinesAssumption DEF Whole, Helpers
  <2>5. helper.misses \in Nat /\ MaxMisses \in Nat
    BY <1>0, LinesAssumption DEF Whole, Helpers
  <2>6. Whole([helper EXCEPT !.at = "verdict"])
    BY <1>a, <2>1
  <2>7. Whole(helper')
    <3>1. VerifySays(line, helper.account) \in
             {"matched", "missed", "failed", "again"}
      BY DEF VerifySays
    <3>2. CASE VerifySays(line, helper.account) = "matched"
      BY <1>6, <2>3, <3>2 DEF Sensed
    <3>3. CASE VerifySays(line, helper.account) = "missed"
      <4>1. helper' = IF helper.misses + 1 >= MaxMisses
                      THEN [helper EXCEPT !.at = "verdict"]
                      ELSE [helper EXCEPT !.misses = helper.misses + 1]
        BY <1>6, <3>3 DEF Sensed, Helper
      <4> QED BY <2>4, <2>5, <2>6, <4>1
    <3>4. CASE VerifySays(line, helper.account) = "failed"
      BY <1>6, <2>6, <3>4 DEF Sensed, Helper
    <3>5. CASE VerifySays(line, helper.account) = "again"
      BY <1>0, <1>6, <3>5 DEF Sensed
    <3> QED BY <3>1, <3>2, <3>3, <3>4, <3>5
  <2> QED BY <1>0, <1>6, <2>7, HelperSet DEF Sensed, desk
<1>7. CASE WaitEnds
  BY <1>0, <1>a, <1>7, HelperSet DEF WaitEnds, Helper, desk
<1>8. CASE HelperEnds
  <2> DEFINE left == IF helper.matched = Nobody THEN NoHelper
                     ELSE [NoHelper EXCEPT !.at = "granted",
                                           !.account = helper.account,
                                           !.matched = helper.matched]
  <2>1. helper.account \in Accounts /\ helper.guard \in BOOLEAN
    BY <1>0, <1>8 DEF HelperEnds, Whole, Helpers
  <2>2. Whole(left)
    BY <1>0, <2>1, NoHelperWhole DEF Whole, Helpers
  <2>3. Leaves(left, helper.guard)
    BY <1>8 DEF HelperEnds
  <2> HIDE DEF left
  <2> QED BY <1>8, <2>1, <2>2, <2>3, LeavesTyped, HelperSet DEF HelperEnds
<1>9. CASE Signalled
  <2>1. helper.handler \in BOOLEAN
    BY <1>0 DEF Whole, Helpers
  <2> QED
    BY <1>9, <2>1, LeavesTyped, NoHelperWhole, HelperSet DEF Signalled
<1> QED
  BY <1>1, <1>2, <1>3, <1>4, <1>5, <1>6, <1>7, <1>8, <1>9 DEF Sudo

LEMMA NextTyped == Typed /\ [Next]_vars => Typed'
<1> SUFFICES ASSUME Typed, [Next]_vars PROVE Typed'
  OBVIOUS
<1>1. CASE UNCHANGED vars
  BY <1>1 DEF Typed, TypeOK, OwnAccounts, vars, desk, past
<1>2. CASE Next
  BY <1>2, SettingsTyped, OrphanTyped, SudoTyped DEF Next
<1> QED BY <1>1, <1>2

(* Desk's variables keep their types; nobody asks for no account.          *)
THEOREM DeskTypes == Spec => []Typed
BY InitTyped, NextTyped, PTL DEF Spec

-----------------------------------------------------------------------------
(* The terminal.                                                           *)

EchoInv ==
    /\ helper.at \in {"none", "permitted", "listed", "granted"} => echo
    /\ helper.at = "lost" => ~ helper.handler \/ ~ helper.guard

LEMMA OthersKeepHelper ==
    ASSUME \/ \E t \in Threads : Settings(t)
           \/ \E request \in orphans, obeyed \in BOOLEAN :
                 OrphanServed(request, obeyed)
    PROVE  UNCHANGED <<helper, echo>>
<1>1. ASSUME NEW t \in Threads, Settings(t)
      PROVE  UNCHANGED <<helper, echo>>
  BY <1>1 DEF Settings, SetPolicy, Enrol, Forget, CheckPassword,
              ForgetGivenUp, List, Clear, Connected, Enrolled, Save,
              SaveFails, ForgetAnswered
<1>2. ASSUME NEW request \in orphans, NEW obeyed \in BOOLEAN,
             OrphanServed(request, obeyed)
      PROVE  UNCHANGED <<helper, echo>>
  BY <1>2 DEF OrphanServed
<1> QED BY <1>1, <1>2

LEMMA EchoStep == Typed /\ EchoInv /\ [Next]_vars => EchoInv'
<1> SUFFICES ASSUME Typed, EchoInv, [Next]_vars PROVE EchoInv'
  OBVIOUS
<1>0. helper \in Helpers /\ echo \in BOOLEAN
  BY DEF Typed, TypeOK
<1>1. CASE UNCHANGED <<helper, echo>>
  BY <1>1 DEF EchoInv
<1>2. ASSUME NEW left, left.at \in {"none", "granted"}, NEW restored \in BOOLEAN,
             Leaves(left, restored),
             ~ echo /\ ~ restored => ~ helper.handler \/ ~ helper.guard
      PROVE  EchoInv'
  <2>1. CASE echo'
    BY <1>2, <2>1 DEF Leaves, EchoInv
  <2>2. CASE ~ echo'
    <3>1. helper' = Lost /\ ~ echo /\ ~ restored
      BY <1>2, <2>2 DEF Leaves
    <3>2. ~ helper.handler \/ ~ helper.guard
      BY <1>2, <3>1
    <3>3. /\ Lost.at = "lost" /\ Lost.handler = helper.handler
          /\ Lost.guard = helper.guard
      BY DEF Lost, NoHelper
    <3> QED BY <3>1, <3>2, <3>3 DEF EchoInv
  <2> QED BY <2>1, <2>2
<1>3. NoHelper.at = "none"
  BY DEF NoHelper
<1>4. CASE Sudo
  <2>1. ASSUME NEW account \in Accounts, SudoAsks(account)
        PROVE  EchoInv'
    <3>1. helper'.at = "permitted" /\ echo /\ echo' = echo
      BY <2>1 DEF SudoAsks, EchoInv, Gone, NoHelper
    <3> QED BY <3>1 DEF EchoInv
  <2>2. CASE FingersListed
    <3>1. helper'.at = "listed" /\ echo /\ echo' = echo
      BY <1>0, <2>2 DEF FingersListed, Helper, EchoInv, Helpers
    <3> QED BY <3>1 DEF EchoInv
  <2>3. CASE StepsAside
    <3>1. echo /\ Leaves(NoHelper, FALSE)
      BY <2>3 DEF StepsAside, EchoInv
    <3>2. echo' /\ helper' = NoHelper
      BY <3>1 DEF Leaves
    <3> QED BY <1>3, <3>2 DEF EchoInv
  <2>4. ASSUME NEW off \in BOOLEAN, Quiet(off)
        PROVE  EchoInv'
    <3>1. helper'.at \in {"silent", "watching"}
      BY <1>0, <2>4 DEF Quiet, Helper, Helpers
    <3> QED BY <3>1 DEF EchoInv
  <2>5. ASSUME NEW handler \in BOOLEAN, NEW guard \in BOOLEAN,
               GuardsInstalled(handler, guard)
        PROVE  EchoInv'
    <3>1. helper'.at = "watching"
      BY <1>0, <2>5 DEF GuardsInstalled, Helpers
    <3> QED BY <3>1 DEF EchoInv
  <2>6. ASSUME NEW line \in Lines, Sensed(line)
        PROVE  EchoInv'
    <3>1. helper'.at \in {"watching", "verdict"}
      <4>1. VerifySays(line, helper.account) \in
               {"matched", "missed", "failed", "again"}
        BY DEF VerifySays
      <4>2. /\ helper.at = "watching"
            /\ \/ helper' = helper
               \/ helper' = [helper EXCEPT !.misses = helper.misses + 1]
               \/ helper' = [helper EXCEPT !.at = "verdict",
                                           !.matched = line.owner]
               \/ helper' = [helper EXCEPT !.at = "verdict"]
        BY <2>6, <4>1 DEF Sensed, Helper
      <4> QED BY <1>0, <4>2 DEF Helpers
    <3> QED BY <3>1 DEF EchoInv
  <2>7. CASE WaitEnds
    <3>1. helper'.at = "verdict"
      BY <1>0, <2>7 DEF WaitEnds, Helper, Helpers
    <3> QED BY <3>1 DEF EchoInv
  <2>8. CASE HelperEnds
    <3> DEFINE left == IF helper.matched = Nobody THEN NoHelper
                       ELSE [NoHelper EXCEPT !.at = "granted",
                                             !.account = helper.account,
                                             !.matched = helper.matched]
    <3>1. left.at \in {"none", "granted"}
      BY DEF NoHelper
    <3>2. Leaves(left, helper.guard) /\ helper.guard \in BOOLEAN
      BY <1>0, <2>8 DEF HelperEnds, Helpers
    <3> HIDE DEF left
    <3> QED BY <1>2, <3>1, <3>2
  <2>9. CASE Signalled
    BY <1>0, <1>2, <1>3, <2>9 DEF Signalled, Helpers
  <2> QED
    BY <1>4, <2>1, <2>2, <2>3, <2>4, <2>5, <2>6, <2>7, <2>8, <2>9 DEF Sudo
<1> QED BY <1>1, <1>4, OthersKeepHelper DEF Next, vars

(* A helper that has installed its handler and its guard gives the         *)
(* terminal its echo back however it ends (raven-finger-auth.rs:391).      *)
THEOREM TerminalSpeaksAgain == Spec => []EchoComesBack
<1>1. Init => EchoInv
  BY DEF Init, EchoInv, NoHelper
<1>2. EchoInv => EchoComesBack
  BY DEF EchoInv, EchoComesBack, Gone
<1> QED
  BY <1>1, <1>2, EchoStep, DeskTypes, PTL DEF Spec

-----------------------------------------------------------------------------
(* The switches and the password.                                          *)

Backed(it, by) ==
    it.at = "saving" /\ ~ it.proved => it.want \subseteq by[it.account]

BlessedInv == OnlyByPassword /\ \A t \in Threads : Backed(task[t], blessed)

(* What the password has once allowed stays allowed.                       *)
Kept == \A a \in Accounts : blessed[a] \subseteq blessed'[a]

LEMMA BlessedSet ==
    ASSUME Typed, BlessedInv, OnlyByPassword', Kept, NEW t \in Threads,
           NEW it, Task(it), Backed(it, blessed'), task' = [task EXCEPT ![t] = it]
    PROVE  BlessedInv'
<1> SUFFICES ASSUME NEW u \in Threads PROVE Backed(task'[u], blessed')
  BY DEF BlessedInv
<1>1. CASE u = t
  <2>1. task'[u] = it
    BY <1>1, TypedTasks
  <2> QED BY <2>1 DEF Backed
<1>2. CASE u # t
  <2>1. task'[u] = task[u] /\ Task(task[u])
    BY <1>2, TypedTasks DEF OwnTasks
  <2>2. Backed(task[u], blessed)
    BY DEF BlessedInv
  <2> QED BY <2>1, <2>2 DEF Backed, Task, Kept
<1> QED BY <1>1, <1>2

LEMMA SettingsBlessed ==
    ASSUME Typed, BlessedInv, NEW t \in Threads, Settings(t)
    PROVE  BlessedInv' /\ Kept
<1>0. /\ task \in [Threads -> Tasks] /\ Task(task[t]) /\ Task(Idle)
      /\ Backed(task[t], blessed) /\ OnlyByPassword
  BY TypedTasks, IdleTask DEF OwnTasks, BlessedInv
<1>1. /\ policy \in [Accounts -> SUBSET Uses]
      /\ blessed \in [Accounts -> SUBSET Uses]
  BY DEF Typed, TypeOK
<1>2. Idle.at = "idle"
  BY DEF Idle
<1>a. ASSUME UNCHANGED <<policy, blessed>>
      PROVE  OnlyByPassword' /\ Kept
  BY <1>0, <1>a DEF OnlyByPassword, Kept
<1>b. ASSUME NEW it, Task(it), it.at # "saving", UNCHANGED <<policy, blessed>>,
             task' = [task EXCEPT ![t] = it]
      PROVE  BlessedInv' /\ Kept
  <2>1. Backed(it, blessed')
    BY <1>b DEF Backed
  <2> QED BY <1>a, <1>b, <2>1, BlessedSet
<1>c. ASSUME UNCHANGED <<policy, blessed>>, task' = [task EXCEPT ![t] = Idle]
      PROVE  BlessedInv' /\ Kept
  BY <1>0, <1>2, <1>b, <1>c
<1>3. ASSUME NEW account \in Accounts, NEW next \in SUBSET Uses,
             SetPolicy(t, account, next)
      PROVE  BlessedInv' /\ Kept
  <2> DEFINE at == IF Widens(policy[account], next)
                   THEN "loaded" ELSE "saving"
             it == [Idle EXCEPT !.at = at, !.account = account, !.want = next]
  <2>1. task' = [task EXCEPT ![t] = it] /\ UNCHANGED <<policy, blessed>>
    BY <1>3 DEF SetPolicy, desk, past
  <2>2. Task(it)
    <3>1. at \in {"loaded", "saving"}
      OBVIOUS
    <3> HIDE DEF at
    <3> QED BY <3>1, SwitchTask
  <2>3. it.at = at /\ it.want = next /\ it.account = account
    BY DEF Idle
  <2>4. at = "saving" => next \subseteq blessed[account]
    BY <1>0, <1>1 DEF Widens, OnlyByPassword
  <2>5. Backed(it, blessed')
    <3> HIDE DEF it, at
    <3> QED BY <2>1, <2>3, <2>4 DEF Backed
  <2> HIDE DEF it
  <2> QED BY <1>a, <2>1, <2>2, <2>5, BlessedSet
<1>4. ASSUME NEW account \in Accounts, NEW name \in Known,
             Enrol(t, account, name)
      PROVE  BlessedInv' /\ Kept
  <2> DEFINE it == [Idle EXCEPT !.at = "loaded", !.account = account,
                                !.name = name]
  <2>1. task' = [task EXCEPT ![t] = it] /\ UNCHANGED <<policy, blessed>>
    BY <1>4 DEF Enrol, desk, past
  <2>2. Task(it) /\ it.at # "saving"
    BY RecordTask DEF Idle
  <2> HIDE DEF it
  <2> QED BY <1>b, <2>1, <2>2
<1>5. ASSUME NEW account \in Accounts, NEW name \in Known \cup {All},
             Forget(t, account, name)
      PROVE  BlessedInv' /\ Kept
  <2> DEFINE it == [Idle EXCEPT !.at = "asked", !.account = account,
                                !.name = name]
  <2>1. task' = [task EXCEPT ![t] = it] /\ UNCHANGED <<policy, blessed>>
    BY <1>5 DEF Forget, desk, past
  <2>2. Task(it) /\ it.at # "saving"
    BY RecordTask DEF Idle
  <2> HIDE DEF it
  <2> QED BY <1>b, <2>1, <2>2
<1>6. ASSUME NEW right \in BOOLEAN, CheckPassword(t, right)
      PROVE  BlessedInv' /\ Kept
  <2>1. UNCHANGED <<policy, blessed>> /\ task[t].at # "idle"
    BY <1>6 DEF CheckPassword, desk, past
  <2>2. CASE ~ right
    BY <1>6, <1>c, <2>1, <2>2 DEF CheckPassword, Done
  <2>3. CASE right
    <3> DEFINE at == IF task[t].name = All THEN "saving" ELSE "connecting"
               it == [task[t] EXCEPT !.at = at, !.proved = TRUE]
    <3>1. task' = [task EXCEPT ![t] = it]
      BY <1>0, <1>6, <2>3 DEF CheckPassword
    <3>2. at \in Ats /\ (at \in {"connecting", "enrolling"} => task[t].name # All)
      BY DEF Ats
    <3>3. Task(it)
      <4> HIDE DEF at
      <4> QED BY <1>0, <2>1, <3>2, ProvedTask
    <3>4. it.proved
      BY <1>0 DEF Task, Tasks
    <3>5. Backed(it, blessed')
      <4> HIDE DEF it
      <4> QED BY <3>4 DEF Backed
    <3> HIDE DEF it
    <3> QED BY <1>a, <2>1, <3>1, <3>3, <3>5, BlessedSet
  <2> QED BY <2>2, <2>3
<1>7. ASSUME NEW heard \in BOOLEAN, ForgetGivenUp(t, heard)
      PROVE  BlessedInv' /\ Kept
  BY <1>7, <1>c DEF ForgetGivenUp, Done, past
<1>8. ASSUME NEW listed \in BOOLEAN, List(t, listed)
      PROVE  BlessedInv' /\ Kept
  <2>1. task[t].at # "idle" /\ "clearing" \in Ats
    BY <1>8 DEF List, Ats
  <2>2. Task([task[t] EXCEPT !.at = "clearing"])
    BY <1>0, <2>1, NextTask
  <2>3. [task[t] EXCEPT !.at = "clearing"].at # "saving"
    BY <1>0 DEF Task, Tasks
  <2> QED BY <1>0, <1>8, <1>b, <1>c, <2>2, <2>3 DEF List, Become, Done
<1>9. ASSUME NEW removed \in BOOLEAN, Clear(t, removed)
      PROVE  BlessedInv' /\ Kept
  <2>1. blessed' = blessed /\ policy' \in
           {policy, [policy EXCEPT ![task[t].account] = {}]}
    BY <1>9 DEF Clear
  <2>2. OnlyByPassword' /\ Kept
    BY <1>0, <1>1, <2>1 DEF OnlyByPassword, Kept
  <2>3. Backed(Idle, blessed')
    BY <1>2 DEF Backed
  <2> QED BY <1>0, <1>9, <2>2, <2>3, BlessedSet DEF Clear, Done
<1>10. ASSUME NEW served \in BOOLEAN, Connected(t, served)
       PROVE  BlessedInv' /\ Kept
  <2>1. task[t].at # "idle" /\ task[t].name # All /\ "enrolling" \in Ats
    BY <1>0, <1>10 DEF Connected, Ats, Task
  <2>2. Task([task[t] EXCEPT !.at = "enrolling"])
    BY <1>0, <2>1, NextTask
  <2>3. [task[t] EXCEPT !.at = "enrolling"].at # "saving"
    BY <1>0 DEF Task, Tasks
  <2> QED BY <1>0, <1>10, <1>b, <1>c, <2>2, <2>3 DEF Connected, Become, Done, past
<1>11. ASSUME NEW line \in Lines, NEW kept \in BOOLEAN, Enrolled(t, line, kept)
       PROVE  BlessedInv' /\ Kept
  BY <1>11, <1>c DEF Enrolled, Done, past
<1>12. CASE Save(t)
  <2> DEFINE account == task[t].account
             want == task[t].want
  <2>1. account \in Accounts /\ want \in SUBSET Uses /\ task[t].at = "saving"
    BY <1>0, <1>12 DEF Task, Tasks, Save
  <2>2. /\ policy' = [policy EXCEPT ![account] = want]
        /\ blessed' = [blessed EXCEPT ![account] =
                         IF task[t].proved THEN @ \cup want ELSE @]
    BY <1>12 DEF Save
  <2>3. task[t].proved \/ want \subseteq blessed[account]
    BY <1>0, <2>1 DEF Backed
  <2>4. Kept
    BY <1>1, <2>1, <2>2 DEF Kept
  <2>5. want \subseteq blessed'[account]
    BY <1>1, <2>1, <2>2, <2>3
  <2>6. OnlyByPassword'
    <3> HIDE DEF account, want
    <3>1. \A a \in Accounts : a # account => policy'[a] = policy[a]
      BY <1>1, <2>2
    <3>2. policy'[account] = want
      BY <1>1, <2>1, <2>2
    <3> QED BY <1>0, <2>4, <2>5, <3>1, <3>2 DEF OnlyByPassword, Kept
  <2>7. Backed(Idle, blessed')
    BY <1>2 DEF Backed
  <2> QED BY <1>0, <1>12, <2>4, <2>6, <2>7, BlessedSet DEF Save, Done
<1>13. CASE SaveFails(t)
  BY <1>13, <1>c DEF SaveFails, Done, desk, past
<1>14. ASSUME NEW line \in Lines, ForgetAnswered(t, line)
       PROVE  BlessedInv' /\ Kept
  <2>1. UNCHANGED <<policy, blessed>>
    BY <1>14 DEF ForgetAnswered
  <2>2. CASE ForgetSays(line) # "done"
    BY <1>14, <1>c, <2>1, <2>2 DEF ForgetAnswered, Done
  <2>3. CASE ForgetSays(line) = "done"
    <3> DEFINE it == [task[t] EXCEPT !.at = "listing", !.name = All]
    <3>1. task[t].at # "idle" /\ "listing" \in Ats \ {"connecting", "enrolling"}
      BY <1>14 DEF ForgetAnswered, Ats
    <3>2. Task(it)
      BY <1>0, <3>1, NamedTask
    <3>3. it.at # "saving"
      BY <1>0 DEF Task, Tasks
    <3>4. task' = [task EXCEPT ![t] = it]
      BY <1>0, <1>14, <2>3 DEF ForgetAnswered
    <3> HIDE DEF it
    <3> QED BY <1>b, <2>1, <3>2, <3>3, <3>4
  <2> QED BY <2>2, <2>3
<1> QED
  BY <1>3, <1>4, <1>5, <1>6, <1>7, <1>8, <1>9, <1>10, <1>11, <1>12, <1>13,
     <1>14 DEF Settings

LEMMA OthersKeepBlessed ==
    ASSUME \/ Sudo
           \/ \E request \in orphans, obeyed \in BOOLEAN :
                 OrphanServed(request, obeyed)
    PROVE  UNCHANGED <<policy, blessed, task>>
<1>1. CASE Sudo
  BY <1>1 DEF Sudo, SudoAsks, FingersListed, StepsAside, Quiet,
              GuardsInstalled, Sensed, WaitEnds, HelperEnds, Signalled,
              desk, past
<1>2. ASSUME NEW request \in orphans, NEW obeyed \in BOOLEAN,
             OrphanServed(request, obeyed)
      PROVE  UNCHANGED <<policy, blessed, task>>
  BY <1>2 DEF OrphanServed
<1> QED BY <1>1, <1>2

LEMMA BlessedStep == Typed /\ BlessedInv /\ [Next]_vars => BlessedInv' /\ Kept
<1> SUFFICES ASSUME Typed, BlessedInv, [Next]_vars PROVE BlessedInv' /\ Kept
  OBVIOUS
<1>1. CASE UNCHANGED <<policy, blessed, task>>
  BY <1>1 DEF BlessedInv, Backed, OnlyByPassword, Kept
<1>2. CASE \E t \in Threads : Settings(t)
  BY <1>2, SettingsBlessed
<1>3. UNCHANGED vars => UNCHANGED <<policy, blessed, task>>
  BY DEF vars, desk, past
<1> QED BY <1>1, <1>2, <1>3, OthersKeepBlessed DEF Next

LEMMA InitBlessed == Init => BlessedInv
BY DEF Init, BlessedInv, OnlyByPassword, Backed, Idle

(* Nothing is ever switched on that the password has not allowed once,     *)
(* whatever is changed, removed and failed at the same time                *)
(* (verify.rs:323).                                                        *)
THEOREM SwitchesGoBackToPassword == Spec => []OnlyByPassword
<1>1. BlessedInv => OnlyByPassword
  BY DEF BlessedInv
<1> QED
  BY <1>1, InitBlessed, BlessedStep, DeskTypes, PTL DEF Spec

-----------------------------------------------------------------------------
(* sudo.                                                                   *)

Allowed(it, by) ==
    it.at \notin {"none", "lost"} =>
        /\ "sudo" \in by[it.account]
        /\ it.matched \in {Nobody, it.account}
        /\ it.at = "granted" => it.matched = it.account

SudoInv == Allowed(helper, blessed)

LEMMA SudoStep ==
    Typed /\ BlessedInv /\ SudoInv /\ [Next]_vars => SudoInv'
<1> SUFFICES ASSUME Typed, BlessedInv, SudoInv, [Next]_vars PROVE SudoInv'
  OBVIOUS
<1>0. /\ helper \in Helpers
      /\ helper.at \notin {"none", "lost"} => helper.account \in Accounts
      /\ Kept
  BY BlessedStep, TypedParts DEF Rest
<1>1. CASE UNCHANGED helper
  BY <1>0, <1>1 DEF SudoInv, Allowed, Kept
<1>2. NoHelper.at = "none" /\ Lost.at = "lost"
  BY DEF NoHelper, Lost
<1>3. CASE Sudo
  <2>1. ASSUME NEW account \in Accounts, SudoAsks(account)
        PROVE  SudoInv'
    <3>1. helper'.account = account /\ helper'.matched = Nobody
          /\ helper'.at = "permitted"
      BY <2>1 DEF SudoAsks, NoHelper
    <3>2. "sudo" \in blessed'[account]
      BY <1>0, <2>1 DEF SudoAsks, BlessedInv, OnlyByPassword, Kept
    <3> QED BY <3>1, <3>2 DEF SudoInv, Allowed
  <2>2. CASE helper'.at \in {"none", "lost"}
    BY <2>2 DEF SudoInv, Allowed
  <2>3. ASSUME NEW at \in {"listed", "silent", "watching", "verdict"},
               helper.at \notin {"none", "lost", "granted"}, Helper(at)
        PROVE  SudoInv'
    <3>1. /\ helper'.at = at /\ helper'.account = helper.account
          /\ helper'.matched = helper.matched
      BY <1>0, <2>3 DEF Helper, Helpers
    <3> QED BY <1>0, <2>3, <3>1 DEF SudoInv, Allowed, Kept
  <2>4. CASE FingersListed
    BY <2>3, <2>4 DEF FingersListed
  <2>5. CASE StepsAside
    BY <1>2, <2>2, <2>5 DEF StepsAside, Leaves
  <2>6. ASSUME NEW off \in BOOLEAN, Quiet(off)
        PROVE  SudoInv'
    BY <2>3, <2>6 DEF Quiet
  <2>7. ASSUME NEW handler \in BOOLEAN, NEW guard \in BOOLEAN,
               GuardsInstalled(handler, guard)
        PROVE  SudoInv'
    <3>1. /\ helper.at = "silent" /\ helper'.at = "watching"
          /\ helper'.account = helper.account
          /\ helper'.matched = helper.matched
      BY <1>0, <2>7 DEF GuardsInstalled, Helpers
    <3> QED BY <1>0, <3>1 DEF SudoInv, Allowed, Kept
  <2>8. ASSUME NEW line \in Lines, Sensed(line)
        PROVE  SudoInv'
    <3>1. VerifySays(line, helper.account) \in
             {"matched", "missed", "failed", "again"}
      BY DEF VerifySays
    <3>2. helper.at = "watching"
      BY <2>8 DEF Sensed
    <3>3. CASE VerifySays(line, helper.account) = "matched"
      <4>1. line.owner = helper.account
        BY <3>3 DEF VerifySays
      <4>2. helper' = [helper EXCEPT !.at = "verdict", !.matched = line.owner]
        BY <2>8, <3>3 DEF Sensed
      <4>3. /\ helper'.at = "verdict" /\ helper'.account = helper.account
            /\ helper'.matched = helper.account
        BY <1>0, <4>1, <4>2 DEF Helpers
      <4> QED BY <1>0, <3>2, <4>3 DEF SudoInv, Allowed, Kept
    <3>4. CASE VerifySays(line, helper.account) # "matched"
      <4>1. \/ Helper("verdict") \/ UNCHANGED helper
            \/ helper' = [helper EXCEPT !.misses = helper.misses + 1]
        BY <2>8, <3>1, <3>4 DEF Sensed
      <4>2. CASE helper' = [helper EXCEPT !.misses = helper.misses + 1]
        <5>1. /\ helper'.at = helper.at /\ helper'.account = helper.account
              /\ helper'.matched = helper.matched
          BY <1>0, <4>2 DEF Helpers
        <5> QED BY <1>0, <3>2, <5>1 DEF SudoInv, Allowed, Kept
      <4> QED BY <1>1, <2>3, <3>2, <4>1, <4>2
    <3> QED BY <3>3, <3>4
  <2>9. CASE WaitEnds
    BY <2>3, <2>9 DEF WaitEnds
  <2>10. CASE HelperEnds
    <3>1. helper.at = "verdict"
      BY <2>10 DEF HelperEnds
    <3>2. CASE helper'.at \in {"none", "lost"}
      BY <2>2, <3>2
    <3>3. CASE helper'.at \notin {"none", "lost"}
      <4>1. /\ helper.matched # Nobody
            /\ helper' = [NoHelper EXCEPT !.at = "granted",
                                          !.account = helper.account,
                                          !.matched = helper.matched]
        BY <1>2, <2>10, <3>3 DEF HelperEnds, Leaves
      <4>2. /\ helper'.at = "granted" /\ helper'.account = helper.account
            /\ helper'.matched = helper.matched
        BY <4>1 DEF NoHelper
      <4> QED BY <1>0, <3>1, <4>1, <4>2 DEF SudoInv, Allowed, Kept
    <3> QED BY <3>2, <3>3
  <2>11. CASE Signalled
    BY <1>2, <2>2, <2>11 DEF Signalled, Leaves
  <2> QED
    BY <1>3, <2>1, <2>4, <2>5, <2>6, <2>7, <2>8, <2>9, <2>10, <2>11 DEF Sudo
<1> QED BY <1>1, <1>3, OthersKeepHelper DEF Next, vars

(* A finger stands in for sudo's password only for the account it is of,   *)
(* and only by a switch that account's password has turned on              *)
(* (raven-finger-auth.rs:128).                                             *)
THEOREM FingerStandsForPassword == Spec => []SudoGoesBackToPassword
<1>1. Init => SudoInv
  BY DEF Init, SudoInv, Allowed, NoHelper
<1>2. SudoInv => SudoGoesBackToPassword
  BY DEF SudoInv, Allowed, SudoGoesBackToPassword
<1> QED
  BY <1>1, <1>2, InitBlessed, BlessedStep, SudoStep, DeskTypes, PTL DEF Spec

-----------------------------------------------------------------------------
(* Forgetting.                                                             *)

Busy == {"listing", "clearing", "enrolling"}

(* The connection that took the last record of an account is still held,   *)
(* by the thread that is to take the account's switches.                   *)
Underway(a) ==
    /\ HasNone(a)
    /\ holder \in Threads
    /\ task[holder].at \in {"listing", "clearing"}
    /\ task[holder].account = a

ClearInv ==
    /\ \A t \in Threads : task[t].at \in Busy => holder = t
    /\ \A a \in old \ excused : Underway(a)

(* Nothing comes back, or nothing is being forgotten.                      *)
Careful ==
    /\ ClearInv'
    /\ sensor' = sensor
    /\ stored' \subseteq stored \/ old \subseteq excused

LEMMA FreeIsForgotten ==
    ASSUME ClearInv, Free
    PROVE  /\ old \subseteq excused
           /\ \A t \in Threads : task[t].at \notin Busy
BY DeskAssumption DEF ClearInv, Underway, Free

LEMMA HeldIsOne ==
    ASSUME Typed, ClearInv, NEW t \in Threads, task[t].at \in Busy
    PROVE  /\ holder = t
           /\ \A u \in Threads : task[u].at \in Busy => u = t
           /\ \A a \in old \ excused : a = task[t].account /\ HasNone(a)
           /\ task[t].at = "enrolling" => old \subseteq excused
BY DEF ClearInv, Underway

(* A step of a thread that does not hold the connection.                   *)
LEMMA AsideCareful ==
    ASSUME Typed, ClearInv, NEW t \in Threads, task[t].at \notin Busy,
           NEW it, it.at \notin Busy, task' = [task EXCEPT ![t] = it],
           UNCHANGED <<sensor, stored, holder>>,
           old' \ excused' \subseteq old \ excused
    PROVE  Careful
<1>0. \A u \in Threads : task'[u] = IF u = t THEN it ELSE task[u]
  BY TypedTasks
<1>1. \A u \in Threads : task'[u].at \in Busy => holder' = u
  BY <1>0 DEF ClearInv
<1>2. ASSUME NEW a \in old' \ excused'
      PROVE  Underway(a)'
  <2>1. Underway(a)
    BY <1>2 DEF ClearInv
  <2>2. holder \in Threads /\ holder # t
    BY <2>1 DEF Underway, Busy
  <2>3. task'[holder'] = task[holder]
    BY <1>0, <2>2
  <2> QED BY <2>1, <2>2, <2>3 DEF Underway, HasNone
<1> QED BY <1>1, <1>2 DEF Careful, ClearInv

(* A step after which no connection is held by a thread.                   *)
LEMMA DoneCareful ==
    ASSUME Typed, NEW t \in Threads, task' = [task EXCEPT ![t] = Idle],
           \A u \in Threads : task[u].at \in Busy => u = t,
           old' \subseteq excused', sensor' = sensor,
           stored' \subseteq stored \/ old \subseteq excused
    PROVE  Careful
<1>1. \A u \in Threads : task'[u] = IF u = t THEN Idle ELSE task[u]
  BY TypedTasks
<1>2. Idle.at \notin Busy
  BY DEF Idle, Busy
<1> QED BY <1>1, <1>2 DEF Careful, ClearInv

LEMMA ErasesOnly ==
    ASSUME NEW gone, Erase(gone)
    PROVE  stored' \subseteq stored /\ old \subseteq old'
BY DEF Erase

LEMMA SettingsCareful ==
    ASSUME Typed, ClearInv, NEW t \in Threads, Settings(t)
    PROVE  Careful
<1>0. /\ task \in [Threads -> Tasks] /\ Task(task[t])
      /\ Idle.at = "idle" /\ "idle" \notin Busy
  BY TypedTasks DEF OwnTasks, Idle, Busy
<1>1. ASSUME NEW account \in Accounts, NEW next \in SUBSET Uses,
             SetPolicy(t, account, next)
      PROVE  Careful
  <2> DEFINE at == IF Widens(policy[account], next)
                   THEN "loaded" ELSE "saving"
             it == [Idle EXCEPT !.at = at, !.account = account, !.want = next]
  <2>1. task[t].at \notin Busy /\ task' = [task EXCEPT ![t] = it]
    BY <1>0, <1>1 DEF SetPolicy
  <2>2. it.at \notin Busy
    BY DEF Idle, Busy
  <2>3. UNCHANGED <<sensor, stored, holder, old, excused>>
    BY <1>1 DEF SetPolicy, desk, past
  <2> HIDE DEF it
  <2> QED BY <2>1, <2>2, <2>3, AsideCareful
<1>2. ASSUME NEW account \in Accounts, NEW name \in Known,
             Enrol(t, account, name)
      PROVE  Careful
  <2> DEFINE it == [Idle EXCEPT !.at = "loaded", !.account = account,
                                !.name = name]
  <2>1. task[t].at \notin Busy /\ task' = [task EXCEPT ![t] = it]
    BY <1>0, <1>2 DEF Enrol
  <2>2. it.at \notin Busy
    BY DEF Idle, Busy
  <2>3. UNCHANGED <<sensor, stored, holder, old, excused>>
    BY <1>2 DEF Enrol, desk, past
  <2> HIDE DEF it
  <2> QED BY <2>1, <2>2, <2>3, AsideCareful
<1>3. ASSUME NEW account \in Accounts, NEW name \in Known \cup {All},
             Forget(t, account, name)
      PROVE  Careful
  <2> DEFINE it == [Idle EXCEPT !.at = "asked", !.account = account,
                                !.name = name]
  <2>1. task[t].at \notin Busy /\ task' = [task EXCEPT ![t] = it]
    BY <1>0, <1>3 DEF Forget
  <2>2. it.at \notin Busy
    BY DEF Idle, Busy
  <2>3. UNCHANGED <<sensor, stored, holder, old, excused>>
    BY <1>3 DEF Forget, desk, past
  <2> HIDE DEF it
  <2> QED BY <2>1, <2>2, <2>3, AsideCareful
<1>4. ASSUME NEW right \in BOOLEAN, CheckPassword(t, right)
      PROVE  Careful
  <2>1. UNCHANGED <<sensor, stored, holder, old, excused>>
    BY <1>4 DEF CheckPassword, desk, past
  <2>2. task[t].at \notin Busy
    BY <1>4 DEF CheckPassword, Busy
  <2>3. CASE ~ right
    BY <1>0, <1>4, <2>1, <2>2, <2>3, AsideCareful DEF CheckPassword, Done
  <2>4. CASE right
    <3> DEFINE at == IF task[t].name = All THEN "saving" ELSE "connecting"
               it == [task[t] EXCEPT !.at = at, !.proved = TRUE]
    <3>1. task' = [task EXCEPT ![t] = it]
      BY <1>0, <1>4, <2>4 DEF CheckPassword
    <3>2. it.at \notin Busy
      BY <1>0 DEF Task, Tasks, Busy
    <3> HIDE DEF it
    <3> QED BY <2>1, <2>2, <3>1, <3>2, AsideCareful
  <2> QED BY <2>3, <2>4
<1>5. ASSUME NEW heard \in BOOLEAN, ForgetGivenUp(t, heard)
      PROVE  Careful
  <2>1. task[t].at \notin Busy
    BY <1>5 DEF ForgetGivenUp, Busy
  <2> QED BY <1>0, <1>5, <2>1, AsideCareful DEF ForgetGivenUp, Done, past
<1>6. ASSUME NEW listed \in BOOLEAN, List(t, listed)
      PROVE  Careful
  <2> DEFINE account == task[t].account
             none == listed /\ HasNone(account)
  <2>1. task[t].at \in Busy /\ task[t].at = "listing"
    BY <1>6 DEF List, Busy
  <2>2. /\ \A u \in Threads : task[u].at \in Busy => u = t
        /\ \A a \in old \ excused : a = account /\ HasNone(a)
    BY <2>1, HeldIsOne
  <2>3. UNCHANGED <<sensor, stored, old>>
    BY <1>6 DEF List
  <2>4. CASE none
    <3>1. /\ task' = [task EXCEPT ![t].at = "clearing"]
          /\ holder' = t /\ excused' = excused
      BY <1>6, <2>4 DEF List, Become
    <3>2. \A u \in Threads : u # t => task'[u] = task[u]
      BY <1>0, <3>1
    <3>3. task'[t].at = "clearing" /\ task'[t].account = account
      BY <1>0, <3>1 DEF Task, Tasks
    <3>4. \A u \in Threads : task'[u].at \in Busy => holder' = u
      BY <2>2, <3>1, <3>2
    <3>5. \A a \in old' \ excused' : Underway(a)'
      BY <2>2, <2>3, <3>1, <3>3 DEF Underway, HasNone
    <3> QED BY <2>3, <3>4, <3>5 DEF Careful, ClearInv
  <2>5. CASE ~ none
    <3>1. task' = [task EXCEPT ![t] = Idle]
      BY <1>6, <2>5 DEF List, Done
    <3>2. excused' = IF listed THEN excused
                     ELSE excused \cup (old \cap {account})
      BY <1>6 DEF List
    <3>3. old' \subseteq excused'
      BY <2>2, <2>3, <2>5, <3>2
    <3> QED BY <2>2, <2>3, <3>1, <3>3, DoneCareful
  <2> QED BY <2>4, <2>5
<1>7. ASSUME NEW removed \in BOOLEAN, Clear(t, removed)
      PROVE  Careful
  <2>1. task[t].at \in Busy
    BY <1>7 DEF Clear, Busy
  <2>2. /\ \A u \in Threads : task[u].at \in Busy => u = t
        /\ \A a \in old \ excused : a = task[t].account
    BY <2>1, HeldIsOne
  <2>3. old' \subseteq excused'
    BY <1>7, <2>2 DEF Clear
  <2> QED BY <1>7, <2>2, <2>3, DoneCareful DEF Clear, Done
<1>8. ASSUME NEW served \in BOOLEAN, Connected(t, served)
      PROVE  Careful
  <2>1. UNCHANGED <<sensor, stored, old, excused>>
    BY <1>8 DEF Connected, past
  <2>2. task[t].at \notin Busy
    BY <1>8 DEF Connected, Busy
  <2>3. CASE ~ served
    BY <1>0, <1>8, <2>1, <2>2, <2>3, AsideCareful DEF Connected, Done
  <2>4. CASE served
    <3>1. /\ Free /\ holder' = t
          /\ task' = [task EXCEPT ![t].at = "enrolling"]
      BY <1>8, <2>4 DEF Connected, Become
    <3>2. /\ old \subseteq excused
          /\ \A u \in Threads : task[u].at \notin Busy
      BY <3>1, FreeIsForgotten
    <3>3. \A u \in Threads : u # t => task'[u] = task[u]
      BY <1>0, <3>1
    <3> QED BY <2>1, <3>1, <3>2, <3>3 DEF Careful, ClearInv
  <2> QED BY <2>3, <2>4
<1>9. ASSUME NEW line \in Lines, NEW kept \in BOOLEAN, Enrolled(t, line, kept)
      PROVE  Careful
  <2>1. task[t].at \in Busy /\ task[t].at = "enrolling"
    BY <1>9 DEF Enrolled, Busy
  <2>2. /\ \A u \in Threads : task[u].at \in Busy => u = t
        /\ old \subseteq excused
    BY <2>1, HeldIsOne
  <2>3. UNCHANGED <<sensor, old, excused>>
    BY <1>9 DEF Enrolled, past
  <2> QED BY <1>9, <2>2, <2>3, DoneCareful DEF Enrolled, Done
<1>10. CASE Save(t)
  <2>1. task[t].at \notin Busy
    BY <1>10 DEF Save, Busy
  <2>2. old' \ excused' \subseteq old \ excused
    BY <1>10 DEF Save
  <2> QED BY <1>0, <1>10, <2>1, <2>2, AsideCareful DEF Save, Done
<1>11. CASE SaveFails(t)
  <2>1. task[t].at \notin Busy
    BY <1>11 DEF SaveFails, Busy
  <2> QED
    BY <1>0, <1>11, <2>1, AsideCareful DEF SaveFails, Done, desk, past
<1>12. ASSUME NEW line \in Lines, ForgetAnswered(t, line)
       PROVE  Careful
  <2>1. /\ task[t].at \notin Busy /\ Free /\ sensor' = sensor
    BY <1>12 DEF ForgetAnswered, Busy
  <2>2. /\ old \subseteq excused
        /\ \A u \in Threads : task[u].at \notin Busy
    BY <2>1, FreeIsForgotten
  <2>3. CASE ForgetSays(line) # "done"
    BY <1>0, <1>12, <2>1, <2>3, AsideCareful DEF ForgetAnswered, Done
  <2>4. CASE ForgetSays(line) = "done"
    <3> DEFINE account == task[t].account
               gone == Erased(sensor, account, task[t].name, stored)
    <3>1. /\ Erase(gone) /\ holder' = t
          /\ excused' = {a \in excused \cup (old' \ old) :
                           a = account => Listed(sensor, a, stored') # {}}
          /\ task' = [task EXCEPT ![t].at = "listing", ![t].name = All]
      BY <1>12, <2>4 DEF ForgetAnswered
    <3>2. stored' \subseteq stored
      BY <3>1, ErasesOnly
    <3>3. \A u \in Threads : u # t => task'[u] = task[u]
      BY <1>0, <3>1
    <3>4. task'[t].at = "listing" /\ task'[t].account = account
      BY <1>0, <3>1 DEF Task, Tasks
    <3>5. \A a \in old' \ excused' :
             a = account /\ Listed(sensor, a, stored') = {}
      BY <2>2, <3>1
    <3>6. \A a \in old' \ excused' : Underway(a)'
      BY <2>1, <3>1, <3>4, <3>5 DEF Underway, HasNone
    <3>7. \A u \in Threads : task'[u].at \in Busy => holder' = u
      BY <2>2, <3>1, <3>3
    <3> QED BY <2>1, <3>2, <3>6, <3>7 DEF Careful, ClearInv
  <2> QED BY <2>3, <2>4
<1> QED
  BY <1>1, <1>2, <1>3, <1>4, <1>5, <1>6, <1>7, <1>8, <1>9, <1>10, <1>11,
     <1>12 DEF Settings

LEMMA OrphanCareful ==
    ASSUME Typed, ClearInv, NEW request \in orphans, NEW obeyed \in BOOLEAN,
           OrphanServed(request, obeyed)
    PROVE  Careful
<1>1. /\ Free /\ UNCHANGED <<sensor, task, holder>>
  BY DEF OrphanServed
<1>2. /\ old \subseteq excused
      /\ \A t \in Threads : task[t].at \notin Busy
  BY <1>1, FreeIsForgotten
<1>3. old' \subseteq excused'
  BY <1>2 DEF OrphanServed
<1> QED BY <1>1, <1>2, <1>3 DEF Careful, ClearInv

LEMMA SudoCareful ==
    ASSUME Typed, ClearInv, Sudo
    PROVE  Careful
<1>1. UNCHANGED <<sensor, stored, task, old, excused>>
  BY DEF Sudo, SudoAsks, FingersListed, StepsAside, Quiet, GuardsInstalled,
         Sensed, WaitEnds, HelperEnds, Signalled, desk, past
<1>2. holder \in Threads => holder' = holder
  BY DeskAssumption DEF Sudo, SudoAsks, FingersListed, StepsAside, Quiet,
         GuardsInstalled, Sensed, WaitEnds, HelperEnds, Signalled, Leaves,
         Free, desk
<1>3. \A t \in Threads : task'[t].at \in Busy => holder' = t
  BY <1>1, <1>2 DEF ClearInv
<1>4. \A a \in old' \ excused' : Underway(a)'
  BY <1>1, <1>2 DEF ClearInv, Underway, HasNone
<1> QED BY <1>1, <1>3, <1>4 DEF Careful, ClearInv

LEMMA ClearStep == Typed /\ ClearInv /\ [Next]_vars => Careful
<1> SUFFICES ASSUME Typed, ClearInv, [Next]_vars PROVE Careful
  OBVIOUS
<1>1. CASE UNCHANGED vars
  BY <1>1 DEF Careful, ClearInv, Underway, HasNone, vars, desk, past
<1>2. CASE Next
  BY <1>2, SettingsCareful, OrphanCareful, SudoCareful DEF Next
<1> QED BY <1>1, <1>2

(* The switches an account had before its last record went do not find     *)
(* their way to the next one that is enrolled (finger.rs:161), save where  *)
(* the removal went wrong or was somebody else's, or a change that took no *)
(* password was compared before the removal and saved after it: whatever   *)
(* is saved without a password and was compared with those switches counts *)
(* as from before.                                                         *)
THEOREM OldSwitchesStayOff == Spec => ForgottenStaysOff
<1>1. Init => ClearInv
  BY DEF Init, ClearInv, Idle, Busy
<1>2. Typed /\ ClearInv /\ [Next]_vars => ClearInv'
  BY ClearStep DEF Careful
<1>3. Typed /\ ClearInv /\ [Next]_vars =>
        [\A a \in Accounts :
            HasNone(a) /\ Listed(sensor', a, stored') # {}
            => a \notin old \/ a \in excused]_vars
  <2>1. ASSUME Careful, NEW a \in Accounts,
               HasNone(a), Listed(sensor', a, stored') # {}
        PROVE  a \notin old \/ a \in excused
    <3>1. CASE stored' \subseteq stored
      BY <2>1, <3>1 DEF Careful, HasNone, Listed
    <3>2. CASE old \subseteq excused
      BY <3>2
    <3> QED BY <2>1, <3>1, <3>2 DEF Careful
  <2> QED BY <2>1, ClearStep
<1> QED
  BY <1>1, <1>2, <1>3, DeskTypes, PTL DEF Spec, ForgottenStaysOff
=============================================================================
