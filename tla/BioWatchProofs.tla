---------------------------- MODULE BioWatchProofs ----------------------------
(***************************************************************************)
(* BioWatch for any number of conversations, accounts, misses and rebinds. *)
(***************************************************************************)
EXTENDS BioWatch, FiniteSetTheorems, TLAPS

-----------------------------------------------------------------------------
(* Types.  A conversation under way has a sensor, and one that is idle has *)
(* no follower.                                                            *)

HasSensor == \A w \in Watches : place[w] # "idle" => sensor[w] \in Sensors

IdleAlone == \A w \in Watches : place[w] = "idle" => follower[w] = "none"

Typed == TypeOK /\ HasSensor /\ IdleAlone

LEMMA InitTyped == Init => Typed
  BY WatchAssumption
     DEF Init, Typed, TypeOK, HasSensor, IdleAlone, Places, Sensors

(* What every way out of a conversation does to it, and to nobody else.    *)
LEMMA OverTyped ==
    ASSUME Typed, NEW w \in Watches, Over(w),
           strikes' \in [Sensors -> [Accounts -> 0 .. 255]],
           aged' \in [Sensors -> [Accounts -> BOOLEAN]]
    PROVE  Typed'
<1> USE WatchAssumption
<1>1. TypeOK'
  <2>1. /\ place' \in [Watches -> Places]
        /\ task' \in [Watches -> {"none", "watch", "enrol"}]
        /\ sensor' \in [Watches -> Sensors \cup {"none"}]
    BY DEF Over, Goto, Typed, TypeOK, Places
  <2>2. /\ allowed' \in [Watches -> 0 .. MaxMisses]
        /\ misses' \in [Watches -> 0 .. MaxMisses]
        /\ rebinds' \in [Watches -> 0 .. MaxRebinds]
    BY DEF Over, Typed, TypeOK
  <2>3. served' \in [Sensors -> Watches \cup {Nobody, Elsewhere}]
    BY DEF Over, Typed, TypeOK
  <2>4. /\ handle' \in [Watches -> BOOLEAN]
        /\ cut' \in [Watches -> BOOLEAN]
        /\ follower' \in [Watches -> {"none", "reading", "flagged", "done"}]
        /\ gone' \in [Watches -> BOOLEAN]
        /\ hung' \in [Watches -> BOOLEAN]
    BY DEF Over, Typed, TypeOK
  <2> QED
    BY <2>1, <2>2, <2>3, <2>4 DEF TypeOK
<1>2. HasSensor' /\ IdleAlone'
  BY DEF Over, Goto, Typed, TypeOK, HasSensor, IdleAlone
<1> QED
  BY <1>1, <1>2 DEF Typed

(* The counts keep their types, however they change.                       *)
LEMMA CountsTyped ==
    ASSUME TypeOK, NEW s \in Sensors, NEW a \in Accounts
    PROVE  /\ Clear(s, a) =>
                 /\ strikes' \in [Sensors -> [Accounts -> 0 .. 255]]
                 /\ aged' \in [Sensors -> [Accounts -> BOOLEAN]]
           /\ strikes' = [strikes EXCEPT ![s][a] = Least(@ + 1, 255)] =>
                 strikes' \in [Sensors -> [Accounts -> 0 .. 255]]
           /\ aged' = [aged EXCEPT ![s][a] = FALSE] =>
                 aged' \in [Sensors -> [Accounts -> BOOLEAN]]
<1>1. strikes[s][a] \in 0 .. 255
  BY DEF TypeOK
<1>2. Least(strikes[s][a] + 1, 255) \in 0 .. 255
  BY <1>1 DEF Least
<1>3. \A v \in 0 .. 255 :
         [strikes EXCEPT ![s] = [strikes[s] EXCEPT ![a] = v]]
             \in [Sensors -> [Accounts -> 0 .. 255]]
  BY DEF TypeOK
<1>4. [aged EXCEPT ![s] = [aged[s] EXCEPT ![a] = FALSE]]
          \in [Sensors -> [Accounts -> BOOLEAN]]
  BY DEF TypeOK
<1>5. ASSUME strikes' = [strikes EXCEPT ![s][a] = Least(@ + 1, 255)]
      PROVE  strikes' \in [Sensors -> [Accounts -> 0 .. 255]]
  <2>1. strikes' = [strikes EXCEPT ![s] =
                       [strikes[s] EXCEPT ![a] = Least(strikes[s][a] + 1, 255)]]
    BY <1>5
  <2> QED
    BY <1>2, <1>3, <2>1
<1>6. ASSUME aged' = [aged EXCEPT ![s][a] = FALSE]
      PROVE  aged' \in [Sensors -> [Accounts -> BOOLEAN]]
  BY <1>4, <1>6
<1>7. ASSUME Clear(s, a)
      PROVE  strikes' \in [Sensors -> [Accounts -> 0 .. 255]]
  <2>1. strikes' = [strikes EXCEPT ![s] = [strikes[s] EXCEPT ![a] = 0]]
    BY <1>7 DEF Clear
  <2>2. 0 \in 0 .. 255
    OBVIOUS
  <2> QED
    BY <1>3, <2>1, <2>2
<1>8. Clear(s, a) => aged' = [aged EXCEPT ![s][a] = FALSE]
  BY DEF Clear
<1> QED
  BY <1>5, <1>6, <1>7, <1>8

LEMMA NextTyped == Typed /\ [Next]_vars => Typed'
<1> SUFFICES ASSUME Typed, [Next]_vars PROVE Typed'
  OBVIOUS
<1>a. TypeOK /\ HasSensor /\ IdleAlone
  BY DEF Typed
<1>b. \A w \in Watches : Account[w] \in Accounts
  BY WatchAssumption
<1>c. /\ strikes \in [Sensors -> [Accounts -> 0 .. 255]]
      /\ aged \in [Sensors -> [Accounts -> BOOLEAN]]
  BY <1>a DEF TypeOK
<1>1. ASSUME NEW w \in Watches, ClientGoes(w) PROVE Typed'
  BY <1>a, <1>1 DEF ClientGoes, talk, counts, Typed, TypeOK, HasSensor, IdleAlone
<1>2. ASSUME NEW a \in Accounts, PasswordSucceeds(a) PROVE Typed'
  BY <1>a, <1>2
     DEF PasswordSucceeds, talk, follow, Typed, TypeOK, HasSensor, IdleAlone
<1>3. ASSUME NEW s \in Sensors, NEW a \in Accounts, Age(s, a) PROVE Typed'
  BY <1>a, <1>3 DEF Age, talk, follow, Typed, TypeOK, HasSensor, IdleAlone
<1>4. ASSUME NEW s \in Sensors, TakenElsewhere(s) PROVE Typed'
  BY <1>a, <1>4
     DEF TakenElsewhere, talk, counts, follow, Typed, TypeOK, HasSensor, IdleAlone
<1>5. ASSUME NEW w \in Watches, Follower(w) PROVE Typed'
  <2>1. CASE FollowerFlags(w)
    BY <1>a, <2>1
       DEF FollowerFlags, talk, counts, Typed, TypeOK, HasSensor, IdleAlone
  <2>2. CASE FollowerShuts(w)
    BY <1>a, <2>2
       DEF FollowerShuts, talk, counts, Typed, TypeOK, HasSensor, IdleAlone
  <2> QED
    BY <1>5, <2>1, <2>2 DEF Follower
<1>6. ASSUME NEW w \in Watches, NEW s \in Sensors, StartWatch(w, s) PROVE Typed'
  BY <1>a, <1>6
     DEF StartWatch, Goto, counts, Typed, TypeOK, HasSensor, IdleAlone, Places
<1>7. ASSUME NEW w \in Watches, NEW s \in Sensors, StartEnrol(w, s) PROVE Typed'
  BY <1>a, <1>7
     DEF StartEnrol, Goto, counts, follow, Typed, TypeOK, HasSensor, IdleAlone, Places
<1>8. ASSUME NEW w \in Watches, ReadBudget(w) PROVE Typed'
  <2>1. sensor[w] \in Sensors /\ Account[w] \in Accounts
    BY <1>a, <1>b, <1>8 DEF ReadBudget, HasSensor
  <2>2. /\ strikes' \in [Sensors -> [Accounts -> 0 .. 255]]
        /\ aged' \in [Sensors -> [Accounts -> BOOLEAN]]
    BY <1>a, <1>c, <1>8, <2>1, CountsTyped DEF ReadBudget, counts
  <2>3. StrikesOf(w) \in 0 .. 255
    BY <1>a, <2>1 DEF TypeOK, StrikesOf
  <2>4. allowed' \in [Watches -> 0 .. MaxMisses]
    <3>1. PICK n : n \in {MaxMisses, MaxMisses - StrikesOf(w)}
                   /\ (n # MaxMisses => StrikesOf(w) < MaxMisses)
                   /\ allowed' = [allowed EXCEPT ![w] = n]
      BY <1>8 DEF ReadBudget
    <3>2. n \in 0 .. MaxMisses
      BY <2>3, <3>1, WatchAssumption
    <3> QED
      BY <1>a, <3>1, <3>2 DEF TypeOK
  <2> QED
    BY <1>a, <1>8, <2>2, <2>4
       DEF ReadBudget, Goto, follow, Typed, TypeOK, HasSensor, IdleAlone, Places
<1>9. ASSUME NEW w \in Watches,
             BudgetSpent(w) \/ Unavailable(w) \/ EnrolEnds(w) \/ Cancelled(w)
      PROVE  Typed'
  <2>1. Over(w) /\ UNCHANGED counts
    BY <1>9 DEF BudgetSpent, Unavailable, EnrolEnds, Cancelled
  <2> QED
    BY <1>c, <2>1, OverTyped DEF counts
<1>10. ASSUME NEW w \in Watches, Ready(w) PROVE Typed'
  BY <1>a, <1>10
     DEF Ready, Goto, counts, Typed, TypeOK, HasSensor, IdleAlone, Places
<1>11. ASSUME NEW w \in Watches, AttachStore(w) PROVE Typed'
  BY <1>a, <1>11
     DEF AttachStore, Goto, counts, Typed, TypeOK, HasSensor, IdleAlone, Places
<1>12. ASSUME NEW w \in Watches, AttachCheck(w) PROVE Typed'
  <2>1. CASE Over(w)
    BY <1>c, <1>12, <2>1, OverTyped DEF AttachCheck, counts
  <2>2. CASE ~Over(w)
    <3>1. /\ place[w] = "attached"
          /\ place' = [place EXCEPT ![w] = "sensing"]
          /\ misses' = [misses EXCEPT ![w] = 0]
          /\ UNCHANGED <<task, sensor, allowed, rebinds, served, follow, counts>>
      BY <1>12, <2>2 DEF AttachCheck, Goto
    <3>2. misses' \in [Watches -> 0 .. MaxMisses]
      BY <1>a, <3>1, WatchAssumption DEF TypeOK
    <3> QED
      BY <1>a, <3>1, <3>2
         DEF counts, follow, Typed, TypeOK, HasSensor, IdleAlone, Places
  <2> QED
    BY <2>1, <2>2
<1>13. ASSUME NEW w \in Watches, Miss(w) PROVE Typed'
  <2>1. sensor[w] \in Sensors /\ Account[w] \in Accounts
    BY <1>a, <1>b, <1>13 DEF Miss, Watching, HasSensor
  <2>2. /\ strikes' \in [Sensors -> [Accounts -> 0 .. 255]]
        /\ aged' \in [Sensors -> [Accounts -> BOOLEAN]]
    <3>1. PICK s \in Sensors, a \in Accounts : s = sensor[w] /\ a = Account[w]
      BY <2>1
    <3>2. strikes' = [strikes EXCEPT ![s][a] = Least(@ + 1, 255)]
      BY <1>13, <3>1 DEF Miss, Strike
    <3>3. aged' = [aged EXCEPT ![s][a] = FALSE]
      BY <1>13, <3>1 DEF Miss, Strike
    <3>4. strikes' \in [Sensors -> [Accounts -> 0 .. 255]]
      BY <1>a, <3>2, CountsTyped
    <3>5. aged' \in [Sensors -> [Accounts -> BOOLEAN]]
      BY <1>a, <3>3, CountsTyped
    <3> QED
      BY <3>4, <3>5
  <2>3. CASE Over(w)
    BY <2>2, <2>3, OverTyped
  <2>4. CASE ~Over(w)
    <3>1. misses[w] \in 0 .. MaxMisses /\ allowed[w] \in 0 .. MaxMisses
      BY <1>a DEF TypeOK
    <3>2. misses[w] + 1 \in 0 .. MaxMisses
      BY <1>13, <2>4, <3>1, WatchAssumption DEF Miss
    <3>3. /\ misses' = [misses EXCEPT ![w] = misses[w] + 1]
          /\ UNCHANGED <<place, task, sensor, allowed, rebinds, served, handle,
                         cut, follower, gone, hung>>
      BY <1>13, <2>4 DEF Miss, follow
    <3>4. misses' \in [Watches -> 0 .. MaxMisses]
      BY <1>a, <3>2, <3>3 DEF TypeOK
    <3> QED
      BY <1>a, <2>2, <3>3, <3>4 DEF Typed, TypeOK, HasSensor, IdleAlone
  <2> QED
    BY <2>3, <2>4
<1>14. ASSUME NEW w \in Watches, Match(w) PROVE Typed'
  BY <1>a, <1>14
     DEF Match, Watching, Goto, counts, follow, Typed, TypeOK, HasSensor, IdleAlone, Places
<1>15. ASSUME NEW w \in Watches, Admit(w) PROVE Typed'
  <2>1. sensor[w] \in Sensors /\ Account[w] \in Accounts
    BY <1>a, <1>b, <1>15 DEF Admit, HasSensor
  <2> QED
    <3>1. Over(w) /\ (Clear(sensor[w], Account[w]) \/ UNCHANGED counts)
      BY <1>15 DEF Admit
    <3>2. /\ strikes' \in [Sensors -> [Accounts -> 0 .. 255]]
          /\ aged' \in [Sensors -> [Accounts -> BOOLEAN]]
      BY <1>a, <1>c, <2>1, <3>1, CountsTyped DEF counts
    <3> QED
      BY <3>1, <3>2, OverTyped
<1>16. ASSUME NEW w \in Watches, SensorFails(w) PROVE Typed'
  <2>1. CASE Over(w)
    BY <1>c, <1>16, <2>1, OverTyped DEF SensorFails, counts
  <2>2. CASE ~Over(w)
    <3>1. PICK sofar \in {rebinds[w], 0} :
             sofar + 1 <= MaxRebinds /\ Rebind(w, sofar + 1)
      <4>1. rebinds[w] \in Int /\ MaxRebinds \in Int
        BY <1>a, WatchAssumption DEF TypeOK
      <4> QED
        BY <1>16, <2>2, <4>1 DEF SensorFails
    <3>2. sofar + 1 \in 0 .. MaxRebinds
      BY <1>a, <3>1, WatchAssumption DEF TypeOK
    <3> QED
      BY <1>a, <1>16, <2>2, <3>1, <3>2
         DEF SensorFails, Rebind, Watching, Goto, counts, Typed, TypeOK, HasSensor,
             IdleAlone, Places
  <2> QED
    BY <2>1, <2>2
<1>17. CASE UNCHANGED vars
  BY <1>a, <1>17
     DEF vars, talk, counts, follow, Typed, TypeOK, HasSensor, IdleAlone
<1> QED
  BY <1>1, <1>2, <1>3, <1>4, <1>5, <1>6, <1>7, <1>8, <1>9, <1>10, <1>11, <1>12,
     <1>13, <1>14, <1>15, <1>16, <1>17
     DEF Next, World, Converse, Proceed

LEMMA AlwaysTyped == Spec => []Typed
  BY InitTyped, NextTyped, PTL DEF Spec

(* The conversations keep their types: misses never pass what was allowed, *)
(* nor rebinds their limit (finger.rs:365-428).                            *)
THEOREM TypeCorrect == Spec => []TypeOK
<1>1. Typed => TypeOK
  BY DEF Typed
<1> QED
  BY <1>1, AlwaysTyped, PTL

-----------------------------------------------------------------------------
(* Waking a watch whose client has gone.  The follower raises the flag and *)
(* then looks for a handle; the conversation stores the handle and then    *)
(* looks for the flag.  Whichever is second sees the other.                *)

FlagIsFollowers ==
    \A w \in Watches : gone[w] <=> follower[w] \in {"flagged", "done"}

HandleStored ==
    \A w \in Watches :
        place[w] \in {"attached", "sensing", "admitting"} => handle[w]

Awake == Typed /\ FlagIsFollowers /\ HandleStored /\ NeverDeaf

LEMMA InitAwake == Init => Awake
<1>1. Init => FlagIsFollowers /\ HandleStored /\ NeverDeaf
  BY DEF Init, FlagIsFollowers, HandleStored, NeverDeaf
<1> QED
  BY <1>1, InitTyped DEF Awake

LEMMA NextAwake == Awake /\ [Next]_vars => Awake'
<1> SUFFICES ASSUME Awake, [Next]_vars
             PROVE  (FlagIsFollowers /\ HandleStored /\ NeverDeaf)'
  BY NextTyped DEF Awake
<1>a. /\ place \in [Watches -> Places]
      /\ handle \in [Watches -> BOOLEAN]
      /\ cut \in [Watches -> BOOLEAN]
      /\ follower \in [Watches -> {"none", "reading", "flagged", "done"}]
      /\ gone \in [Watches -> BOOLEAN]
      /\ IdleAlone
  BY DEF Awake, Typed, TypeOK
<1>b. FlagIsFollowers /\ HandleStored /\ NeverDeaf
  BY DEF Awake
<1> USE <1>a, <1>b DEF FlagIsFollowers, HandleStored, NeverDeaf, Goto
<1>1. ASSUME NEW w \in Watches, Over(w)
      PROVE  (FlagIsFollowers /\ HandleStored /\ NeverDeaf)'
  BY <1>1 DEF Over
<1>2. CASE World
  BY <1>2 DEF World, ClientGoes, PasswordSucceeds, Age, TakenElsewhere, talk,
     counts, follow
<1>3. ASSUME NEW w \in Watches, Follower(w)
      PROVE  (FlagIsFollowers /\ HandleStored /\ NeverDeaf)'
  <2>1. CASE FollowerFlags(w)
    BY <2>1 DEF FollowerFlags, talk, counts
  <2>2. CASE FollowerShuts(w)
    BY <2>2 DEF FollowerShuts, talk, counts
  <2> QED
    BY <1>3, <2>1, <2>2 DEF Follower
<1>4. ASSUME NEW w \in Watches, NEW s \in Sensors,
             StartWatch(w, s) \/ StartEnrol(w, s)
      PROVE  (FlagIsFollowers /\ HandleStored /\ NeverDeaf)'
  BY <1>4 DEF StartWatch, StartEnrol, IdleAlone, counts, follow
<1>5. ASSUME NEW w \in Watches, ReadBudget(w) \/ Match(w)
      PROVE  (FlagIsFollowers /\ HandleStored /\ NeverDeaf)'
  BY <1>5 DEF ReadBudget, Match, Watching, counts, follow
<1>6. ASSUME NEW w \in Watches, Ready(w)
      PROVE  (FlagIsFollowers /\ HandleStored /\ NeverDeaf)'
  BY <1>6 DEF Ready, counts
<1>7. ASSUME NEW w \in Watches, AttachStore(w)
      PROVE  (FlagIsFollowers /\ HandleStored /\ NeverDeaf)'
  BY <1>7 DEF AttachStore, counts
<1>8. ASSUME NEW w \in Watches, AttachCheck(w) \/ Miss(w), ~Over(w)
      PROVE  (FlagIsFollowers /\ HandleStored /\ NeverDeaf)'
  BY <1>8 DEF AttachCheck, Miss, Watching, counts, follow
<1>9. ASSUME NEW w \in Watches, SensorFails(w), ~Over(w)
      PROVE  (FlagIsFollowers /\ HandleStored /\ NeverDeaf)'
  BY <1>9 DEF SensorFails, Watching, Rebind
<1>10. ASSUME NEW w \in Watches,
              BudgetSpent(w) \/ Unavailable(w) \/ EnrolEnds(w) \/ Cancelled(w)
              \/ Admit(w)
       PROVE  Over(w)
  BY <1>10 DEF BudgetSpent, Unavailable, EnrolEnds, Cancelled, Admit
<1>11. CASE UNCHANGED vars
  BY <1>11 DEF vars, talk, follow
<1> QED
  BY <1>1, <1>2, <1>3, <1>4, <1>5, <1>6, <1>7, <1>8, <1>9, <1>10, <1>11
     DEF Next, Converse, Proceed

(* No order of hang-up and attaching leaves a watch that nobody will wake  *)
(* (bio.rs:167, bio.rs:191).                                               *)
THEOREM AlwaysWoken == Spec => []NeverDeaf
<1>1. Spec => []Awake
  BY InitAwake, NextAwake, PTL DEF Spec
<1>2. Awake => NeverDeaf
  BY DEF Awake
<1> QED
  BY <1>1, <1>2, PTL

-----------------------------------------------------------------------------
(* One conversation at a sensor.                                           *)

Exclusive == Typed /\ OneServed

LEMMA InitExclusive == Init => Exclusive
<1>1. Init => OneServed
  BY WatchAssumption DEF Init, OneServed, Connected, Sensors
<1> QED
  BY <1>1, InitTyped DEF Exclusive

LEMMA NextExclusive == Exclusive /\ [Next]_vars => Exclusive'
<1> SUFFICES ASSUME Exclusive, [Next]_vars PROVE OneServed'
  BY NextTyped DEF Exclusive
<1>a. /\ place \in [Watches -> Places]
      /\ sensor \in [Watches -> Sensors \cup {"none"}]
      /\ served \in [Sensors -> Watches \cup {Nobody, Elsewhere}]
      /\ HasSensor
      /\ OneServed
      /\ Nobody \notin Watches
      /\ Elsewhere \notin Watches
  BY WatchAssumption DEF Exclusive, Typed, TypeOK
<1> USE <1>a DEF OneServed, Connected, Goto
<1>1. ASSUME NEW w \in Watches, Over(w), place[w] # "idle" PROVE OneServed'
  <2>1. /\ place' = [place EXCEPT ![w] = "idle"]
        /\ sensor' = [sensor EXCEPT ![w] = "none"]
        /\ sensor[w] \in Sensors
        /\ served' = [served EXCEPT ![sensor[w]] =
                          IF served[sensor[w]] = w THEN Nobody ELSE served[sensor[w]]]
    BY <1>1 DEF Over, HasSensor
  <2> QED
    BY <2>1
<1>2. CASE World
  <2>1. CASE UNCHANGED <<place, sensor, served>>
    BY <2>1
  <2>2. ASSUME NEW s \in Sensors, TakenElsewhere(s) PROVE OneServed'
    BY <2>2 DEF TakenElsewhere, talk
  <2> QED
    BY <1>2, <2>1, <2>2 DEF World, ClientGoes, PasswordSucceeds, Age, talk
<1>3. ASSUME NEW w \in Watches, Follower(w) PROVE OneServed'
  BY <1>3 DEF Follower, FollowerFlags, FollowerShuts, talk
<1>4. ASSUME NEW w \in Watches, NEW s \in Sensors,
             StartWatch(w, s) \/ StartEnrol(w, s)
      PROVE  OneServed'
  <2>1. /\ place[w] = "idle"
        /\ place' \in {[place EXCEPT ![w] = "budget"], [place EXCEPT ![w] = "waiting"]}
        /\ sensor' = [sensor EXCEPT ![w] = s]
        /\ served' = served
    BY <1>4 DEF StartWatch, StartEnrol
  <2>2. \A t \in Sensors : served[t] # w
    BY <2>1
  <2> QED
    BY <2>1, <2>2
<1>5. ASSUME NEW w \in Watches, Ready(w) PROVE OneServed'
  <2>1. /\ place[w] = "waiting"
        /\ sensor[w] \in Sensors
        /\ served[sensor[w]] = Nobody
        /\ place' = [place EXCEPT ![w] = "attaching"]
        /\ served' = [served EXCEPT ![sensor[w]] = w]
        /\ sensor' = sensor
    BY <1>5 DEF Ready, HasSensor
  <2> QED
    BY <2>1
<1>6. ASSUME NEW w \in Watches, ~Over(w),
             ReadBudget(w) \/ AttachStore(w) \/ AttachCheck(w) \/ Miss(w) \/ Match(w)
      PROVE  OneServed'
  <2>1. /\ UNCHANGED <<sensor, served>>
        /\ \A v \in Watches : place'[v] \in Connected <=> place[v] \in Connected
    BY <1>6 DEF ReadBudget, AttachStore, AttachCheck, Miss, Match, Watching
  <2> QED
    BY <2>1
<1>7. ASSUME NEW w \in Watches, SensorFails(w), ~Over(w) PROVE OneServed'
  <2>1. /\ place[w] = "sensing"
        /\ sensor[w] \in Sensors
        /\ place' = [place EXCEPT ![w] = "budget"]
        /\ served' = [served EXCEPT ![sensor[w]] = Nobody]
        /\ sensor' = sensor
    BY <1>7 DEF SensorFails, Watching, Rebind, HasSensor
  <2> QED
    BY <2>1
<1>8. ASSUME NEW w \in Watches,
             BudgetSpent(w) \/ Unavailable(w) \/ EnrolEnds(w) \/ Cancelled(w)
             \/ Admit(w) \/ ((AttachCheck(w) \/ Miss(w) \/ SensorFails(w)) /\ Over(w))
      PROVE  Over(w) /\ place[w] # "idle"
  BY <1>8 DEF BudgetSpent, Unavailable, EnrolEnds, Cancelled, Admit, AttachCheck,
     Miss, SensorFails, Watching
<1>9. CASE UNCHANGED vars
  BY <1>9 DEF vars, talk
<1>10. ASSUME NEW w \in Watches, ReadBudget(w) \/ AttachStore(w) \/ Match(w)
       PROVE  ~Over(w)
  BY <1>10 DEF ReadBudget, AttachStore, Match, Over, Places
<1> QED
  BY <1>1, <1>2, <1>3, <1>4, <1>5, <1>6, <1>7, <1>8, <1>9, <1>10
     DEF Next, Converse, Proceed

(* A sensor serves only conversations that are under way, and each of      *)
(* those that is connected is the one it serves (sensor.rs:13).            *)
THEOREM SensorsExclusive == Spec => []OneServed
<1>1. Spec => []Exclusive
  BY InitExclusive, NextExclusive, PTL DEF Spec
<1>2. Exclusive => OneServed
  BY DEF Exclusive
<1> QED
  BY <1>1, <1>2, PTL

-----------------------------------------------------------------------------
(* Misses.  A watch that has read its budget holds what is left of it: the *)
(* misses it may still count, whenever it gets the sensor and whatever the *)
(* others have counted by then.                                            *)

Left(w) ==
    IF task[w] # "watch" THEN 0
    ELSE IF place[w] \in {"waiting", "attaching", "attached"} THEN allowed[w]
    ELSE IF place[w] = "sensing" THEN allowed[w] - misses[w]
    ELSE 0

Of(a) == {w \in Watches : Account[w] = a}

(* One token for every miss that can still be counted.                     *)
Tokens(s, a) ==
    {t \in Of(a) \X (1 .. MaxMisses) : sensor[t[1]] = s /\ t[2] <= Left(t[1])}

(* Misses counted and misses to come.                                      *)
BudgetsKept ==
    \A s \in Sensors, a \in Accounts :
        strikes[s][a] + Cardinality(Tokens(s, a))
            <= MaxMisses * Cardinality(Of(a))

(* A watch that may count a miss has a budget for it.                      *)
BudgetLeft ==
    \A w \in Watches : task[w] = "watch" =>
        /\ place[w] \in {"waiting", "attaching", "attached", "sensing"}
              => allowed[w] >= 1
        /\ place[w] = "sensing" => misses[w] < allowed[w]

Budgeted == Typed /\ BudgetLeft /\ BudgetsKept

LEMMA LeftTyped ==
    ASSUME Typed, BudgetLeft, NEW w \in Watches
    PROVE  Left(w) \in 0 .. MaxMisses
  BY WatchAssumption DEF Typed, TypeOK, BudgetLeft, Left

LEMMA StrikesTyped ==
    ASSUME Typed
    PROVE  /\ \A s \in Sensors, a \in Accounts : strikes[s][a] \in 0 .. 255
           /\ \A w \in Watches : place[w] # "idle" =>
                 /\ sensor[w] \in Sensors /\ Account[w] \in Accounts
                 /\ StrikesOf(w) \in 0 .. 255
<1>1. strikes \in [Sensors -> [Accounts -> 0 .. 255]]
  BY DEF Typed, TypeOK
<1>2. \A s \in Sensors, a \in Accounts : strikes[s][a] \in 0 .. 255
  BY <1>1
<1>3. \A w \in Watches : place[w] # "idle" =>
         sensor[w] \in Sensors /\ Account[w] \in Accounts
  BY WatchAssumption DEF Typed, HasSensor
<1> QED
  BY <1>2, <1>3 DEF StrikesOf

LEMMA OfFinite ==
    ASSUME NEW a
    PROVE  IsFiniteSet(Of(a)) /\ Cardinality(Of(a)) \in Nat
<1>1. Of(a) \in SUBSET Watches /\ IsFiniteSet(Watches)
  BY WatchAssumption DEF Of
<1>2. IsFiniteSet(Of(a))
  BY <1>1, FS_Subset
<1> QED
  BY <1>2, FS_CardinalityType

(* As many tokens as conversations, each with a whole budget, at the most. *)
LEMMA AtMostWhole ==
    ASSUME NEW S, IsFiniteSet(S)
    PROVE  /\ IsFiniteSet(S \X (1 .. MaxMisses))
           /\ Cardinality(S \X (1 .. MaxMisses)) = Cardinality(S) * MaxMisses
<1>1. MaxMisses \in Nat \ {0}
  BY WatchAssumption
<1>2. IsFiniteSet(1 .. MaxMisses) /\ Cardinality(1 .. MaxMisses) = MaxMisses
  BY <1>1, FS_Interval
<1> QED
  BY <1>2, FS_Product

LEMMA TokensFinite ==
    ASSUME NEW s, NEW a
    PROVE  IsFiniteSet(Tokens(s, a)) /\ Cardinality(Tokens(s, a)) \in Nat
<1>1. IsFiniteSet(Of(a) \X (1 .. MaxMisses))
  BY OfFinite, AtMostWhole
<1>2. Tokens(s, a) \in SUBSET (Of(a) \X (1 .. MaxMisses))
  BY DEF Tokens
<1>3. IsFiniteSet(Tokens(s, a))
  BY <1>1, <1>2, FS_Subset
<1> QED
  BY <1>3, FS_CardinalityType

(* A step after which nobody has more left than before, at the sensor it   *)
(* had it for, keeps every account's bound unless it counts a miss.        *)
LesserLeft ==
    \A w \in Watches :
        /\ Left(w)' <= Left(w)
        /\ Left(w)' > 0 => sensor'[w] = sensor[w]

LEMMA FewerTokens ==
    ASSUME Typed, Typed', BudgetLeft, BudgetLeft', LesserLeft, NEW s, NEW a
    PROVE  Tokens(s, a)' \subseteq Tokens(s, a)
<1> SUFFICES ASSUME NEW t \in Of(a) \X (1 .. MaxMisses),
                    sensor'[t[1]] = s, t[2] <= Left(t[1])'
             PROVE  sensor[t[1]] = s /\ t[2] <= Left(t[1])
  BY DEF Tokens
<1> DEFINE w == t[1]
<1>1. w \in Watches /\ t[2] \in Int /\ t[2] >= 1
  BY WatchAssumption DEF Of
<1>2. Left(w) \in Int /\ Left(w)' \in Int
  <2>1. Left(w) \in 0 .. MaxMisses
    BY <1>1, LeftTyped
  <2>2. Left(w)' \in 0 .. MaxMisses
    BY <1>1, WatchAssumption DEF Typed, TypeOK, BudgetLeft, Left
  <2> QED
    BY <2>1, <2>2, WatchAssumption
<1>3. Left(w)' <= Left(w) /\ (Left(w)' > 0 => sensor'[w] = sensor[w])
  BY <1>1 DEF LesserLeft
<1> QED
  BY <1>1, <1>2, <1>3

LEMMA BoundKept ==
    ASSUME Typed, Typed', BudgetLeft, BudgetLeft', BudgetsKept, LesserLeft,
           NEW s \in Sensors, NEW a \in Accounts,
           strikes'[s][a] <= strikes[s][a]
    PROVE  strikes'[s][a] + Cardinality(Tokens(s, a)')
               <= MaxMisses * Cardinality(Of(a))
<1>1. Tokens(s, a)' \in SUBSET Tokens(s, a)
  BY FewerTokens
<1>2. IsFiniteSet(Tokens(s, a)) /\ Cardinality(Tokens(s, a)) \in Nat
  BY TokensFinite
<1>3. IsFiniteSet(Tokens(s, a)') /\ Cardinality(Tokens(s, a)') <= Cardinality(Tokens(s, a))
  BY <1>1, <1>2, FS_Subset
<1>4. Cardinality(Tokens(s, a)') \in Nat
  BY <1>3, FS_CardinalityType
<1>5. strikes[s][a] \in Int /\ strikes'[s][a] \in Int
  <2>1. strikes[s][a] \in 0 .. 255
    BY StrikesTyped
  <2>2. strikes' \in [Sensors -> [Accounts -> 0 .. 255]]
    BY DEF Typed, TypeOK
  <2> QED
    BY <2>1, <2>2
<1>6. strikes[s][a] + Cardinality(Tokens(s, a)) <= MaxMisses * Cardinality(Of(a))
  BY DEF BudgetsKept
<1>7. MaxMisses * Cardinality(Of(a)) \in Int
  BY OfFinite, WatchAssumption
<1>8. \A i, j, k, m, n \in Int :
         i + j <= n /\ m <= i /\ k <= j => m + k <= n
  OBVIOUS
<1> QED
  BY ONLY <1>2, <1>3, <1>4, <1>5, <1>6, <1>7, <1>8, strikes'[s][a] <= strikes[s][a]

(* Reading the budget: what is left of a whole one, when others hold at    *)
(* most a whole one each.                                                  *)
LEMMA BoundRead ==
    ASSUME Typed, NEW w \in Watches, NEW S \in SUBSET Watches, w \in S,
           NEW n \in Nat, n <= MaxMisses,
           NEW T \in SUBSET (S \X (1 .. MaxMisses)),
           \A t \in T : t[1] = w => t[2] <= MaxMisses - n
    PROVE  n + Cardinality(T) <= MaxMisses * Cardinality(S)
<1> DEFINE R == S \ {w}
<1>0. MaxMisses \in Nat \ {0} /\ IsFiniteSet(Watches)
  BY WatchAssumption
<1>1. /\ IsFiniteSet(S) /\ Cardinality(S) \in Nat
      /\ IsFiniteSet(R) /\ Cardinality(R) = Cardinality(S) - 1
      /\ Cardinality(R) \in Nat
  <2>1. IsFiniteSet(S)
    BY <1>0, FS_Subset
  <2>2. IsFiniteSet(R) /\ Cardinality(R) = Cardinality(S) - 1
    BY <2>1, FS_RemoveElement
  <2> QED
    BY <2>1, <2>2, FS_CardinalityType
<1> DEFINE P == R \X (1 .. MaxMisses)
           Q == {w} \X (1 .. (MaxMisses - n))
<1>2. IsFiniteSet(P) /\ Cardinality(P) = Cardinality(R) * MaxMisses
  BY <1>1, AtMostWhole
<1>3. IsFiniteSet(Q) /\ Cardinality(Q) = MaxMisses - n
  <2>1. IsFiniteSet({w}) /\ Cardinality({w}) = 1
    BY FS_Singleton
  <2>2. IsFiniteSet(1 .. (MaxMisses - n)) /\ Cardinality(1 .. (MaxMisses - n)) = MaxMisses - n
    BY <1>0, FS_Interval
  <2> DEFINE one == {w}
             upto == 1 .. (MaxMisses - n)
  <2>3. IsFiniteSet(one \X upto)
        /\ Cardinality(one \X upto) = Cardinality(one) * Cardinality(upto)
    <3> HIDE DEF one, upto
    <3> QED
      BY <2>1, <2>2, FS_Product DEF one, upto
  <2> QED
    BY <1>0, <2>1, <2>2, <2>3
<1>4. T \in SUBSET (P \cup Q)
  BY <1>0
<1>5. /\ IsFiniteSet(P \cup Q)
      /\ Cardinality(P \cup Q) = Cardinality(P) + Cardinality(Q) - Cardinality(P \cap Q)
      /\ Cardinality(P \cap Q) \in Nat
  <2>1. IsFiniteSet(P \cap Q)
    BY <1>2, FS_Intersection
  <2> HIDE DEF P, Q
  <2> QED
    BY <1>2, <1>3, <2>1, FS_Union, FS_CardinalityType
<1>6. IsFiniteSet(T) /\ Cardinality(T) <= Cardinality(P \cup Q)
  BY <1>4, <1>5, FS_Subset
<1>7. Cardinality(T) \in Nat
  BY <1>6, FS_CardinalityType
<1>8. MaxMisses * Cardinality(S) = Cardinality(R) * MaxMisses + MaxMisses
  BY <1>0, <1>1
<1>9. Cardinality(R) * MaxMisses \in Nat
  BY <1>0, <1>1
<1> HIDE DEF P, Q, R
<1> QED
  BY <1>0, <1>2, <1>3, <1>5, <1>6, <1>7, <1>8, <1>9

LEMMA InitBudgeted == Init => Budgeted
<1> SUFFICES ASSUME Init PROVE BudgetLeft /\ BudgetsKept
  BY InitTyped DEF Budgeted
<1>1. BudgetLeft
  BY DEF Init, BudgetLeft
<1>2. ASSUME NEW s \in Sensors, NEW a \in Accounts
      PROVE  strikes[s][a] + Cardinality(Tokens(s, a))
                 <= MaxMisses * Cardinality(Of(a))
  <2>1. Tokens(s, a) = {}
    BY WatchAssumption DEF Init, Tokens, Left, Of, Sensors
  <2>2. strikes[s][a] = 0
    BY DEF Init
  <2>3. MaxMisses * Cardinality(Of(a)) \in Nat
    BY OfFinite, WatchAssumption
  <2> QED
    BY <2>1, <2>2, <2>3, FS_EmptySet
<1> QED
  BY <1>1, <1>2 DEF BudgetsKept

(* A conversation that ends, or is no watch, has nothing left; and so has  *)
(* one that is about to read its budget.                                   *)
LEMMA NextBudgetLeft == Typed /\ BudgetLeft /\ [Next]_vars => BudgetLeft'
<1> SUFFICES ASSUME Typed, BudgetLeft, [Next]_vars PROVE BudgetLeft'
  OBVIOUS
<1>a. /\ place \in [Watches -> Places]
      /\ task \in [Watches -> {"none", "watch", "enrol"}]
      /\ allowed \in [Watches -> 0 .. MaxMisses]
      /\ misses \in [Watches -> 0 .. MaxMisses]
      /\ MaxMisses \in Nat \ {0}
  BY WatchAssumption DEF Typed, TypeOK
<1> USE <1>a DEF BudgetLeft, Goto
<1>1. ASSUME NEW w \in Watches, Over(w) PROVE BudgetLeft'
  BY <1>1 DEF Over
<1>2. CASE UNCHANGED talk
  BY <1>2 DEF talk
<1>3. ASSUME NEW w \in Watches, NEW s \in Sensors,
             StartWatch(w, s) \/ StartEnrol(w, s)
      PROVE  BudgetLeft'
  BY <1>3 DEF StartWatch, StartEnrol
<1>4. ASSUME NEW w \in Watches, ReadBudget(w) PROVE BudgetLeft'
  <2>1. PICK n : /\ n \in {MaxMisses, MaxMisses - StrikesOf(w)}
                 /\ n # MaxMisses => StrikesOf(w) < MaxMisses
                 /\ allowed' = [allowed EXCEPT ![w] = n]
    BY <1>4 DEF ReadBudget
  <2>3. StrikesOf(w) \in 0 .. 255
    BY <1>4, StrikesTyped DEF ReadBudget
  <2>4. n \in Int /\ n >= 1
    BY <2>1, <2>3
  <2>2. place' = [place EXCEPT ![w] = "waiting"] /\ UNCHANGED <<task, misses>>
    BY <1>4 DEF ReadBudget
  <2> QED
    BY <2>1, <2>2, <2>4
<1>5. ASSUME NEW w \in Watches, Ready(w) \/ AttachStore(w) PROVE BudgetLeft'
  BY <1>5 DEF Ready, AttachStore
<1>6. ASSUME NEW w \in Watches, AttachCheck(w), ~Over(w) PROVE BudgetLeft'
  BY <1>6 DEF AttachCheck
<1>7. ASSUME NEW w \in Watches, Miss(w), ~Over(w) PROVE BudgetLeft'
  BY <1>7 DEF Miss
<1>8. ASSUME NEW w \in Watches, Match(w) PROVE BudgetLeft'
  BY <1>8 DEF Match
<1>9. ASSUME NEW w \in Watches, SensorFails(w), ~Over(w) PROVE BudgetLeft'
  BY <1>9 DEF SensorFails, Rebind
<1>10. ASSUME NEW w \in Watches,
              BudgetSpent(w) \/ Unavailable(w) \/ EnrolEnds(w) \/ Cancelled(w)
              \/ Admit(w)
       PROVE  Over(w)
  BY <1>10 DEF BudgetSpent, Unavailable, EnrolEnds, Cancelled, Admit
<1>11. World \/ UNCHANGED vars \/ (\E w \in Watches : Follower(w))
          => UNCHANGED talk
  BY DEF World, ClientGoes, PasswordSucceeds, Age, TakenElsewhere, Follower,
     FollowerFlags, FollowerShuts, vars
<1> QED
  BY <1>1, <1>2, <1>3, <1>4, <1>5, <1>6, <1>7, <1>8, <1>9, <1>10, <1>11
     DEF Next, Converse, Proceed

(* Which steps leave everybody no more than they had.                      *)
LEMMA LeftFalls ==
    ASSUME Typed, BudgetLeft, NEW w \in Watches,
           \/ UNCHANGED talk
           \/ Over(w)
           \/ \E s \in Sensors : StartWatch(w, s) \/ StartEnrol(w, s)
           \/ Ready(w) \/ AttachStore(w) \/ AttachCheck(w)
           \/ Miss(w) \/ Match(w) \/ SensorFails(w)
    PROVE  LesserLeft
<1>a. /\ place \in [Watches -> Places]
      /\ task \in [Watches -> {"none", "watch", "enrol"}]
      /\ sensor \in [Watches -> Sensors \cup {"none"}]
      /\ allowed \in [Watches -> 0 .. MaxMisses]
      /\ misses \in [Watches -> 0 .. MaxMisses]
      /\ MaxMisses \in Nat \ {0}
  BY WatchAssumption DEF Typed, TypeOK
<1>b. \A v \in Watches : Left(v) >= 0
  BY LeftTyped, <1>a
<1>c. ASSUME NEW v \in Watches, UNCHANGED <<place[v], task[v], sensor[v], allowed[v], misses[v]>>
      PROVE  Left(v)' = Left(v) /\ sensor'[v] = sensor[v]
  BY <1>c DEF Left
<1> USE <1>a DEF Goto
<1>1. CASE UNCHANGED talk
  BY <1>1, <1>b, <1>c, LeftTyped DEF talk, LesserLeft
<1>2. CASE Over(w) \/ \E s \in Sensors : StartWatch(w, s) \/ StartEnrol(w, s)
  <2>1. \A v \in Watches \ {w} :
           UNCHANGED <<place[v], task[v], sensor[v], allowed[v], misses[v]>>
    BY <1>2 DEF Over, StartWatch, StartEnrol
  <2>2. Left(w)' = 0
    BY <1>2 DEF Over, StartWatch, StartEnrol, Left
  <2> QED
    BY <1>b, <1>c, <2>1, <2>2, LeftTyped DEF LesserLeft
<1>3. CASE Ready(w) \/ AttachStore(w) \/ Match(w)
           \/ ((AttachCheck(w) \/ Miss(w) \/ SensorFails(w)) /\ ~Over(w))
  <2>1. \A v \in Watches \ {w} :
           UNCHANGED <<place[v], task[v], sensor[v], allowed[v], misses[v]>>
    BY <1>3 DEF Ready, AttachStore, Match, AttachCheck, Miss, SensorFails, Rebind
  <2>2. Left(w)' <= Left(w) /\ sensor'[w] = sensor[w]
    <3>1. CASE Ready(w) \/ AttachStore(w) \/ (AttachCheck(w) /\ ~Over(w))
      BY <3>1 DEF Ready, AttachStore, AttachCheck, Left
    <3>2. CASE Match(w) \/ (SensorFails(w) /\ ~Over(w))
      BY <3>2, <1>b DEF Match, SensorFails, Rebind, Left
    <3>3. CASE Miss(w) /\ ~Over(w)
      BY <3>3 DEF Miss, Watching, Left
    <3> QED
      BY <1>3, <3>1, <3>2, <3>3
  <2> QED
    BY <1>b, <1>c, <2>1, <2>2, LeftTyped DEF LesserLeft
<1> QED
  BY <1>1, <1>2, <1>3

(* A miss costs a token at its sensor, and one of its account's.           *)
LEMMA MissCosts ==
    ASSUME Typed, Typed', BudgetLeft, BudgetLeft', BudgetsKept,
           NEW w \in Watches, Miss(w)
    PROVE  BudgetsKept'
<1>1. /\ place[w] = "sensing" /\ task[w] = "watch" /\ Strike(w)
      /\ sensor[w] \in Sensors /\ Account[w] \in Accounts
  BY WatchAssumption DEF Miss, Watching, Typed, HasSensor
<1>2. LesserLeft
  BY LeftFalls
<1>3. Left(w) \in 1 .. MaxMisses
  BY <1>1, WatchAssumption DEF Typed, TypeOK, BudgetLeft, Left
<1>4. Left(w)' <= Left(w) - 1
  <2>1. CASE Over(w)
    BY <1>3, <2>1, WatchAssumption DEF Over, Left, Typed, TypeOK
  <2>2. CASE ~Over(w)
    BY <1>1, <2>2, WatchAssumption DEF Miss, Left, Typed, TypeOK
  <2> QED
    BY <2>1, <2>2
<1>5. PICK s \in Sensors, a \in Accounts : s = sensor[w] /\ a = Account[w]
  BY <1>1
<1>6. PICK struck : struck = Least(strikes[s][a] + 1, 255)
  OBVIOUS
<1> DEFINE token == <<w, Left(w)>>
<1>7. /\ strikes \in [Sensors -> [Accounts -> 0 .. 255]]
      /\ strikes[s][a] \in 0 .. 255
      /\ strikes' = [strikes EXCEPT ![s] = [strikes[s] EXCEPT ![a] = struck]]
  BY <1>1, <1>5, <1>6, StrikesTyped DEF Strike, Typed, TypeOK
<1>8. struck \in Int /\ struck <= strikes[s][a] + 1
  BY <1>7, <1>6 DEF Least
<1>9. strikes'[s][a] = struck
  BY <1>7
<1>10. ASSUME NEW t \in Sensors, NEW b \in Accounts, t # s \/ b # a
       PROVE  strikes'[t][b] = strikes[t][b]
  BY <1>7, <1>10
<1>11. strikes'[s][a] + Cardinality(Tokens(s, a)') <= MaxMisses * Cardinality(Of(a))
  <2>1. token \in Tokens(s, a)
    BY <1>1, <1>3, <1>5, WatchAssumption DEF Tokens, Of
  <2>2. token \notin Tokens(s, a)'
    <3>1. Left(w)' \in Int
      BY <1>1, WatchAssumption DEF Left, Typed, TypeOK
    <3> QED
      BY <1>3, <1>4, <3>1, WatchAssumption DEF Tokens
  <2>3. Tokens(s, a)' \in SUBSET (Tokens(s, a) \ {token})
    BY <1>2, <2>2, FewerTokens
  <2>4. IsFiniteSet(Tokens(s, a)) /\ Cardinality(Tokens(s, a)) \in Nat
    BY TokensFinite
  <2>5. /\ IsFiniteSet(Tokens(s, a) \ {token})
        /\ Cardinality(Tokens(s, a) \ {token}) = Cardinality(Tokens(s, a)) - 1
    BY <2>1, <2>4, FS_RemoveElement
  <2>6. /\ IsFiniteSet(Tokens(s, a)')
        /\ Cardinality(Tokens(s, a)') <= Cardinality(Tokens(s, a)) - 1
    BY <2>3, <2>5, FS_Subset
  <2>7. Cardinality(Tokens(s, a)') \in Nat
    BY <2>6, FS_CardinalityType
  <2>8. strikes[s][a] \in Int /\ strikes'[s][a] \in Int
           /\ strikes'[s][a] <= strikes[s][a] + 1
    BY <1>7, <1>8, <1>9
  <2>9. strikes[s][a] + Cardinality(Tokens(s, a)) <= MaxMisses * Cardinality(Of(a))
    BY <1>1 DEF BudgetsKept
  <2>10. MaxMisses * Cardinality(Of(a)) \in Int
    BY OfFinite, WatchAssumption
  <2>11. \A i, j, k, m, n \in Int :
            i + j <= n /\ m <= i + 1 /\ k <= j - 1 => m + k <= n
    OBVIOUS
  <2> QED
    BY ONLY <2>4, <2>6, <2>7, <2>8, <2>9, <2>10, <2>11
<1>12. ASSUME NEW t \in Sensors, NEW b \in Accounts, t # s \/ b # a
      PROVE  strikes'[t][b] + Cardinality(Tokens(t, b)') <= MaxMisses * Cardinality(Of(b))
  <2>1. strikes'[t][b] <= strikes[t][b]
    BY <1>12, <1>10, StrikesTyped
  <2> QED
    BY <1>2, <2>1, BoundKept
<1>13. \A t \in Sensors, b \in Accounts :
         strikes'[t][b] + Cardinality(Tokens(t, b)') <= MaxMisses * Cardinality(Of(b))
  BY <1>11, <1>12
<1> QED
  BY <1>13 DEF BudgetsKept, Of, Tokens, Left

(* A budget read is what is left of the account's, whoever else has one.   *)
LEMMA ReadKeeps ==
    ASSUME Typed, Typed', BudgetLeft, BudgetLeft', BudgetsKept,
           NEW w \in Watches, ReadBudget(w)
    PROVE  BudgetsKept'
<1>1. /\ place[w] = "budget"
      /\ place' = [place EXCEPT ![w] = "waiting"]
      /\ UNCHANGED <<task, sensor, misses>>
      /\ sensor[w] \in Sensors /\ Account[w] \in Accounts
  BY StrikesTyped DEF ReadBudget, Goto
<1>2. PICK s \in Sensors, a \in Accounts : s = sensor[w] /\ a = Account[w]
  BY <1>1
<1>3. PICK n \in 0 .. MaxMisses :
         /\ strikes'[s][a] = n
         /\ allowed' = [allowed EXCEPT ![w] = MaxMisses - n]
         /\ \A t \in Sensors, b \in Accounts :
               t # s \/ b # a => strikes'[t][b] = strikes[t][b]
  <2>1. CASE /\ Clear(s, a)
             /\ allowed' = [allowed EXCEPT ![w] = MaxMisses]
    <3>1. strikes \in [Sensors -> [Accounts -> 0 .. 255]]
      BY DEF Typed, TypeOK
    <3>2. strikes' = [strikes EXCEPT ![s] = [strikes[s] EXCEPT ![a] = 0]]
      BY <2>1 DEF Clear
    <3>3. strikes'[s][a] = 0
      BY <3>1, <3>2
    <3>4. \A t \in Sensors, b \in Accounts :
             t # s \/ b # a => strikes'[t][b] = strikes[t][b]
      BY <3>1, <3>2
    <3>5. 0 \in 0 .. MaxMisses /\ MaxMisses - 0 = MaxMisses
      BY WatchAssumption
    <3> QED
      BY <2>1, <3>3, <3>4, <3>5
  <2>2. CASE /\ StrikesOf(w) < MaxMisses
             /\ allowed' = [allowed EXCEPT ![w] = MaxMisses - StrikesOf(w)]
             /\ UNCHANGED counts
    <3>1. StrikesOf(w) = strikes[s][a] /\ strikes' = strikes
      BY <1>2, <2>2 DEF StrikesOf, counts
    <3>2. strikes[s][a] \in 0 .. 255
      BY StrikesTyped
    <3>3. strikes[s][a] \in 0 .. MaxMisses
      BY <2>2, <3>1, <3>2, WatchAssumption
    <3> QED
      BY <2>2, <3>1, <3>3
  <2> QED
    BY <1>2, <2>1, <2>2 DEF ReadBudget
<1>4. allowed \in [Watches -> 0 .. MaxMisses]
  BY DEF Typed, TypeOK
<1>5. Left(w)' <= MaxMisses - n
  <2>1. place'[w] = "waiting" /\ allowed'[w] = MaxMisses - n
    BY <1>1, <1>3, <1>4 DEF Typed, TypeOK
  <2> QED
    BY <2>1, WatchAssumption DEF Left
<1>6. strikes'[s][a] + Cardinality(Tokens(s, a)') <= MaxMisses * Cardinality(Of(a))
  <2>1. Of(a) \in SUBSET Watches /\ w \in Of(a)
    BY <1>2 DEF Of
  <2>2. Tokens(s, a)' \in SUBSET (Of(a) \X (1 .. MaxMisses))
    BY DEF Tokens, Of
  <2>3. ASSUME NEW t \in Tokens(s, a)', t[1] = w
        PROVE  t[2] <= MaxMisses - n
    <3>1. t[2] <= Left(w)' /\ t[2] \in 1 .. MaxMisses
      BY <2>3 DEF Tokens
    <3>2. Left(w)' \in 0 .. MaxMisses
      BY WatchAssumption DEF Typed, TypeOK, BudgetLeft, Left
    <3> QED
      BY <1>5, <3>1, <3>2, WatchAssumption
  <2>4. n \in Nat /\ n <= MaxMisses
    BY <1>3, WatchAssumption
  <2>5. n + Cardinality(Tokens(s, a)') <= MaxMisses * Cardinality(Of(a))
    BY <2>1, <2>2, <2>3, <2>4, BoundRead
  <2> QED
    BY <1>3, <2>5
<1>7. ASSUME NEW t \in Sensors, NEW b \in Accounts, t # s \/ b # a
      PROVE  strikes'[t][b] + Cardinality(Tokens(t, b)')
                 <= MaxMisses * Cardinality(Of(b))
  <2>1. Tokens(t, b)' = Tokens(t, b)
    <3>1. ASSUME NEW x \in Of(b) \X (1 .. MaxMisses)
          PROVE  sensor'[x[1]] = t /\ x[2] <= Left(x[1])'
                    <=> sensor[x[1]] = t /\ x[2] <= Left(x[1])
      <4>1. x[1] \in Watches /\ Account[x[1]] = b /\ sensor' = sensor
        BY <1>1 DEF Of
      <4>2. CASE x[1] = w
        BY <1>2, <1>7, <4>1, <4>2
      <4>3. CASE x[1] # w
        <5>1. UNCHANGED <<place[x[1]], task[x[1]], allowed[x[1]], misses[x[1]]>>
          BY <1>1, <1>3, <4>1, <4>3
        <5> QED
          BY <4>1, <5>1 DEF Left
      <4> QED
        BY <4>2, <4>3
    <3> QED
      BY <3>1 DEF Tokens, Of
  <2>2. strikes'[t][b] = strikes[t][b]
    BY <1>3, <1>7
  <2> QED
    BY <2>1, <2>2 DEF BudgetsKept
<1>8. \A t \in Sensors, b \in Accounts :
         strikes'[t][b] + Cardinality(Tokens(t, b)') <= MaxMisses * Cardinality(Of(b))
  BY <1>6, <1>7
<1> QED
  BY <1>8 DEF BudgetsKept, Of, Tokens, Left

LEMMA NextBudgeted == Budgeted /\ [Next]_vars => Budgeted'
<1> SUFFICES ASSUME Budgeted, [Next]_vars PROVE BudgetsKept'
  BY NextTyped, NextBudgetLeft DEF Budgeted
<1>a. Typed /\ Typed' /\ BudgetLeft /\ BudgetLeft' /\ BudgetsKept
  BY NextTyped, NextBudgetLeft DEF Budgeted
<1>b. /\ strikes \in [Sensors -> [Accounts -> 0 .. 255]]
      /\ \A s \in Sensors, a \in Accounts : strikes[s][a] \in 0 .. 255
  BY <1>a, StrikesTyped DEF Typed, TypeOK
<1>c. ASSUME LesserLeft,
             \A s \in Sensors, a \in Accounts : strikes'[s][a] <= strikes[s][a]
      PROVE  BudgetsKept'
  <2>1. \A s \in Sensors, a \in Accounts :
           strikes'[s][a] + Cardinality(Tokens(s, a)') <= MaxMisses * Cardinality(Of(a))
    BY <1>a, <1>c, BoundKept
  <2> QED
    BY <2>1 DEF BudgetsKept, Of, Tokens, Left
<1>d. ASSUME strikes' = strikes
      PROVE  \A s \in Sensors, a \in Accounts : strikes'[s][a] <= strikes[s][a]
  BY <1>b, <1>d
<1>e. ASSUME UNCHANGED talk PROVE LesserLeft
  <2>1. ASSUME NEW w \in Watches
        PROVE  Left(w)' <= Left(w) /\ sensor'[w] = sensor[w]
    <3>1. Left(w) \in 0 .. MaxMisses
      BY <1>a, LeftTyped
    <3>2. Left(w)' = Left(w) /\ sensor' = sensor
      BY <1>e DEF talk, Left
    <3>3. Left(w) <= Left(w)
      BY <3>1, WatchAssumption
    <3> QED
      BY <3>2, <3>3
  <2> QED
    BY <2>1 DEF LesserLeft
<1>1. CASE World
  <2>1. UNCHANGED talk
    BY <1>1 DEF World, ClientGoes, PasswordSucceeds, Age, TakenElsewhere
  <2>2. \A s \in Sensors, a \in Accounts : strikes'[s][a] <= strikes[s][a]
    <3>1. CASE strikes' = strikes
      BY <1>d, <3>1
    <3>2. ASSUME NEW b \in Accounts,
                 strikes' = [s \in Sensors |-> [strikes[s] EXCEPT ![b] = 0]]
          PROVE  \A s \in Sensors, a \in Accounts : strikes'[s][a] <= strikes[s][a]
      <4> SUFFICES ASSUME NEW s \in Sensors, NEW a \in Accounts
                   PROVE  strikes'[s][a] <= strikes[s][a]
        OBVIOUS
      <4>1. strikes'[s][a] = strikes[s][a] \/ strikes'[s][a] = 0
        BY <1>b, <3>2
      <4>2. strikes[s][a] \in 0 .. 255
        BY <1>b
      <4> QED
        BY <4>1, <4>2
    <3> QED
      BY <1>1, <3>1, <3>2 DEF World, ClientGoes, PasswordSucceeds, Age,
         TakenElsewhere, counts
  <2> QED
    BY <1>c, <1>e, <2>1, <2>2
<1>2. ASSUME NEW w \in Watches, Follower(w) PROVE BudgetsKept'
  BY <1>2, <1>c, <1>d, <1>e DEF Follower, FollowerFlags, FollowerShuts, counts
<1>3. ASSUME NEW w \in Watches, UNCHANGED counts,
             \/ Over(w)
             \/ \E s \in Sensors : StartWatch(w, s) \/ StartEnrol(w, s)
             \/ Ready(w) \/ AttachStore(w) \/ AttachCheck(w)
             \/ Match(w) \/ SensorFails(w)
      PROVE  BudgetsKept'
  <2>1. LesserLeft
    BY <1>a, <1>3, LeftFalls
  <2>2. strikes' = strikes
    BY <1>3 DEF counts
  <2> QED
    BY <1>c, <1>d, <2>1, <2>2
<1>4. ASSUME NEW w \in Watches,
             BudgetSpent(w) \/ Unavailable(w) \/ EnrolEnds(w) \/ Cancelled(w)
      PROVE  Over(w) /\ UNCHANGED counts
  BY <1>4 DEF BudgetSpent, Unavailable, EnrolEnds, Cancelled
<1>5. ASSUME NEW w \in Watches,
             \/ \E s \in Sensors : StartWatch(w, s) \/ StartEnrol(w, s)
             \/ Ready(w) \/ AttachStore(w) \/ AttachCheck(w)
             \/ Match(w) \/ SensorFails(w)
      PROVE  UNCHANGED counts
  BY <1>5 DEF StartWatch, StartEnrol, Ready, AttachStore, AttachCheck, Match,
     SensorFails
<1>6. ASSUME NEW w \in Watches, Admit(w) PROVE BudgetsKept'
  <2>1. LesserLeft
    BY <1>a, <1>6, LeftFalls DEF Admit
  <2>2. sensor[w] \in Sensors /\ Account[w] \in Accounts
    BY <1>a, <1>6, StrikesTyped DEF Admit
  <2>3. PICK s \in Sensors, a \in Accounts : s = sensor[w] /\ a = Account[w]
    BY <2>2
  <2>4. CASE Clear(s, a)
    <3>1. strikes' = [strikes EXCEPT ![s] = [strikes[s] EXCEPT ![a] = 0]]
      BY <2>4 DEF Clear
    <3>2. ASSUME NEW t \in Sensors, NEW b \in Accounts
          PROVE  strikes'[t][b] <= strikes[t][b]
      <4>1. strikes'[t][b] = strikes[t][b] \/ strikes'[t][b] = 0
        BY <1>b, <3>1
      <4>2. strikes[t][b] \in 0 .. 255
        BY <1>b
      <4> QED
        BY <4>1, <4>2
    <3> QED
      BY <1>c, <2>1, <3>2
  <2>5. CASE UNCHANGED counts
    BY <1>c, <1>d, <2>1, <2>5 DEF counts
  <2> QED
    BY <1>6, <2>3, <2>4, <2>5 DEF Admit
<1>7. ASSUME NEW w \in Watches, ReadBudget(w) PROVE BudgetsKept'
  BY <1>a, <1>7, ReadKeeps
<1>8. ASSUME NEW w \in Watches, Miss(w) PROVE BudgetsKept'
  BY <1>a, <1>8, MissCosts
<1>9. CASE UNCHANGED vars
  BY <1>9, <1>c, <1>d, <1>e DEF vars, counts
<1> QED
  BY <1>1, <1>2, <1>3, <1>4, <1>5, <1>6, <1>7, <1>8, <1>9
     DEF Next, Converse, Proceed

(* However the conversations of an account overlap, wait for one another   *)
(* and fail, its misses since its count was last cleared (by a right       *)
(* password, a match, or a watch begun long after the last miss) are at    *)
(* most a whole budget for each that can be open (finger.rs:320-428,       *)
(* bio.rs:91).                                                             *)
THEOREM GuessesAtSensorsBounded == Spec => []MissesBounded
<1>1. Spec => []Budgeted
  BY InitBudgeted, NextBudgeted, PTL DEF Spec
<1>2. Budgeted => MissesBounded
  <2> SUFFICES ASSUME Budgeted, NEW s \in Sensors, NEW a \in Accounts
               PROVE  strikes[s][a] <= MaxMisses * Cardinality(Of(a))
    BY DEF MissesBounded, Of
  <2>1. strikes[s][a] + Cardinality(Tokens(s, a)) <= MaxMisses * Cardinality(Of(a))
    BY DEF Budgeted, BudgetsKept
  <2>2. Cardinality(Tokens(s, a)) \in Nat
    BY TokensFinite
  <2>3. strikes[s][a] \in 0 .. 255
    BY StrikesTyped DEF Budgeted
  <2>4. MaxMisses * Cardinality(Of(a)) \in Int
    BY OfFinite, WatchAssumption
  <2>5. \A i, j, n \in Int : i + j <= n /\ j >= 0 => i <= n
    OBVIOUS
  <2> QED
    BY ONLY <2>1, <2>2, <2>3, <2>4, <2>5
<1> QED
  BY <1>1, <1>2, PTL
=============================================================================
