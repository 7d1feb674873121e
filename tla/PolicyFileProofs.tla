--------------------------- MODULE PolicyFileProofs ---------------------------
(***************************************************************************)
(* PolicyFile for any policies, any inodes, and one writer.                *)
(***************************************************************************)
EXTENDS PolicyFile, FiniteSetTheorems, TLAPS

-----------------------------------------------------------------------------
(* Types, for any number of writers.                                       *)

LEMMA OverwriteType ==
    ASSUME NEW old \in Contents, NEW p \in SUBSET Uses
    PROVE  Overwrite(old, p) \subseteq Contents
<1>1. Whole(p) \in Contents /\ Garbled \in Contents
  BY DEF Whole, Garbled, Off, Contents
<1> QED
  BY <1>1 DEF Overwrite, Contents

LEMMA InitTyped == Init => TypeOK
<1> SUFFICES ASSUME Init PROVE TypeOK
  OBVIOUS
<1>1. Blank \in Contents
  BY DEF Blank, Off, Contents
<1> QED
  BY <1>1 DEF Init, TypeOK, Off

LEMMA NextTyped == TypeOK /\ [Next]_vars => TypeOK'
<1> SUFFICES ASSUME TypeOK, [Next]_vars PROVE TypeOK'
  OBVIOUS
<1> USE PolicyAssumption DEF TypeOK, writers, files, At, Off
<1>0. Blank \in Contents
  BY DEF Blank, Contents
<1>1. ASSUME NEW w \in Writers, NEW p \in Policies, BeginSave(w, p)
      PROVE  TypeOK'
  BY <1>1 DEF BeginSave
<1>2. ASSUME NEW w \in Writers, Open(w) PROVE TypeOK'
  <2>1. PICK i \in IF tmp = NoFile THEN Unused ELSE {tmp} :
           /\ tmp' = i
           /\ fd' = [fd EXCEPT ![w] = i]
           /\ data' = [data EXCEPT ![i] = Blank]
           /\ synced' = IF tmp = NoFile THEN [synced EXCEPT ![i] = Blank] ELSE synced
    BY <1>2 DEF Open
  <2>2. i \in Inodes /\ i # NoFile
    BY <2>1 DEF Unused
  <2> QED
    BY <1>0, <1>2, <2>1, <2>2 DEF Open
<1>3. ASSUME NEW w \in Writers, Write(w) PROVE TypeOK'
  <2>1. fd[w] \in Inodes
    BY <1>3 DEF Write
  <2>2. Overwrite(data[fd[w]], text[w]) \subseteq Contents
    BY <2>1, OverwriteType
  <2> QED
    BY <1>3, <2>1, <2>2 DEF Write
<1>4. ASSUME NEW w \in Writers, Sync(w) PROVE TypeOK'
  BY <1>4 DEF Sync
<1>5. ASSUME NEW w \in Writers, Rename(w) PROVE TypeOK'
  BY <1>5 DEF Rename, Closed
<1>6. ASSUME NEW w \in Writers, SaveFails(w) PROVE TypeOK'
  BY <1>6 DEF SaveFails, Closed
<1>7. CASE Remove
  BY <1>7 DEF Remove
<1>8. ASSUME NEW i \in Inodes, WriteBack(i) PROVE TypeOK'
  BY <1>8 DEF WriteBack
<1>9. CASE FlushEntries
  BY <1>9 DEF FlushEntries
<1>10. CASE Crash
  BY <1>10 DEF Crash
<1>11. CASE UNCHANGED vars
  BY <1>11 DEF vars
<1> QED
  BY <1>1, <1>2, <1>3, <1>4, <1>5, <1>6, <1>7, <1>8, <1>9, <1>10, <1>11
     DEF Next, Save

(* A writer holds the file open from its open to its rename, and every     *)
(* file is blank, whole or garbled (policy.rs:104-117).                    *)
THEOREM TypeCorrect == Spec => []TypeOK
<1> QED
  BY InitTyped, NextTyped, PTL DEF Spec

-----------------------------------------------------------------------------
(* One writer.  What it has open is the temporary file, which is never the *)
(* live one, in memory or on the disk; so what those hold was synced       *)
(* before it was renamed, and nobody has touched it since.                 *)

OneWriter == \A v, w \in Writers : v = w

OpensTemporary ==
    \A w \in Writers :
        /\ fd[w] # NoFile => fd[w] = tmp
        /\ at[w] = "write" => data[fd[w]] = Blank
        /\ at[w] \in {"sync", "rename"} => data[fd[w]] = Whole(text[w])
        /\ at[w] = "rename" => synced[fd[w]] = data[fd[w]]

TemporaryApart ==
    /\ tmp # NoFile => tmp \notin {live, onDisk.live}
    /\ onDisk.tmp # NoFile => onDisk.tmp # onDisk.live

Settled(entry) ==
    entry # NoFile => data[entry].state = "whole" /\ synced[entry] = data[entry]

SafeFile ==
    /\ TypeOK
    /\ OpensTemporary
    /\ TemporaryApart
    /\ Settled(live)
    /\ Settled(onDisk.live)

LEMMA InitSafe == Init => SafeFile
<1> SUFFICES ASSUME Init PROVE SafeFile
  OBVIOUS
<1> QED
  BY InitTyped DEF Init, SafeFile, OpensTemporary, TemporaryApart, Settled

LEMMA NextSafe == OneWriter /\ SafeFile /\ [Next]_vars => SafeFile'
<1> SUFFICES ASSUME OneWriter, SafeFile, [Next]_vars
             PROVE  (OpensTemporary /\ TemporaryApart /\ Settled(live)
                     /\ Settled(onDisk.live))'
  BY NextTyped DEF SafeFile
<1> DEFINE Safe == OpensTemporary /\ TemporaryApart /\ Settled(live)
                   /\ Settled(onDisk.live)
<1>a. TypeOK /\ Safe
  BY DEF SafeFile
<1>b. /\ at \in [Writers -> {"idle", "open", "write", "sync", "rename"}]
      /\ text \in [Writers -> SUBSET Uses]
      /\ fd \in [Writers -> Inodes \cup {NoFile}]
      /\ \A w \in Writers : fd[w] = NoFile <=> at[w] \in {"idle", "open"}
      /\ data \in [Inodes -> Contents]
      /\ synced \in [Inodes -> Contents]
      /\ tmp \in Inodes \cup {NoFile}
      /\ live \in Inodes \cup {NoFile}
      /\ onDisk \in [tmp : Inodes \cup {NoFile}, live : Inodes \cup {NoFile}]
      /\ NoFile \notin Inodes
  BY <1>a, PolicyAssumption DEF TypeOK
<1> USE <1>b DEF OpensTemporary, TemporaryApart, Settled, OneWriter, writers,
        files, At
<1>1. ASSUME NEW w \in Writers, NEW p \in Policies, BeginSave(w, p)
      PROVE  Safe'
  BY <1>a, <1>1 DEF BeginSave
<1>2. ASSUME NEW w \in Writers, Open(w) PROVE Safe'
  <2>1. PICK i \in IF tmp = NoFile THEN Unused ELSE {tmp} :
           /\ tmp' = i
           /\ fd' = [fd EXCEPT ![w] = i]
           /\ data' = [data EXCEPT ![i] = Blank]
           /\ synced' = IF tmp = NoFile THEN [synced EXCEPT ![i] = Blank] ELSE synced
    BY <1>2 DEF Open
  <2>2. i \in Inodes /\ i \notin {live, onDisk.live}
    BY <1>a, <2>1 DEF Unused
  <2>3. /\ at' = [at EXCEPT ![w] = "write"]
        /\ UNCHANGED <<text, live, onDisk>>
    BY <1>2 DEF Open
  <2>4. OpensTemporary'
    BY <2>1, <2>2, <2>3
  <2>5. TemporaryApart'
    BY <1>a, <2>1, <2>2, <2>3
  <2>6. \A e \in {live, onDisk.live} \ {NoFile} :
           data'[e] = data[e] /\ synced'[e] = synced[e]
    BY <2>1, <2>2
  <2> QED
    BY <1>a, <2>3, <2>4, <2>5, <2>6
<1>3. ASSUME NEW w \in Writers, Write(w) PROVE Safe'
  <2>1. /\ fd[w] \in Inodes
        /\ fd[w] = tmp
        /\ data[fd[w]] = Blank
    BY <1>a, <1>3 DEF Write
  <2>2. data' = [data EXCEPT ![fd[w]] = Whole(text[w])]
    BY <1>3, <2>1 DEF Write, Overwrite, Blank
  <2>3. /\ at' = [at EXCEPT ![w] = "sync"]
        /\ UNCHANGED <<text, fd, synced, tmp, live, onDisk>>
    BY <1>3 DEF Write
  <2> QED
    BY <1>a, <2>1, <2>2, <2>3
<1>4. ASSUME NEW w \in Writers, Sync(w) PROVE Safe'
  <2>1. fd[w] \in Inodes /\ fd[w] = tmp
    BY <1>a, <1>4 DEF Sync
  <2>2. /\ at' = [at EXCEPT ![w] = "rename"]
        /\ synced' = [synced EXCEPT ![fd[w]] = data[fd[w]]]
        /\ at[w] = "sync"
        /\ UNCHANGED <<text, fd, data, tmp, live, onDisk>>
    BY <1>4 DEF Sync
  <2> QED
    BY <1>a, <2>1, <2>2
<1>5. ASSUME NEW w \in Writers, Rename(w) PROVE Safe'
  <2>1. /\ fd[w] \in Inodes
        /\ fd[w] = tmp
        /\ data[tmp] = Whole(text[w])
        /\ synced[tmp] = data[tmp]
    BY <1>a, <1>5 DEF Rename
  <2>2. /\ live' = tmp
        /\ tmp' = NoFile
        /\ at' = [at EXCEPT ![w] = "idle"]
        /\ fd' = [fd EXCEPT ![w] = NoFile]
        /\ UNCHANGED <<data, synced, onDisk>>
    BY <1>5, <2>1 DEF Rename, Closed
  <2>3. data[tmp].state = "whole"
    BY <2>1 DEF Whole
  <2>4. \A v \in Writers : at'[v] = "idle" /\ fd'[v] = NoFile
    BY <2>2
  <2> QED
    BY <1>a, <2>1, <2>2, <2>3, <2>4
<1>6. ASSUME NEW w \in Writers, SaveFails(w) PROVE Safe'
  BY <1>a, <1>6 DEF SaveFails, Closed
<1>7. CASE Remove
  BY <1>a, <1>7 DEF Remove
<1>8. ASSUME NEW i \in Inodes, WriteBack(i) PROVE Safe'
  BY <1>a, <1>8 DEF WriteBack
<1>9. CASE FlushEntries
  BY <1>a, <1>9 DEF FlushEntries
<1>10. CASE Crash
  BY <1>a, <1>10 DEF Crash
<1>11. CASE UNCHANGED vars
  BY <1>a, <1>11 DEF vars
<1> QED
  BY <1>1, <1>2, <1>3, <1>4, <1>5, <1>6, <1>7, <1>8, <1>9, <1>10, <1>11
     DEF Next, Save

LEMMA AlwaysSafe == OneWriter => (Spec => []SafeFile)
<1> SUFFICES ASSUME OneWriter PROVE Spec => []SafeFile
  OBVIOUS
<1>1. SafeFile /\ [Next]_vars => SafeFile'
  BY NextSafe
<1> QED
  BY <1>1, InitSafe, PTL DEF Spec

(* With one writer a crash at any step leaves a whole policy under the     *)
(* live name (policy.rs:79).                                               *)
THEOREM CrashSafe == OneWriter => (Spec => []CrashLeavesWhole)
<1> SUFFICES ASSUME OneWriter PROVE Spec => []CrashLeavesWhole
  OBVIOUS
<1>1. SafeFile => CrashLeavesWhole
  BY DEF SafeFile, Settled, CrashLeavesWhole
<1> QED
  BY <1>1, AlwaysSafe, PTL

(* With one writer a reader finds a whole policy at any step of a save.    *)
THEOREM ReaderSafe == OneWriter => (Spec => []ReaderSeesWhole)
<1> SUFFICES ASSUME OneWriter PROVE Spec => []ReaderSeesWhole
  OBVIOUS
<1>1. SafeFile => ReaderSeesWhole
  BY DEF SafeFile, Settled, ReaderSeesWhole
<1> QED
  BY <1>1, AlwaysSafe, PTL

-----------------------------------------------------------------------------
(* With one writer the file implements the register of PolicyRegister:     *)
(* each step of a save, of the file system or of a crash begins, commits,  *)
(* abandons or forgets a whole policy, or changes nothing a reader sees.   *)

LEMMA InitRegister == Init => Register!Init
  BY DEF Init, Register!Init, Load, Off

LEMMA NextRegister ==
    OneWriter /\ SafeFile /\ [Next]_vars => [Register!Next]_Register!vars
<1> SUFFICES ASSUME OneWriter, SafeFile, [Next]_vars
             PROVE  [Register!Next]_Register!vars
  OBVIOUS
<1> DEFINE Value == Load(live, data)
           Durable == Load(onDisk.live, synced)
           Saving == [w \in Writers |-> IF at[w] = "idle" THEN {} ELSE {text[w]}]
<1>a. /\ at \in [Writers -> {"idle", "open", "write", "sync", "rename"}]
      /\ text \in [Writers -> SUBSET Uses]
      /\ fd \in [Writers -> Inodes \cup {NoFile}]
      /\ \A w \in Writers : fd[w] = NoFile <=> at[w] \in {"idle", "open"}
      /\ data \in [Inodes -> Contents]
      /\ synced \in [Inodes -> Contents]
      /\ tmp \in Inodes \cup {NoFile}
      /\ live \in Inodes \cup {NoFile}
      /\ onDisk \in [tmp : Inodes \cup {NoFile}, live : Inodes \cup {NoFile}]
      /\ NoFile \notin Inodes
  BY PolicyAssumption DEF SafeFile, TypeOK
<1>b. OpensTemporary /\ TemporaryApart /\ Settled(live) /\ Settled(onDisk.live)
  BY DEF SafeFile
<1> USE <1>a DEF At, writers, files
<1>q. ASSUME UNCHANGED <<Value, Durable, Saving>> PROVE UNCHANGED Register!vars
  BY <1>q DEF Register!vars
<1>1. ASSUME NEW w \in Writers, NEW p \in Policies, BeginSave(w, p)
      PROVE  Register!Begin(w)
  <2>1. UNCHANGED <<Value, Durable>>
    BY <1>1 DEF BeginSave, Load
  <2>2. Saving[w] = {} /\ Saving' = [Saving EXCEPT ![w] = {p}]
    BY <1>1 DEF BeginSave
  <2> QED
    BY <2>1, <2>2 DEF Register!Begin
<1>2. ASSUME NEW w \in Writers, Open(w) PROVE UNCHANGED <<Value, Durable, Saving>>
  <2>1. PICK i \in IF tmp = NoFile THEN Unused ELSE {tmp} :
           /\ data' = [data EXCEPT ![i] = Blank]
           /\ synced' = IF tmp = NoFile THEN [synced EXCEPT ![i] = Blank] ELSE synced
    BY <1>2 DEF Open
  <2>2. i \in Inodes /\ i \notin {live, onDisk.live}
    BY <1>b, <2>1 DEF Unused, TemporaryApart
  <2>3. UNCHANGED <<Value, Durable>>
    BY <1>2, <2>1, <2>2 DEF Open, Load
  <2>4. UNCHANGED Saving
    BY <1>2 DEF Open
  <2> QED
    BY <2>3, <2>4
<1>3. ASSUME NEW w \in Writers, Write(w) \/ Sync(w)
      PROVE  UNCHANGED <<Value, Durable, Saving>>
  <2>1. fd[w] \in Inodes /\ fd[w] \notin {live, onDisk.live}
    BY <1>b, <1>3 DEF Write, Sync, OpensTemporary, TemporaryApart
  <2>2. UNCHANGED <<Value, Durable>>
    BY <1>3, <2>1 DEF Write, Sync, Load
  <2>3. UNCHANGED Saving
    BY <1>3 DEF Write, Sync
  <2> QED
    BY <2>2, <2>3
<1>4. ASSUME NEW w \in Writers, Rename(w) PROVE Register!Commit(w)
  <2>1. /\ fd[w] \in Inodes
        /\ fd[w] = tmp
        /\ data[tmp] = Whole(text[w])
    BY <1>b, <1>4 DEF Rename, OpensTemporary
  <2>2. Value' = text[w]
    BY <1>4, <2>1 DEF Rename, Load, Whole
  <2>3. UNCHANGED Durable
    BY <1>4 DEF Rename, Load
  <2>4. Saving[w] = {text[w]} /\ Saving' = [Saving EXCEPT ![w] = {}]
    BY <1>4 DEF Rename, Closed
  <2> QED
    BY <2>2, <2>3, <2>4 DEF Register!Commit
<1>5. ASSUME NEW w \in Writers, SaveFails(w) PROVE Register!Abort(w)
  <2>1. UNCHANGED <<Value, Durable>>
    BY <1>5 DEF SaveFails, Load
  <2>2. Saving' = [Saving EXCEPT ![w] = {}]
    BY <1>5 DEF SaveFails, Closed
  <2> QED
    BY <2>1, <2>2 DEF Register!Abort
<1>6. CASE Remove
  <2>1. Value' = Off /\ UNCHANGED Durable
    BY <1>6 DEF Remove, Load
  <2>2. UNCHANGED Saving
    BY <1>6 DEF Remove
  <2> QED
    BY <2>1, <2>2 DEF Register!Next, Register!Remove
<1>7. ASSUME NEW i \in Inodes, WriteBack(i)
      PROVE  UNCHANGED <<Value, Durable, Saving>>
  BY <1>b, <1>7 DEF WriteBack, Load, Settled
<1>8. CASE FlushEntries
  <2>1. UNCHANGED <<Value, Saving>>
    BY <1>8 DEF FlushEntries, Load
  <2>2. Durable' = Value
    BY <1>b, <1>8 DEF FlushEntries, Load, Settled
  <2> QED
    BY <2>1, <2>2 DEF Register!Next, Register!Flush
<1>9. CASE Crash
  <2>1. Value' = Durable /\ UNCHANGED Durable
    BY <1>9 DEF Crash, Load
  <2>2. Saving' = [w \in Writers |-> {}]
    BY <1>9 DEF Crash
  <2> QED
    BY <2>1, <2>2 DEF Register!Next, Register!Crash
<1>10. CASE UNCHANGED vars
  BY <1>10 DEF vars, Load, Register!vars
<1> QED
  BY <1>q, <1>1, <1>2, <1>3, <1>4, <1>5, <1>6, <1>7, <1>8, <1>9, <1>10
     DEF Next, Save, Register!Next

(* A save by rename, its crashes and failures included, does what a        *)
(* register's atomic save does, when there is one writer (policy.rs:79-116 *)
(* of raven-finger).                                                       *)
THEOREM ImplementsRegister == OneWriter => (Spec => RegisterSpec)
<1> SUFFICES ASSUME OneWriter PROVE Spec => RegisterSpec
  OBVIOUS
<1>1. SafeFile /\ [Next]_vars => [Register!Next]_Register!vars
  BY NextRegister
<1> QED
  BY <1>1, InitRegister, AlwaysSafe, PTL DEF Spec, RegisterSpec, Register!Spec
=============================================================================
