------------------------------ MODULE PolicyFile ------------------------------
(***************************************************************************)
(* One account's policy file (raven-finger/src/policy.rs, and the same in  *)
(* raven-face/src/policy.rs): a save writes a temporary file, syncs it and *)
(* renames it over the live one.  The temporary file has one name for all  *)
(* writers.  Files are inodes with directory entries for them, so that a   *)
(* descriptor outlives a rename; what a crash leaves is kept beside what   *)
(* is there.                                                               *)
(***************************************************************************)
EXTENDS Integers, FiniteSets

CONSTANTS Writers,   \* threads of ravend that save this account's policy
          Uses,      \* the switches of a policy
          Policies,  \* the policies that get saved: sets of uses
          Inodes,
          NoFile

ASSUME PolicyAssumption ==
    /\ Policies \subseteq SUBSET Uses
    /\ IsFiniteSet(Uses)
    /\ NoFile \notin Inodes

VARIABLES
    at,      \* where each writer is
    text,    \* the policy it is writing
    fd,      \* the inode it has open
    data,    \* what each inode holds
    synced,  \* what the disk holds of it
    tmp,     \* the entry `.account.toml.tmp`
    live,    \* the entry `account.toml`
    onDisk   \* both entries as the disk has them

writers == <<at, text, fd>>
files == <<data, synced, tmp, live>>
vars == <<writers, files, onDisk>>

-----------------------------------------------------------------------------

Off == {}

Blank == [state |-> "blank", uses |-> Off]

Whole(p) == [state |-> "whole", uses |-> p]

Garbled == [state |-> "garbled", uses |-> Off]

(* A policy is written from the start of the file over what is there.  A   *)
(* switch that is on is one character shorter than one that is off; a tail *)
(* of one character is a line end, and a longer one does not parse.        *)
Overwrite(old, p) ==
    CASE old.state = "blank" -> {Whole(p)}
      [] old.state = "whole" ->
            IF Cardinality(p) >= Cardinality(old.uses) + 2
            THEN {Garbled} ELSE {Whole(p)}
      [] old.state = "garbled" -> {Whole(p), Garbled}

(* `load_from`: off if the file is missing, empty or does not parse. *)
Load(entry, content) ==
    IF entry = NoFile THEN Off ELSE content[entry].uses

At(w, step) == at' = [at EXCEPT ![w] = step]

Init ==
    /\ at = [w \in Writers |-> "idle"]
    /\ text = [w \in Writers |-> Off]
    /\ fd = [w \in Writers |-> NoFile]
    /\ data = [i \in Inodes |-> Blank]
    /\ synced = [i \in Inodes |-> Blank]
    /\ tmp = NoFile
    /\ live = NoFile
    /\ onDisk = [tmp |-> NoFile, live |-> NoFile]

-----------------------------------------------------------------------------

BeginSave(w, p) ==
    /\ at[w] = "idle"
    /\ At(w, "open")
    /\ text' = [text EXCEPT ![w] = p]
    /\ UNCHANGED <<fd, files, onDisk>>

Unused ==
    Inodes \ ({tmp, live, onDisk.tmp, onDisk.live} \cup {fd[w] : w \in Writers})

(* O_CREAT | O_TRUNC: a temporary file that is there is opened and emptied. *)
Open(w) ==
    /\ at[w] = "open"
    /\ At(w, "write")
    /\ \E i \in IF tmp = NoFile THEN Unused ELSE {tmp} :
          /\ tmp' = i
          /\ fd' = [fd EXCEPT ![w] = i]
          /\ data' = [data EXCEPT ![i] = Blank]
          /\ synced' = IF tmp = NoFile THEN [synced EXCEPT ![i] = Blank] ELSE synced
    /\ UNCHANGED <<text, live, onDisk>>

Write(w) ==
    /\ at[w] = "write"
    /\ At(w, "sync")
    /\ \E content \in Overwrite(data[fd[w]], text[w]) :
          data' = [data EXCEPT ![fd[w]] = content]
    /\ UNCHANGED <<text, fd, synced, tmp, live, onDisk>>

Sync(w) ==
    /\ at[w] = "sync"
    /\ At(w, "rename")
    /\ synced' = [synced EXCEPT ![fd[w]] = data[fd[w]]]
    /\ UNCHANGED <<text, fd, data, tmp, live, onDisk>>

(* Mutant of Closed: the descriptor is not closed. *)
LeftOpen(w) ==
    /\ At(w, "idle")
    /\ text' = [text EXCEPT ![w] = Off]
    /\ UNCHANGED fd

Closed(w) ==
    /\ At(w, "idle")
    /\ text' = [text EXCEPT ![w] = Off]
    /\ fd' = [fd EXCEPT ![w] = NoFile]

(* Mutant of Rename: the inode is linked and the old entry for it is kept. *)
RenameKeeps(w) ==
    /\ at[w] = "rename"
    /\ Closed(w)
    /\ live' = tmp
    /\ UNCHANGED <<data, synced, tmp, onDisk>>

(* By name: whatever inode is the temporary file by now. *)
Rename(w) ==
    /\ at[w] = "rename"
    /\ Closed(w)
    /\ IF tmp = NoFile
       THEN UNCHANGED <<tmp, live>>
       ELSE live' = tmp /\ tmp' = NoFile
    /\ UNCHANGED <<data, synced, onDisk>>

(* Any step may fail, and leaves the temporary file as it is. *)
SaveFails(w) ==
    /\ at[w] # "idle"
    /\ Closed(w)
    /\ UNCHANGED <<files, onDisk>>

(* `remove`, by a thread that forgets the account's fingers. *)
Remove ==
    /\ live' = NoFile
    /\ UNCHANGED <<writers, data, synced, tmp, onDisk>>

-----------------------------------------------------------------------------
(* The file system.                                                        *)

WriteBack(i) ==
    /\ synced' = [synced EXCEPT ![i] = data[i]]
    /\ UNCHANGED <<writers, data, tmp, live, onDisk>>

FlushEntries ==
    /\ onDisk' = [tmp |-> tmp, live |-> live]
    /\ UNCHANGED <<writers, files>>

Crash ==
    /\ at' = [w \in Writers |-> "idle"]
    /\ text' = [w \in Writers |-> Off]
    /\ fd' = [w \in Writers |-> NoFile]
    /\ data' = synced
    /\ tmp' = onDisk.tmp
    /\ live' = onDisk.live
    /\ UNCHANGED <<synced, onDisk>>

-----------------------------------------------------------------------------

Save(w) == Open(w) \/ Write(w) \/ Sync(w) \/ Rename(w) \/ SaveFails(w)

Next ==
    \/ \E w \in Writers, p \in Policies : BeginSave(w, p)
    \/ \E w \in Writers : Save(w)
    \/ Remove
    \/ \E i \in Inodes : WriteBack(i)
    \/ FlushEntries
    \/ Crash

Spec == Init /\ [][Next]_vars

-----------------------------------------------------------------------------

Contents == [state : {"blank", "whole", "garbled"}, uses : SUBSET Uses]

(* The type invariant of the file and its writers: a writer has the file   *)
(* open from its open to its rename.                                       *)
TypeOK ==
    /\ at \in [Writers -> {"idle", "open", "write", "sync", "rename"}]
    /\ text \in [Writers -> SUBSET Uses]
    /\ fd \in [Writers -> Inodes \cup {NoFile}]
    /\ \A w \in Writers : fd[w] = NoFile <=> at[w] \in {"idle", "open"}
    /\ data \in [Inodes -> Contents]
    /\ synced \in [Inodes -> Contents]
    /\ tmp \in Inodes \cup {NoFile}
    /\ live \in Inodes \cup {NoFile}
    /\ onDisk \in [tmp : Inodes \cup {NoFile}, live : Inodes \cup {NoFile}]

(* "A crash halfway leaves the old file rather than a truncated one"       *)
(* (policy.rs:79): whatever a crash would leave under the live name is a   *)
(* whole policy.                                                           *)
CrashLeavesWhole ==
    onDisk.live # NoFile => synced[onDisk.live].state = "whole"

(* Nobody who reads the live file while it is being replaced sees an empty *)
(* one or half of one (policy.rs:79).                                      *)
ReaderSeesWhole == live # NoFile => data[live].state = "whole"

(* The file as its readers see it; see PolicyRegister. *)
Register == INSTANCE PolicyRegister WITH
    value <- Load(live, data),
    durable <- Load(onDisk.live, synced),
    saving <- [w \in Writers |-> IF at[w] = "idle" THEN {} ELSE {text[w]}]

RegisterSpec == Register!Spec
=============================================================================
