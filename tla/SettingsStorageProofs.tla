------------------------ MODULE SettingsStorageProofs ------------------------
(* Proofs about SettingsStorage, for any keys and values, any number of        *)
(* failures and any part of a file that is left when its writing was broken    *)
(* off.                                                                        *)
EXTENDS SettingsStorage, TLAPS

\* What each step of reading and of writing can rely on: what is being restored
\* is in Torrente_new, what is being written is there or is nothing, and only
\* while it is being written is there something that QSettings has deleted.
StepsAreSound ==
    /\ pc = "off" => data = Empty /\ ~dirty
    /\ pc \in {"restoring", "restored"} => newFile # Empty /\ ~dirty /\ data = newFile
    /\ pc = "writing" => dirty /\ newFile = Empty
    /\ pc # "writing" => deleted = Empty
    /\ pc \in {"written", "removed"} =>
          /\ dirty
          /\ \/ newFile # Empty /\ Keeps(newFile, data)
             \/ newFile = Empty /\ data = Empty

\* What is left in Torrente_new was left by an operation that failed, and so was
\* what is left in Torrente where it is to be replaced.
LeftByFailure ==
    LeftOver \/ (pc \in {"restored", "removed"} /\ file # Empty) => failures > 0

IInv == TypeOK /\ StepsAreSound /\ LeftByFailure /\ DirtyIsScheduled /\ CleanIsSaved

LEMMA EmptyIsSettings == Empty \in Settings
  BY DEF Empty, Settings

LEMMA MergedIsSettings ==
  ASSUME NEW old \in Settings, NEW new \in Settings
  PROVE  Merged(old, new) \in Settings
  BY DEF Merged, Settings

\* What is written is kept, whatever the file had before.
LEMMA MergedKeeps ==
  ASSUME NEW old \in Settings, NEW new \in Settings
  PROVE  /\ Keeps(Merged(old, new), new)
         /\ Merged(old, new) = Empty => old = Empty /\ new = Empty
  <1>1. Keeps(Merged(old, new), new)
    BY DEF Keeps, Merged
  <1>2. ASSUME Merged(old, new) = Empty PROVE old = Empty /\ new = Empty
    <2>1. \A k \in Key : new[k] = NoValue /\ old[k] = NoValue
      <3>1. \A k \in Key : Merged(old, new)[k] = NoValue
        BY <1>2 DEF Empty
      <3>2. QED BY <3>1 DEF Merged
    <2>2. QED BY <2>1 DEF Empty, Settings
  <1>3. QED BY <1>1, <1>2

LEMMA KeepsItself == \A d : Keeps(d, d)
  BY DEF Keeps

LEMMA KeepsNothing == \A d : Keeps(d, Empty)
  BY DEF Keeps, Empty

LEMMA BrokenIsSettings ==
  ASSUME TypeOK
  PROVE  Broken \subseteq Settings
  <1>1. Merged(deleted, data) \in Settings
    BY MergedIsSettings DEF TypeOK
  <1>2. QED
    BY <1>1 DEF Broken, Settings

\* A file operation that fails is counted.
LEMMA FailsCounts ==
  ASSUME TypeOK, Fails
  PROVE  failures' \in 0..MaxFailures /\ failures' > 0 /\ failures' > failures
  BY SettingsStorageAssumption DEF TypeOK, Fails

LEMMA InitIInv == Init => IInv
  <1> SUFFICES ASSUME Init PROVE IInv
    OBVIOUS
  <1>1. TypeOK
    <2>1. failures \in 0..MaxFailures
      BY SettingsStorageAssumption DEF Init
    <2>2. data \in Settings /\ newFile \in Settings /\ file \in Settings /\ deleted \in Settings
      BY EmptyIsSettings DEF Init
    <2>3. QED
      BY <2>1, <2>2 DEF Init, TypeOK, Step
  <1>2. QED
    BY <1>1 DEF Init, IInv, StepsAreSound, LeftByFailure, LeftOver, DirtyIsScheduled, CleanIsSaved

-----------------------------------------------------------------------------
(* Each action preserves the invariant. *)

LEMMA OpenKeeps == IInv /\ Open => IInv'
  <1> SUFFICES ASSUME IInv, Open PROVE IInv'
    OBVIOUS
  <1>1. TypeOK'
    BY DEF IInv, TypeOK, Open, Step, Read, Disk
  <1>2. StepsAreSound'
    BY DEF IInv, StepsAreSound, Open, Read, Disk
  <1>3. CleanIsSaved'
    BY KeepsItself DEF CleanIsSaved, Open, Read, Disk
  <1>4. QED
    BY <1>1, <1>2, <1>3 DEF IInv, LeftByFailure, LeftOver, DirtyIsScheduled, Open

LEMMA RestoreRemovesKeeps == IInv /\ RestoreRemoves => IInv'
  <1> SUFFICES ASSUME IInv, RestoreRemoves PROVE IInv'
    OBVIOUS
  <1> USE DEF RestoreRemoves, RemoveFile, memory
  <1>1. TypeOK'
    BY EmptyIsSettings, SettingsStorageAssumption DEF IInv, TypeOK, Fails, Step
  <1>2. StepsAreSound'
    BY DEF IInv, StepsAreSound
  <1>3. CleanIsSaved'
    BY DEF IInv, StepsAreSound, CleanIsSaved, Disk
  <1>4. LeftByFailure'
    <2>1. CASE file' = Empty
      BY <2>1 DEF LeftByFailure, LeftOver
    <2>2. CASE Fails
      BY <2>2, FailsCounts DEF IInv, LeftByFailure
    <2>3. QED
      BY <2>1, <2>2
  <1>5. QED
    BY <1>1, <1>2, <1>3, <1>4 DEF IInv, DirtyIsScheduled

\* It leaves Torrente_new only when it fails, or when the removal has failed.
LEMMA RestoreRenamesKeeps == IInv /\ RestoreRenames => IInv'
  <1> SUFFICES ASSUME IInv, RestoreRenames PROVE IInv'
    OBVIOUS
  <1> USE DEF RestoreRenames, Renamed, CanRename, memory
  <1>1. TypeOK'
    BY EmptyIsSettings, SettingsStorageAssumption DEF IInv, TypeOK, Fails, Step
  <1>2. StepsAreSound'
    BY DEF IInv, StepsAreSound
  <1>3. CleanIsSaved'
    BY KeepsItself DEF IInv, StepsAreSound, CleanIsSaved, Disk
  <1>4. LeftByFailure'
    <2>1. CASE newFile' = Empty
      BY <2>1 DEF LeftByFailure, LeftOver
    <2>2. CASE Fails
      BY <2>2, FailsCounts DEF IInv, LeftByFailure
    <2>3. CASE ~CanRename /\ UNCHANGED <<newFile, file, failures>>
      BY <2>3 DEF IInv, StepsAreSound, LeftByFailure
    <2>4. QED
      BY <2>1, <2>2, <2>3
  <1>5. QED
    BY <1>1, <1>2, <1>3, <1>4 DEF IInv, StepsAreSound, DirtyIsScheduled

LEMMA SetValueKeeps ==
  ASSUME NEW k \in Key, NEW v \in Value \cup {NoValue}, IInv, SetValue(k, v)
  PROVE  IInv'
  <1>1. TypeOK'
    BY DEF IInv, TypeOK, SetValue, Settings, Step, Starts
  <1>2. StepsAreSound' /\ LeftByFailure'
    BY DEF IInv, StepsAreSound, LeftByFailure, LeftOver, SetValue
  <1>3. QED
    BY <1>1, <1>2 DEF IInv, DirtyIsScheduled, CleanIsSaved, SetValue, Starts

LEMMA BeginSaveKeeps ==
  ASSUME NEW exiting \in BOOLEAN, NEW stopped \in BOOLEAN, IInv, BeginSave(exiting, stopped)
  PROVE  IInv'
  <1>1. CASE /\ deleted' = newFile /\ newFile' = Empty /\ pc' = "writing"
             /\ timer' = (timer /\ ~stopped) /\ atExit' = exiting
             /\ UNCHANGED <<data, dirty, file, failures>>
    <2>1. TypeOK'
      BY <1>1, EmptyIsSettings DEF IInv, TypeOK, Step
    <2>2. dirty'
      BY <1>1 DEF BeginSave
    <2>3. QED
      BY <1>1, <2>1, <2>2 DEF IInv, StepsAreSound, LeftByFailure, LeftOver, DirtyIsScheduled, CleanIsSaved
  <1>2. CASE /\ Fails
             /\ IF exiting
                THEN pc' = "off" /\ data' = Empty /\ dirty' = FALSE /\ timer' = FALSE
                ELSE UNCHANGED <<pc, data>> /\ Ended(FALSE)
             /\ UNCHANGED <<newFile, deleted, file, atExit>>
    <2>1. failures' \in 0..MaxFailures /\ failures' > 0
      BY <1>2, FailsCounts DEF IInv
    <2>2. TypeOK'
      <3>1. data' \in Settings /\ newFile' \in Settings /\ file' \in Settings /\ deleted' \in Settings
        BY <1>2, EmptyIsSettings DEF IInv, TypeOK
      <3>2. dirty' \in BOOLEAN /\ timer' \in BOOLEAN /\ pc' \in Step /\ atExit' \in BOOLEAN
        BY <1>2 DEF IInv, TypeOK, Ended, Step
      <3>3. QED
        BY <2>1, <3>1, <3>2 DEF TypeOK
    <2>3. pc = "idle" /\ deleted = Empty
      BY DEF BeginSave, IInv, StepsAreSound
    <2>4. StepsAreSound'
      BY <1>2, <2>3 DEF StepsAreSound, Ended
    <2>5. QED
      BY <1>2, <2>1, <2>2, <2>3, <2>4 DEF IInv, LeftByFailure, DirtyIsScheduled, CleanIsSaved, Ended
  <1>3. QED
    BY <1>1, <1>2 DEF BeginSave

\* A save that has failed leaves the settings dirty, and its failure counted.
LEMMA FailedSaveKeeps ==
  ASSUME IInv, EndSave(FALSE), deleted' = Empty, newFile' \in Settings, UNCHANGED file,
         failures' \in 0..MaxFailures, pc' = "idle" /\ newFile' # Empty => failures' > 0
  PROVE  IInv'
  <1>1. TypeOK'
    <2>1. data' \in Settings /\ deleted' \in Settings /\ file' \in Settings
      BY EmptyIsSettings DEF IInv, TypeOK, EndSave
    <2>2. dirty' \in BOOLEAN /\ timer' \in BOOLEAN /\ pc' \in Step /\ atExit' \in BOOLEAN
      BY DEF IInv, TypeOK, Step, EndSave, Ended
    <2>3. QED
      BY <2>1, <2>2 DEF TypeOK
  <1>2. \/ pc' = "off" /\ data' = Empty /\ dirty' = FALSE
        \/ pc' = "idle" /\ dirty' = TRUE /\ timer' = TRUE
    BY DEF EndSave, Ended
  <1>3. QED
    BY <1>1, <1>2 DEF IInv, StepsAreSound, LeftByFailure, LeftOver, DirtyIsScheduled, CleanIsSaved

LEMMA WrittenKeeps == IInv /\ Written => IInv'
  <1> SUFFICES ASSUME IInv, Written PROVE IInv'
    OBVIOUS
  <1>1. pc = "writing" /\ deleted' = Empty /\ file' = file
    BY DEF Written
  <1>2. CASE newFile' = Merged(deleted, data) /\ pc' = "written" /\ UNCHANGED <<memory, failures, atExit>>
    <2>1. newFile' \in Settings /\ Keeps(newFile', data) /\ (newFile' = Empty => data = Empty)
      BY <1>2, MergedIsSettings, MergedKeeps DEF IInv, TypeOK
    <2>2. dirty' /\ data' = data
      BY <1>1, <1>2 DEF IInv, StepsAreSound, memory
    <2>3. TypeOK'
      BY <1>1, <1>2, <2>1, EmptyIsSettings DEF IInv, TypeOK, Step, memory
    <2>4. StepsAreSound'
      BY <1>1, <1>2, <2>1, <2>2 DEF StepsAreSound
    <2>5. QED
      BY <1>2, <2>2, <2>3, <2>4 DEF IInv, LeftByFailure, LeftOver, DirtyIsScheduled, CleanIsSaved
  <1>3. CASE newFile' \in Broken /\ Fails /\ EndSave(FALSE)
    <2>1. newFile' \in Settings
      BY <1>3, BrokenIsSettings DEF IInv
    <2>2. failures' \in 0..MaxFailures /\ failures' > 0
      BY <1>3, FailsCounts DEF IInv
    <2>3. QED
      BY <1>1, <1>3, <2>1, <2>2, FailedSaveKeeps
  <1>4. QED
    BY <1>2, <1>3 DEF Written

LEMMA DestroyKeeps == IInv /\ Destroy => IInv'
  <1> SUFFICES ASSUME IInv, Destroy PROVE IInv'
    OBVIOUS
  <1>1. CASE BeginSave(TRUE, TRUE)
    BY <1>1, BeginSaveKeeps
  <1>2. CASE /\ pc = "idle" /\ pc' = "off" /\ data' = Empty /\ dirty' = FALSE /\ timer' = FALSE
             /\ UNCHANGED <<newFile, deleted, file, failures, atExit>>
    <2>1. TypeOK'
      <3>1. data' \in Settings /\ failures' \in 0..MaxFailures
        BY <1>2, EmptyIsSettings DEF IInv, TypeOK
      <3>2. QED
        BY <1>2, <3>1 DEF IInv, TypeOK, Step
    <2>2. QED
      BY <1>2, <2>1 DEF IInv, StepsAreSound, LeftByFailure, LeftOver, DirtyIsScheduled, CleanIsSaved
  <1>3. QED
    BY <1>1, <1>2 DEF Destroy

LEMMA SaveRemovesKeeps == IInv /\ SaveRemoves => IInv'
  <1> SUFFICES ASSUME IInv, SaveRemoves PROVE IInv'
    OBVIOUS
  <1> USE DEF SaveRemoves, RemoveFile, memory
  <1>1. TypeOK'
    BY EmptyIsSettings, SettingsStorageAssumption DEF IInv, TypeOK, Fails, Step
  <1>2. LeftByFailure'
    <2>1. CASE file' = Empty
      BY <2>1 DEF LeftByFailure, LeftOver
    <2>2. CASE Fails
      BY <2>2, FailsCounts DEF IInv, LeftByFailure
    <2>3. QED
      BY <2>1, <2>2
  <1>3. QED
    BY <1>1, <1>2 DEF IInv, StepsAreSound, DirtyIsScheduled, CleanIsSaved

LEMMA SaveRenamesKeeps == IInv /\ SaveRenames => IInv'
  <1> SUFFICES ASSUME IInv, SaveRenames PROVE IInv'
    OBVIOUS
  <1>1. pc = "removed" /\ deleted' = Empty
    BY DEF SaveRenames, IInv, StepsAreSound
  <1>2. CASE Renamed /\ EndSave(TRUE) /\ UNCHANGED failures
    <2>1. file' = newFile /\ newFile' = Empty /\ Keeps(newFile, data)
      BY <1>1, <1>2, KeepsItself DEF Renamed, CanRename, IInv, StepsAreSound
    <2>2. TypeOK'
      <3>1. newFile' \in Settings /\ file' \in Settings /\ data' \in Settings /\ deleted' \in Settings
        BY <1>1, <1>2, <2>1, EmptyIsSettings DEF IInv, TypeOK, EndSave
      <3>2. dirty' \in BOOLEAN /\ timer' \in BOOLEAN /\ pc' \in Step /\ atExit' \in BOOLEAN
        BY <1>2 DEF IInv, TypeOK, Step, EndSave, Ended
      <3>3. QED
        BY <1>2, <3>1, <3>2 DEF IInv, TypeOK
    <2>3. CleanIsSaved'
      BY <1>2, <2>1 DEF CleanIsSaved, Disk, EndSave, Ended
    <2>4. StepsAreSound'
      BY <1>1, <1>2, <2>1 DEF StepsAreSound, EndSave, Ended
    <2>5. QED
      BY <1>2, <2>1, <2>2, <2>3, <2>4 DEF IInv, LeftByFailure, LeftOver, DirtyIsScheduled, EndSave, Ended
  <1>3. CASE ~CanRename /\ EndSave(FALSE) /\ UNCHANGED <<newFile, file, failures>>
    <2>1. newFile' # Empty => failures' > 0
      BY <1>1, <1>3 DEF IInv, LeftByFailure, CanRename
    <2>2. newFile' \in Settings /\ failures' \in 0..MaxFailures
      BY <1>3 DEF IInv, TypeOK
    <2>3. QED
      BY <1>1, <1>3, <2>1, <2>2, FailedSaveKeeps
  <1>4. CASE Fails /\ EndSave(FALSE) /\ UNCHANGED <<newFile, file>>
    <2>1. failures' \in 0..MaxFailures /\ failures' > 0
      BY <1>4, FailsCounts DEF IInv
    <2>2. newFile' \in Settings
      BY <1>4 DEF IInv, TypeOK
    <2>3. QED
      BY <1>1, <1>4, <2>1, <2>2, FailedSaveKeeps
  <1>5. QED
    BY <1>2, <1>3, <1>4 DEF SaveRenames

LEMMA CrashKeeps == IInv /\ Crash => IInv'
  <1> SUFFICES ASSUME IInv, Crash PROVE IInv'
    OBVIOUS
  <1>1. TypeOK'
    <2>1. newFile' \in Settings
      BY BrokenIsSettings DEF IInv, TypeOK, Crash
    <2>2. QED
      BY <2>1, EmptyIsSettings DEF IInv, TypeOK, Crash, Step
  <1>2. QED
    BY <1>1 DEF IInv, StepsAreSound, LeftByFailure, LeftOver, DirtyIsScheduled, CleanIsSaved, Crash

LEMMA TimerFiresLateKeeps == IInv /\ TimerFiresLate => IInv'
  <1> SUFFICES ASSUME IInv, TimerFiresLate PROVE IInv'
    OBVIOUS
  <1>1. TypeOK'
    BY DEF IInv, TypeOK, TimerFiresLate
  <1>2. QED
    BY <1>1 DEF IInv, StepsAreSound, LeftByFailure, LeftOver, DirtyIsScheduled, CleanIsSaved,
                TimerFiresLate, Disk

LEMMA StutterKeeps == IInv /\ UNCHANGED vars => IInv'
  BY DEF IInv, TypeOK, StepsAreSound, LeftByFailure, LeftOver, DirtyIsScheduled, CleanIsSaved, Disk, vars

LEMMA NextKeeps == IInv /\ [Next]_vars => IInv'
  <1> SUFFICES ASSUME IInv, [Next]_vars PROVE IInv'
    OBVIOUS
  <1>1. CASE Open
    BY <1>1, OpenKeeps
  <1>2. CASE RestoreRemoves
    BY <1>2, RestoreRemovesKeeps
  <1>3. CASE RestoreRenames
    BY <1>3, RestoreRenamesKeeps
  <1>4. CASE Changes
    BY <1>4, SetValueKeeps DEF Changes
  <1>5. CASE SaveByTimer \/ SaveByApply
    BY <1>5, BeginSaveKeeps DEF SaveByTimer, SaveByApply
  <1>6. CASE SaveRemoves
    BY <1>6, SaveRemovesKeeps
  <1>7. CASE SaveRenames
    BY <1>7, SaveRenamesKeeps
  <1>8. CASE TimerFiresLate
    BY <1>8, TimerFiresLateKeeps
  <1>9. CASE Destroy
    BY <1>9, DestroyKeeps
  <1>10. CASE Crash
    BY <1>10, CrashKeeps
  <1>11. CASE Written
    BY <1>11, WrittenKeeps
  <1>12. CASE UNCHANGED vars
    BY <1>12, StutterKeeps
  <1>13. QED
    BY <1>1, <1>2, <1>3, <1>4, <1>5, <1>6, <1>7, <1>8, <1>9, <1>10, <1>11, <1>12
    DEF Next, Saving

-----------------------------------------------------------------------------
LEMMA Invariance == Spec => []IInv
  <1>1. Init => IInv
    BY InitIInv
  <1>2. IInv /\ [Next]_vars => IInv'
    BY NextKeeps
  <1>3. QED
    BY <1>1, <1>2, PTL DEF Spec

\* The state of the storage is well typed (settingsstorage.h).
THEOREM Typing == Spec => []TypeOK
  <1>1. IInv => TypeOK
    BY DEF IInv
  <1>2. QED
    BY <1>1, Invariance, PTL

\* The state is well typed, and the timer waits for unsaved changes, whatever
\* failed (save, storeValueImpl).
THEOREM UnsavedIsScheduled == Spec => []StorageOK
  <1>1. IInv => StorageOK
    BY DEF IInv, StorageOK
  <1>2. QED
    BY <1>1, Invariance, PTL

\* What is not marked as unsaved is on the disk, whatever failed (write, read).
THEOREM SavedIsOnDisk == Spec => []CleanIsSaved
  <1>1. IInv => CleanIsSaved
    BY DEF IInv
  <1>2. QED
    BY <1>1, Invariance, PTL

-----------------------------------------------------------------------------
(* Refinement: every step is one of DurableSettings, or changes nothing that it *)
(* sees but the number of failures.                                             *)

\* What DurableSettings sees but the failures
Seen == <<data, Disk, pc # "off", LeftOver, deleted>>

LEMMA FailuresGrow ==
  ASSUME IInv, [Next]_vars
  PROVE  failures' >= failures
  <1>1. failures' = failures \/ Fails
    BY DEF Next, vars, Open, RestoreRemoves, RemoveFile, RestoreRenames, Renamed, Changes, SetValue,
           Saving, SaveByTimer, SaveByApply, BeginSave, Written, SaveRemoves, SaveRenames,
           TimerFiresLate, Destroy, Crash, memory
  <1>2. failures \in 0..MaxFailures
    BY DEF IInv, TypeOK
  <1>3. CASE Fails
    BY <1>2, <1>3, SettingsStorageAssumption DEF Fails
  <1>4. CASE failures' = failures
    BY <1>2, <1>4, SettingsStorageAssumption
  <1>5. QED
    BY <1>1, <1>3, <1>4

\* The two modules mean the same by these.
LEMMA SameOperators ==
  /\ Durable!Empty = Empty
  /\ Durable!Settings = Settings
  /\ \A before, new : Durable!Over(before, new) = Merged(before, new)
  /\ \A s, part : Durable!Part(s, part) = [k \in Key |-> IF k \in part THEN s[k] ELSE NoValue]
  BY DEF Durable!Empty, Empty, Durable!Settings, Settings, Durable!Over, Merged, Durable!Part

\* The disk after a writing that was broken off
LEMMA BrokenOff ==
  ASSUME pc = "writing", IInv, newFile' \in Broken, file' = file
  PROVE  \E part \in Parts : Disk' \in {Disk, Durable!Part(Durable!Over(deleted, data), part)}
  <1>1. PICK part \in Parts :
           newFile' = [k \in Key |-> IF k \in part THEN Merged(deleted, data)[k] ELSE NoValue]
    BY DEF Broken
  <1>2. newFile' = Durable!Part(Durable!Over(deleted, data), part)
    BY <1>1, SameOperators
  <1>3. newFile = Empty
    BY DEF IInv, StepsAreSound
  <1>4. Disk' \in {Disk, newFile'}
    BY <1>3 DEF Disk
  <1>5. QED
    BY <1>2, <1>4

LEMMA InitRefines == Init => Durable!Init
  BY EmptyIsSettings, SameOperators DEF Init, Durable!Init, Disk, LeftOver

LEMMA NothingMerged == Merged(Empty, Empty) = Empty
  BY DEF Merged, Empty

\* The application ends, without its files.
LEMMA ClosingRefines ==
  ASSUME IInv, pc # "off", pc' = "off", data' = Empty, deleted' = Empty, Disk' = Disk
  PROVE  Durable!Close
  BY SameOperators DEF Durable!Close, Durable!Closed, LeftOver

LEMMA BeginSaveRefines ==
  ASSUME NEW exiting \in BOOLEAN, NEW stopped \in BOOLEAN, IInv, BeginSave(exiting, stopped)
  PROVE  Durable!Take \/ Durable!Close \/ UNCHANGED Seen
  <1>1. pc = "idle" /\ deleted = Empty
    BY DEF BeginSave, IInv, StepsAreSound
  <1>2. CASE /\ deleted' = newFile /\ newFile' = Empty /\ pc' = "writing"
             /\ UNCHANGED <<data, file>>
    <2>1. Disk' = file
      BY <1>2 DEF Disk
    <2>2. CASE newFile = Empty
      BY <1>1, <1>2, <2>1, <2>2 DEF Seen, Disk, LeftOver
    <2>3. CASE newFile # Empty
      <3>1. LeftOver /\ ~LeftOver' /\ Disk = newFile
        BY <1>1, <1>2, <2>3 DEF LeftOver, Disk
      <3>2. Disk' \in Settings
        BY <2>1 DEF IInv, TypeOK
      <3>3. QED
        BY <1>1, <1>2, <3>1, <3>2, SameOperators DEF Durable!Take
    <2>4. QED
      BY <2>2, <2>3
  <1>3. CASE /\ IF exiting THEN pc' = "off" /\ data' = Empty ELSE UNCHANGED <<pc, data>>
             /\ UNCHANGED <<newFile, deleted, file>>
    <2>1. CASE exiting
      <3>1. Disk' = Disk
        BY <1>3 DEF Disk
      <3>2. QED
        BY <1>1, <1>3, <2>1, <3>1, ClosingRefines
    <2>2. CASE ~exiting
      BY <1>3, <2>2 DEF Seen, Disk, LeftOver
    <2>3. QED
      BY <2>1, <2>2
  <1>4. QED
    BY <1>2, <1>3 DEF BeginSave

LEMMA WrittenRefines ==
  ASSUME IInv, Written
  PROVE  Durable!Save \/ Durable!BreakOff \/ UNCHANGED Seen
  <1>1. pc = "writing" /\ newFile = Empty /\ ~LeftOver /\ deleted' = Empty /\ file' = file
    BY DEF Written, IInv, StepsAreSound, LeftOver
  <1>2. CASE newFile' = Merged(deleted, data) /\ pc' = "written" /\ UNCHANGED <<memory, failures, atExit>>
    <2>1. CASE newFile' = Empty
      <3>1. deleted = Empty
        BY <1>2, <2>1, MergedKeeps DEF IInv, TypeOK
      <3>2. QED
        BY <1>1, <1>2, <2>1, <3>1 DEF Seen, Disk, LeftOver, memory
    <2>2. CASE newFile' # Empty
      <3>1. Disk' = Durable!Over(deleted, data)
        BY <1>2, <2>2, SameOperators DEF Disk
      <3>2. ~LeftOver' /\ data' = data
        BY <1>2 DEF LeftOver, memory
      <3>3. LeftOver' = LeftOver /\ (pc # "off")' = (pc # "off")
        BY <1>1, <1>2, <3>2 DEF LeftOver
      <3>4. deleted' = Durable!Empty
        BY <1>1, SameOperators
      <3>5. QED
        BY <1>1, <3>1, <3>2, <3>3, <3>4 DEF Durable!Save
    <2>3. QED
      BY <2>1, <2>2
  <1>3. CASE newFile' \in Broken /\ Fails /\ EndSave(FALSE)
    <2>1. \E part \in Parts : Disk' \in {Disk, Durable!Part(Durable!Over(deleted, data), part)}
      BY <1>1, <1>3, BrokenOff
    <2>2. failures' > failures
      BY <1>3, FailsCounts DEF IInv
    <2>3. CASE pc' = "off" /\ data' = Empty
      BY <1>1, <2>1, <2>3, SameOperators DEF Durable!BreakOff, Durable!Closed, LeftOver
    <2>4. CASE pc' = "idle" /\ data' = data
      <3>1. LeftOver' \in BOOLEAN
        BY DEF LeftOver
      <3>2. QED
        BY <1>1, <2>1, <2>2, <2>4, <3>1, SameOperators DEF Durable!BreakOff
    <2>5. QED
      BY <1>3, <2>3, <2>4 DEF EndSave
  <1>4. QED
    BY <1>2, <1>3 DEF Written

LEMMA SaveRemovesRefines ==
  ASSUME IInv, SaveRemoves
  PROVE  Durable!Save \/ UNCHANGED Seen
  <1>1. pc = "written" /\ pc' = "removed" /\ UNCHANGED <<data, newFile, deleted>> /\ deleted = Empty
    BY DEF SaveRemoves, RemoveFile, memory, IInv, StepsAreSound
  <1>2. CASE newFile # Empty \/ file' = file
    BY <1>1, <1>2 DEF Disk, Seen, LeftOver
  <1>3. CASE newFile = Empty /\ file' # file
    <2>1. data = Empty /\ Disk' = Empty
      BY <1>1, <1>3 DEF IInv, StepsAreSound, SaveRemoves, RemoveFile, Disk
    <2>2. Disk' = Durable!Over(deleted, data)
      BY <1>1, <2>1, NothingMerged, SameOperators
    <2>3. QED
      BY <1>1, <2>2, SameOperators DEF Durable!Save, LeftOver
  <1>4. QED
    BY <1>2, <1>3

\* An end of a save or of a restoration that changes nothing on the disk
LEMMA EndingRefines ==
  ASSUME IInv', pc \notin {"off", "idle"}, pc' = "idle", Disk' = Disk, UNCHANGED <<data, deleted>>
  PROVE  Durable!Fail \/ UNCHANGED Seen
  <1>1. CASE LeftOver'
    <2>1. failures' > 0
      BY <1>1 DEF IInv, LeftByFailure
    <2>2. QED
      BY <1>1, <2>1 DEF Durable!Fail
  <1>2. CASE ~LeftOver'
    BY <1>2 DEF Seen, LeftOver
  <1>3. QED
    BY <1>1, <1>2

LEMMA SaveRenamesRefines ==
  ASSUME IInv, IInv', SaveRenames
  PROVE  Durable!Fail \/ Durable!Close \/ UNCHANGED Seen
  <1>1. pc = "removed" /\ Disk' = Disk /\ deleted' = deleted /\ deleted = Empty
    BY DEF SaveRenames, Renamed, CanRename, Disk, IInv, StepsAreSound
  <1>2. CASE pc' = "off" /\ data' = Empty
    BY <1>1, <1>2, ClosingRefines
  <1>3. CASE pc' = "idle" /\ data' = data
    BY <1>1, <1>3, EndingRefines
  <1>4. QED
    BY <1>2, <1>3 DEF SaveRenames, EndSave

LEMMA CrashRefines ==
  ASSUME IInv, Crash
  PROVE  Durable!BreakOff \/ Durable!Close
  <1>1. pc # "off" /\ pc' = "off" /\ data' = Empty /\ deleted' = Empty /\ file' = file
    BY DEF Crash
  <1>2. CASE pc = "writing"
    <2>1. \E part \in Parts : Disk' \in {Disk, Durable!Part(Durable!Over(deleted, data), part)}
      BY <1>1, <1>2, BrokenOff DEF Crash
    <2>2. QED
      BY <1>1, <2>1, SameOperators DEF Durable!BreakOff, Durable!Closed, LeftOver
  <1>3. CASE pc # "writing"
    <2>1. Disk' = Disk
      BY <1>1, <1>3 DEF Crash, Disk
    <2>2. QED
      BY <1>1, <2>1, ClosingRefines
  <1>4. QED
    BY <1>2, <1>3

LEMMA NextRefines ==
  ASSUME IInv, IInv', [Next]_vars
  PROVE  [Durable!Next]_(Durable!vars)
  <1>1. failures' >= failures
    BY FailuresGrow
  <1>2. CASE \/ Durable!Open \/ Durable!Change \/ Durable!Save \/ Durable!Fail \/ Durable!Take
             \/ Durable!BreakOff \/ Durable!Close
    BY <1>1, <1>2 DEF Durable!Next
  <1>3. CASE UNCHANGED Seen
    BY <1>1, <1>3 DEF Durable!Next, Seen
  <1>4. CASE Open
    BY <1>2, <1>4 DEF Open, Read, Disk, LeftOver, Durable!Open
  <1>5. CASE RestoreRemoves
    <2>1. Disk' = Disk
      BY <1>5 DEF IInv, StepsAreSound, RestoreRemoves, RemoveFile, Disk
    <2>2. QED
      BY <1>3, <1>5, <2>1 DEF RestoreRemoves, RemoveFile, memory, Seen, LeftOver
  <1>6. CASE RestoreRenames
    <2>1. Disk' = Disk
      BY <1>6 DEF RestoreRenames, Renamed, CanRename, Disk
    <2>2. QED
      BY <1>2, <1>3, <1>6, <2>1, EndingRefines DEF RestoreRenames, memory
  <1>7. CASE Changes
    <2>1. PICK k \in Key, v \in Value \cup {NoValue} : SetValue(k, v)
      BY <1>7 DEF Changes
    <2>2. Disk' = Disk /\ LeftOver' = LeftOver
      BY <2>1 DEF SetValue, Disk, LeftOver
    <2>3. Durable!Change
      BY <2>1, <2>2 DEF SetValue, Durable!Change
    <2>4. QED
      BY <1>2, <2>3
  <1>8. CASE SaveByTimer \/ SaveByApply
    BY <1>2, <1>3, <1>8, BeginSaveRefines DEF SaveByTimer, SaveByApply
  <1>9. CASE Written
    BY <1>2, <1>3, <1>9, WrittenRefines
  <1>10. CASE SaveRemoves
    BY <1>2, <1>3, <1>10, SaveRemovesRefines
  <1>11. CASE SaveRenames
    BY <1>2, <1>3, <1>11, SaveRenamesRefines
  <1>12. CASE TimerFiresLate
    BY <1>3, <1>12 DEF TimerFiresLate, Disk, LeftOver, Seen
  <1>13. CASE Destroy
    <2>1. CASE BeginSave(TRUE, TRUE)
      BY <1>2, <1>3, <2>1, BeginSaveRefines
    <2>2. CASE /\ pc = "idle" /\ pc' = "off" /\ data' = Empty
               /\ UNCHANGED <<newFile, deleted, file>>
      <3>1. Disk' = Disk /\ deleted' = Empty
        BY <2>2 DEF Disk, IInv, StepsAreSound
      <3>2. QED
        BY <1>2, <2>2, <3>1, ClosingRefines
    <2>3. QED
      BY <1>13, <2>1, <2>2 DEF Destroy
  <1>14. CASE Crash
    BY <1>2, <1>14, CrashRefines
  <1>15. CASE UNCHANGED vars
    BY <1>15 DEF vars, Disk, LeftOver, Durable!vars
  <1>16. QED
    BY <1>4, <1>5, <1>6, <1>7, <1>8, <1>9, <1>10, <1>11, <1>12, <1>13, <1>14, <1>15 DEF Next, Saving

\* The files of TransactionalSettings implement the store of DurableSettings,
\* with power failing at any moment, that of QSettings' own writing included: a
\* save takes effect in one step, and what was saved is at stake only where an
\* operation on a file had failed, or where a half written file is left.
THEOREM Implements == Spec => ImplementsDurable
  <1>1. Init => Durable!Init
    BY InitRefines
  <1>2. IInv /\ IInv' /\ [Next]_vars => [Durable!Next]_(Durable!vars)
    BY NextRefines
  <1>3. QED
    BY <1>1, <1>2, Invariance, PTL DEF Spec, ImplementsDurable, Durable!Spec

=============================================================================
