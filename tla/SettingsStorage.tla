--------------------------- MODULE SettingsStorage ---------------------------
(***************************************************************************)
(* SettingsStorage and its TransactionalSettings: the settings in memory, the *)
(* timer that saves them some seconds after a change, and the two files they  *)
(* are saved to, "Torrente_new" and then "Torrente", step by step, so that     *)
(* power may fail between any two steps. QSettings is external, and does what  *)
(* write() says of it: it keeps the keys that a file already had, and deletes  *)
(* the file before it writes it; power may fail, or the disk be full, between. *)
(***************************************************************************)
EXTENDS Integers

CONSTANTS
    Key,          \* names of settings
    Value,        \* what is stored
    NoValue,      \* a key that is not there
    Parts,        \* keys that a file has whose writing was broken off: none when
                  \*   QSettings puts a file in its place as a whole
    MaxFailures   \* bound: file operations that fail

ASSUME SettingsStorageAssumption ==
    /\ NoValue \notin Value
    /\ {} \in Parts /\ Parts \subseteq SUBSET Key
    /\ MaxFailures \in Nat

VARIABLES
    pc,           \* where the application is, see Step
    data,         \* m_data
    dirty,        \* m_dirty
    timer,        \* m_timer is active
    newFile,      \* keys and values of Torrente_new
    deleted,      \* those that it had before QSettings deleted it
    file,         \* keys and values of Torrente
    failures,     \* history: file operations that failed
    atExit        \* the destructor is saving

vars   == <<pc, data, dirty, timer, newFile, deleted, file, failures, atExit>>
memory == <<data, dirty, timer>>

\* "restoring" and "restored": read() has found settings in Torrente_new;
\* "writing": QSettings has deleted Torrente_new and writes it;
\* "written": it is there again; "removed": Torrente is removed.
Step == {"off", "restoring", "restored", "idle", "writing", "written", "removed"}

Settings == [Key -> Value \cup {NoValue}]

\* No key, and so no file: QSettings does not write one.
Empty == [k \in Key |-> NoValue]

\* What read() returns
Disk == IF newFile # Empty THEN newFile ELSE file

Fails ==
    /\ failures < MaxFailures
    /\ failures' = failures + 1

Init ==
    /\ pc = "off"
    /\ data = Empty
    /\ dirty = FALSE
    /\ timer = FALSE
    /\ newFile = Empty
    /\ deleted = Empty
    /\ file \in Settings
    /\ failures = 0
    /\ atExit = FALSE

-----------------------------------------------------------------------------
(* TransactionalSettings::read, in the constructor *)

\* Mutated form: Torrente_new is not looked at.
ReadOld == file

Read == Disk

Open ==
    /\ pc = "off"
    /\ data' = Read
    /\ dirty' = FALSE
    /\ timer' = FALSE
    /\ pc' = IF newFile # Empty THEN "restoring" ELSE "idle"
    /\ atExit' = FALSE
    /\ UNCHANGED <<newFile, deleted, file, failures>>

\* forceRemove of the old file, in read() and in write()
RemoveFile(from, to) ==
    /\ pc = from
    /\ pc' = to
    /\ \/ file' = Empty /\ UNCHANGED failures
       \/ file # Empty /\ Fails /\ UNCHANGED file
    /\ UNCHANGED <<memory, newFile, deleted, atExit>>

\* QFile::rename: neither without a source nor over a target
CanRename == newFile # Empty /\ file = Empty

Renamed ==
    /\ CanRename
    /\ file' = newFile
    /\ newFile' = Empty

RestoreRemoves == RemoveFile("restoring", "restored")

\* Its result is not looked at.
RestoreRenames ==
    /\ pc = "restored"
    /\ pc' = "idle"
    /\ \/ Renamed /\ UNCHANGED failures
       \/ ~CanRename /\ UNCHANGED <<newFile, file, failures>>
       \/ CanRename /\ Fails /\ UNCHANGED <<newFile, file>>
    /\ UNCHANGED <<memory, deleted, atExit>>

-----------------------------------------------------------------------------
(* The settings in memory *)

\* Mutated form: a removal does not start the timer.
StartsForValues(v) == v # NoValue

\* Every change starts it.
Starts(v) == TRUE

\* storeValueImpl, and removeValue when v is NoValue. What changes nothing does
\* not start the timer.
SetValue(k, v) ==
    /\ pc = "idle"
    /\ data[k] # v
    /\ data' = [data EXCEPT ![k] = v]
    /\ dirty' = TRUE
    /\ timer' = (timer \/ Starts(v))
    /\ UNCHANGED <<pc, newFile, deleted, file, failures, atExit>>

-----------------------------------------------------------------------------
(* SettingsStorage::save and TransactionalSettings::write *)

\* What is in a file that had old after new is written to it
Merged(old, new) == [k \in Key |-> IF new[k] # NoValue THEN new[k] ELSE old[k]]

\* Mutated form: the settings are dirty no longer although writing failed.
EndedAnyway(ok) ==
    /\ dirty' = FALSE
    /\ timer' = timer

\* Mutated form: the timer does not start again.
EndedForGood(ok) ==
    /\ dirty' = ~ok
    /\ timer' = timer

\* The end of save(): the settings are dirty no longer, or the timer starts again.
Ended(ok) ==
    /\ dirty' = ~ok
    /\ timer' = (timer \/ ~ok)

\* ... and of the application, when it was the destructor's.
EndSave(ok) ==
    /\ atExit' = FALSE
    /\ IF atExit
       THEN pc' = "off" /\ data' = Empty /\ dirty' = FALSE /\ timer' = FALSE
       ELSE pc' = "idle" /\ UNCHANGED data /\ Ended(ok)

\* serialize(), for the timer, for Preferences::apply() or for the destructor:
\* QSettings opens the file, and deletes it, or fails before it does.
BeginSave(exiting, stopped) ==
    /\ pc = "idle"
    /\ dirty
    /\ \/ /\ deleted' = newFile
          /\ newFile' = Empty
          /\ pc' = "writing"
          /\ timer' = (timer /\ ~stopped)
          /\ atExit' = exiting
          /\ UNCHANGED <<data, dirty, file, failures>>
       \/ /\ Fails
          /\ IF exiting
             THEN pc' = "off" /\ data' = Empty /\ dirty' = FALSE /\ timer' = FALSE
             ELSE UNCHANGED <<pc, data>> /\ Ended(FALSE)
          /\ UNCHANGED <<newFile, deleted, file, atExit>>

\* What is in a file whose writing was broken off
Broken == {[k \in Key |-> IF k \in part THEN Merged(deleted, data)[k] ELSE NoValue] : part \in Parts}

\* It writes the file, or fails and leaves what it has written: the removal
\* that write() has for this case is given an empty name, and removes nothing.
Written ==
    /\ pc = "writing"
    /\ deleted' = Empty
    /\ UNCHANGED file
    /\ \/ /\ newFile' = Merged(deleted, data)
          /\ pc' = "written"
          /\ UNCHANGED <<memory, failures, atExit>>
       \/ newFile' \in Broken /\ Fails /\ EndSave(FALSE)

\* m_timer is a single shot.
SaveByTimer == timer /\ BeginSave(FALSE, TRUE)

SaveByApply == BeginSave(FALSE, FALSE)

\* ~SettingsStorage
Destroy ==
    \/ BeginSave(TRUE, TRUE)
    \/ /\ pc = "idle" /\ ~dirty
       /\ pc' = "off" /\ data' = Empty /\ dirty' = FALSE /\ timer' = FALSE
       /\ UNCHANGED <<newFile, deleted, file, failures, atExit>>

\* The timer fires although another call has saved the settings meanwhile.
TimerFiresLate ==
    /\ pc = "idle"
    /\ timer /\ ~dirty
    /\ timer' = FALSE
    /\ UNCHANGED <<pc, data, dirty, newFile, deleted, file, failures, atExit>>

SaveRemoves == RemoveFile("written", "removed")

SaveRenames ==
    /\ pc = "removed"
    /\ UNCHANGED deleted
    /\ \/ Renamed /\ EndSave(TRUE) /\ UNCHANGED failures
       \/ ~CanRename /\ EndSave(FALSE) /\ UNCHANGED <<newFile, file, failures>>
       \/ CanRename /\ Fails /\ EndSave(FALSE) /\ UNCHANGED <<newFile, file>>

-----------------------------------------------------------------------------
\* Power fails, or the application dies: the files stay as they are, but for
\* one that is being written.
Crash ==
    /\ pc # "off"
    /\ pc' = "off"
    /\ data' = Empty
    /\ dirty' = FALSE
    /\ timer' = FALSE
    /\ atExit' = FALSE
    /\ deleted' = Empty
    /\ IF pc = "writing" THEN newFile' \in Broken ELSE UNCHANGED newFile
    /\ UNCHANGED <<file, failures>>

Changes == \E k \in Key, v \in Value \cup {NoValue} : SetValue(k, v)

Saving == SaveByTimer \/ Written \/ SaveRemoves \/ SaveRenames

Next ==
    \/ Open \/ RestoreRemoves \/ RestoreRenames
    \/ Changes
    \/ Saving \/ SaveByApply \/ TimerFiresLate
    \/ Destroy \/ Crash

Spec == Init /\ [][Next]_vars

\* A timer that is not started again fires, and a save that has begun goes on.
FairSpec == Spec /\ WF_vars(Saving)

-----------------------------------------------------------------------------
(* Properties *)

TypeOK ==
    /\ pc \in Step
    /\ data \in Settings
    /\ dirty \in BOOLEAN
    /\ timer \in BOOLEAN
    /\ newFile \in Settings
    /\ deleted \in Settings
    /\ file \in Settings
    /\ failures \in 0..MaxFailures
    /\ atExit \in BOOLEAN

Keeps(saved, d) == \A k \in Key : d[k] # NoValue => saved[k] = d[k]

\* Unsaved changes are always waited for by the timer, also when a save failed
\* (save() and storeValueImpl restart it), or are being saved at this moment.
DirtyIsScheduled == dirty /\ pc = "idle" => timer

\* The types, and that unsaved changes are waited for.
StorageOK == TypeOK /\ DirtyIsScheduled

\* When nothing is unsaved every value in memory is on the disk, whatever file
\* operations failed before, in this run or in an earlier one.
CleanIsSaved == pc # "off" /\ ~dirty => Keeps(Disk, data)


\* Torrente_new is there although nothing is being saved or restored.
LeftOver == pc = "idle" /\ newFile # Empty

Durable == INSTANCE DurableSettings
             WITH disk <- Disk, opened <- (pc # "off"), incomplete <- LeftOver, taken <- deleted

\* The two files, written in this order, keep the promise of DurableSettings:
\* what was saved is at stake only where a file operation has failed before, or
\* where QSettings leaves a file half written.
ImplementsDurable == Durable!Spec

\* What is changed is saved in the end, however many file operations fail, unless
\* the application ends, the last setting is removed, or changes, which start the
\* timer anew (storeValueImpl), go on for ever.
ChangesAreSaved ==
    \/ []<><<Changes>>_vars
    \/ dirty ~> ~dirty \/ data = Empty

=============================================================================
