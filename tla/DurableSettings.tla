--------------------------- MODULE DurableSettings ---------------------------
(***************************************************************************)
(* What the settings storage promises: values are kept in memory while the   *)
(* application runs and on the disk between two runs. A save changes the disk *)
(* in one step or not at all, and what comes back is what is on the disk. Two *)
(* things are not promised. While the disk is all that a save left that could *)
(* not be completed, the next save takes it away before it writes: what was    *)
(* saved is then in no place that the promise speaks of. And a save that is    *)
(* broken off while it writes may leave a part of what it was to write.        *)
(***************************************************************************)
EXTENDS Naturals

CONSTANTS
    Key,       \* names of settings
    Value,     \* what is stored
    NoValue,   \* a key that is not there
    Parts      \* keys that a file has when its writing was broken off

VARIABLES
    data,      \* in memory
    disk,      \* as the next run will read it
    opened,    \* the application runs
    incomplete,\* the disk is what a save left that could not be completed
    taken,     \* what was taken from the disk and is to be written again
    failures   \* file operations that have failed

vars == <<data, disk, opened, incomplete, taken, failures>>

Settings == [Key -> Value \cup {NoValue}]

Empty == [k \in Key |-> NoValue]

\* The settings in memory, and of other keys what was there
Over(old, new) == [k \in Key |-> IF new[k] # NoValue THEN new[k] ELSE old[k]]

Part(settings, part) == [k \in Key |-> IF k \in part THEN settings[k] ELSE NoValue]

Init ==
    /\ data = Empty
    /\ disk \in Settings
    /\ opened = FALSE
    /\ incomplete = FALSE
    /\ taken = Empty
    /\ failures = 0

Open ==
    /\ ~opened
    /\ opened' = TRUE
    /\ data' = disk
    /\ UNCHANGED <<disk, incomplete, taken>>

\* A value is stored, or removed.
Change ==
    /\ opened
    /\ \E k \in Key, v \in Value \cup {NoValue} : data' = [data EXCEPT ![k] = v]
    /\ UNCHANGED <<disk, opened, incomplete, taken>>

Save ==
    /\ opened
    /\ disk' = Over(taken, data)
    /\ taken' = Empty
    /\ UNCHANGED <<data, opened, incomplete>>

\* A save, or the start of the application, could not be completed.
Fail ==
    /\ opened
    /\ failures' > 0
    /\ incomplete' = TRUE
    /\ UNCHANGED <<data, disk, opened, taken>>

\* What it left is taken away, to be written again: nothing, or something
\* older, is there until that is done.
Take ==
    /\ opened
    /\ incomplete
    /\ incomplete' = FALSE
    /\ taken' = disk
    /\ disk' \in Settings
    /\ UNCHANGED <<data, opened>>

Closed ==
    /\ opened' = FALSE
    /\ data' = Empty
    /\ incomplete' = FALSE
    /\ taken' = Empty

\* The writing of a save is broken off, by the end of the machine or because it fails.
BreakOff ==
    /\ opened
    /\ \E part \in Parts : disk' \in {disk, Part(Over(taken, data), part)}
    /\ taken' = Empty
    /\ \/ Closed
       \/ failures' > failures /\ incomplete' \in BOOLEAN /\ UNCHANGED <<data, opened>>

\* The application ends, or its machine stops: the memory is lost.
Close ==
    /\ opened
    /\ Closed
    /\ UNCHANGED disk

Next ==
    /\ failures' >= failures
    /\ \/ Open \/ Change \/ Save \/ Fail \/ Take \/ BreakOff \/ Close
       \/ UNCHANGED <<data, disk, opened, incomplete, taken>>

Spec == Init /\ [][Next]_vars

=============================================================================
