----------------------------- MODULE MoveStorage -----------------------------
(***************************************************************************)
(* Where the data of the torrents is, and how it gets there: the queue of   *)
(* storage moves of BitTorrent::Session, the save path, the temporary path  *)
(* and the deferred work of TorrentImpl, and the removal of torrents that    *)
(* are being moved. libtorrent, which moves the data and answers by alerts, *)
(* is external.                                                             *)
(***************************************************************************)
EXTENDS Integers, Sequences, FiniteSets, SequencesExt

CONSTANTS
    Torrent,       \* torrents, by id
    Place,         \* folders that users and categories choose as save paths
    Temp,          \* the folder for incomplete torrents (Session::tempPath)
    Magnet,        \* those torrents that may be added without metadata
    TempToggles,   \* bound: times that this folder is enabled or disabled
    MaxChecks,     \* bound: ends of downloads and of checks, per torrent
    MaxRenames,    \* bound: file renames under way, per torrent
    MaxTriggers,   \* bound: deferred work, per torrent
    MaxHandles,    \* bound: times that a torrent enters libtorrent
    MaxFailures    \* bound: moves that fail

ASSUME MoveStorageAssumption ==
    /\ IsFiniteSet(Torrent)
    /\ Magnet \subseteq Torrent
    /\ {TempToggles, MaxChecks, MaxRenames, MaxTriggers, MaxHandles, MaxFailures} \subseteq Nat

VARIABLES
    \* BitTorrent::Session
    alive,        \* m_torrents
    removing,     \* m_removingTorrents: how each torrent is being removed
    queue,        \* m_moveStorageQueue
    temp,         \* m_isTempPathEnabled
    \* TorrentImpl
    savePath,     \* m_savePath
    moving,       \* m_storageIsMoving
    renames,      \* m_renameCount
    triggers,     \* m_moveFinishedTriggers
    seedStatus,   \* m_hasSeedStatus
    location,     \* m_nativeStatus.save_path
    seed,         \* isSeed(), from m_nativeStatus.state
    handle,       \* m_nativeHandle: which native torrent of that id it is
    \* FileSearcher, in its thread
    search,       \* where the files of each torrent may be found; {}: no search
    \* libtorrent (external)
    inSession,    \* ids of the native torrents
    noMetadata,   \* those without metadata
    place,        \* where the data of each is
    complete,     \* those that have all their data
    moves,        \* moves that it executes
    deleting,     \* torrents whose files it deletes
    alerts,       \* alerts not yet handled
    \* history and bounds
    stalled,      \* an exception left the head of the queue not started
    toggles, checks, failures

session == <<alive, removing, queue, temp>>
torrent == <<savePath, moving, renames, triggers, seedStatus, location, seed>>
native  == <<inSession, noMetadata, place, complete, moves, deleting>>
bounds  == <<toggles, checks, failures>>
current == <<queue, moves, temp, torrent>>
vars    == <<session, torrent, handle, search, native, alerts, stalled, bounds>>

Path    == Place \cup {Temp}
NoPath  == "nowhere"
Trigger == {"adjust", "removeTempFolder", "recheck", "finished"}

Job == [torrent : Torrent, handle : Nat, path : Path]

Alert ==
    [type : {"moved", "moveFailed"}, job : Job]
        \cup [type : {"finished", "checked", "removed", "deleted"}, torrent : Torrent]

About(type, t) == [type |-> type, torrent |-> t]

-----------------------------------------------------------------------------
(* The part of the state that the helpers of the code change, as a record:    *)
(* they call one another several times in a step.                             *)

Current ==
    [queue |-> queue, moves |-> moves, temp |-> temp, savePath |-> savePath,
     moving |-> moving, renames |-> renames, triggers |-> triggers,
     seedStatus |-> seedStatus, location |-> location, seed |-> seed]

Becomes(s) ==
    /\ queue' = s.queue
    /\ moves' = s.moves
    /\ temp' = s.temp
    /\ savePath' = s.savePath
    /\ moving' = s.moving
    /\ renames' = s.renames
    /\ triggers' = s.triggers
    /\ seedStatus' = s.seedStatus
    /\ location' = s.location
    /\ seed' = s.seed

IsJobOf(job, t) == job.torrent = t /\ job.handle = handle[t]

HasJob(q, t) == \E i \in DOMAIN q : IsJobOf(q[i], t)

\* Mutated form: the inactive job stays.
CancelledNot(q, t) == q

\* Without the first inactive job of t; the head is the active one.
Cancelled(q, t) ==
    LET inactive == {i \in 2..Len(q) : IsJobOf(q[i], t)}
    IN  IF inactive = {} THEN q
        ELSE RemoveAt(q, CHOOSE i \in inactive : \A j \in inactive : i <= j)

UpdateStatus(s, t) ==
    [s EXCEPT !.location[t] = place[t], !.seed[t] = (t \in complete)]

\* addMoveTorrentStorageJob refuses p
Meaningless(s, q, t, p) ==
    IF q # <<>> /\ IsJobOf(Head(q), t) THEN Head(q).path = p ELSE s.location[t] = p

\* Mutated form: the job is started whatever is before it.
StartedAtOnce(s, q, job) == s.moves \cup {job}

\* moveTorrentStorage is called for the only job of the queue.
StartedIfAlone(s, q, job) == IF q = <<>> THEN s.moves \cup {job} ELSE s.moves

\* TorrentImpl::moveStorage and Session::addMoveTorrentStorageJob
MoveStorage(s, t, p) ==
    LET q   == Cancelled(s.queue, t)
        job == [torrent |-> t, handle |-> handle[t], path |-> p]
    IN  IF Meaningless(s, q, t, p) THEN [s EXCEPT !.queue = q]
        ELSE UpdateStatus([s EXCEPT !.queue = Append(q, job),
                                    !.moves = StartedIfAlone(s, q, job),
                                    !.moving[t] = TRUE], t)

UseTempPath(s, t) == s.temp /\ ~s.seed[t] /\ ~s.seedStatus[t]

\* adjustActualSavePath_impl: to the temporary path or to the save path
AdjustNow(s, t) ==
    LET target  == IF UseTempPath(s, t) THEN Temp ELSE s.savePath[t]
        leaving == target # Temp /\ s.location[t] = Temp
        s1      == IF leaving THEN [s EXCEPT !.triggers[t] = Append(@, "removeTempFolder")]
                   ELSE s
    IN  IF target = s.location[t] THEN s ELSE MoveStorage(s1, t, target)

\* Mutated form: what cannot be done now is not done later.
AdjustNever(s, t) == IF s.moving[t] THEN s ELSE AdjustNow(s, t)

\* adjustActualSavePath
Adjust(s, t) ==
    IF s.moving[t] THEN [s EXCEPT !.triggers[t] = Append(@, "adjust")]
    ELSE AdjustNow(s, t)

\* One trigger. Only "adjust" changes what is modelled here: "finished" saves
\* resume data and tells the user, "recheck" makes libtorrent check.
Run(s, t, trigger) == IF trigger = "adjust" THEN AdjustNow(s, t) ELSE s

\* One round of the loop of the handlers of renames, which ends when a trigger
\* starts a move; handleMoveStorageJobFinished has the same loop without that test.
Turn(s, t, untilMoving) ==
    IF s.triggers[t] = <<>> \/ s.renames[t] > 0 \/ (untilMoving /\ s.moving[t]) THEN s
    ELSE Run([s EXCEPT !.triggers[t] = Tail(@)], t, Head(s.triggers[t]))

\* The loop. A trigger adds at most one to the end of the queue.
RunAll(s, t, untilMoving) ==
    LET N == 2 * Len(s.triggers[t])
        after[n \in 0..N] == IF n = 0 THEN s ELSE Turn(after[n - 1], t, untilMoving)
    IN  after[N]

\* move_impl
Move(s, t, p) ==
    IF p = s.savePath[t] THEN s
    ELSE IF UseTempPath(s, t) THEN [s EXCEPT !.savePath[t] = p]
    ELSE MoveStorage(s, t, p)

-----------------------------------------------------------------------------
Init ==
    /\ alive = {}
    /\ removing = [t \in Torrent |-> "no"]
    /\ queue = <<>>
    /\ temp \in IF TempToggles > 0 THEN BOOLEAN ELSE {FALSE}
    /\ savePath = [t \in Torrent |-> NoPath]
    /\ location = [t \in Torrent |-> NoPath]
    /\ place = [t \in Torrent |-> NoPath]
    /\ moving = [t \in Torrent |-> FALSE]
    /\ renames = [t \in Torrent |-> 0]
    /\ triggers = [t \in Torrent |-> <<>>]
    /\ seedStatus = [t \in Torrent |-> FALSE]
    /\ seed = [t \in Torrent |-> FALSE]
    /\ handle = [t \in Torrent |-> 0]
    /\ search = [t \in Torrent |-> {}]
    /\ inSession = {}
    /\ noMetadata = {}
    /\ complete = {}
    /\ moves = {}
    /\ deleting = {}
    /\ alerts = <<>>
    /\ stalled = FALSE
    /\ toggles = 0
    /\ failures = 0
    /\ checks = [t \in Torrent |-> 0]

-----------------------------------------------------------------------------
(* What the user does *)

\* createTorrent: libtorrent has it, at its save path or, when its files were
\* found there, at the temporary path. It is checked, unless it has no metadata.
AddTorrent(t, p, hasMetadata) ==
    /\ t \notin alive \cup inSession
    /\ handle[t] < MaxHandles
    /\ alive' = alive \cup {t}
    /\ inSession' = inSession \cup {t}
    /\ handle' = [handle EXCEPT ![t] = @ + 1]
    /\ savePath' = [savePath EXCEPT ![t] = p]
    /\ \E found \in IF temp /\ hasMetadata THEN {p, Temp} ELSE {p} :
          /\ place' = [place EXCEPT ![t] = found]
          /\ location' = [location EXCEPT ![t] = found]
    /\ noMetadata' = IF hasMetadata THEN noMetadata ELSE noMetadata \cup {t}
    /\ alerts' = IF hasMetadata THEN Append(alerts, About("checked", t)) ELSE alerts
    /\ UNCHANGED <<removing, queue, temp, moving, renames, triggers, seedStatus, seed, search,
                   complete, moves, deleting, stalled, bounds>>

\* TorrentImpl::move, setCategory, or a change of the category's own path
SetLocation(t, p) ==
    /\ t \in alive
    /\ Becomes(Move(Current, t, p))
    /\ UNCHANGED <<alive, removing, handle, search, inSession, noMetadata, place,
                   complete, deleting, alerts, stalled, bounds>>

\* handleTempPathChanged, for one torrent after another
AdjustAll(s, order) ==
    LET after[n \in 0..Len(order)] == IF n = 0 THEN s ELSE Adjust(after[n - 1], order[n])
    IN  after[Len(order)]

\* setTempPathEnabled
SetTempPathEnabled(enabled) ==
    /\ enabled # temp
    /\ toggles < TempToggles
    /\ toggles' = toggles + 1
    /\ \A t \in alive : Len(triggers[t]) < MaxTriggers
    /\ \E order \in SetToSeqs(alive) : Becomes(AdjustAll([Current EXCEPT !.temp = enabled], order))
    /\ UNCHANGED <<alive, removing, handle, search, inSession, noMetadata, place,
                   complete, deleting, alerts, stalled, checks, failures>>

RenameFile(t) ==
    /\ t \in alive \ noMetadata
    /\ renames[t] < MaxRenames
    /\ renames' = [renames EXCEPT ![t] = @ + 1]
    /\ UNCHANGED <<session, savePath, moving, triggers, seedStatus, location, seed, handle,
                   search, native, alerts, stalled, bounds>>

\* Mutated form: a torrent that is being moved is removed at once.
KeptForMovesNot(t) == FALSE

\* "We shouldn't actually remove torrent until existing move storage jobs are done"
KeptForMoves(t) == HasJob(queue, t)

\* The TorrentImpl of t is deleted.
Forget(t) ==
    /\ alive' = alive \ {t}
    /\ savePath' = [savePath EXCEPT ![t] = NoPath]
    /\ moving' = [moving EXCEPT ![t] = FALSE]
    /\ renames' = [renames EXCEPT ![t] = 0]
    /\ triggers' = [triggers EXCEPT ![t] = <<>>]
    /\ seedStatus' = [seedStatus EXCEPT ![t] = FALSE]
    /\ location' = [location EXCEPT ![t] = NoPath]
    /\ seed' = [seed EXCEPT ![t] = FALSE]

\* remove_torrent, given the alerts to handle before it is
RemoveNative(t, before) ==
    /\ inSession' = inSession \ {t}
    /\ noMetadata' = noMetadata \ {t}
    /\ place' = [place EXCEPT ![t] = NoPath]
    /\ complete' = complete \ {t}
    /\ alerts' = Append(before, About("removed", t))

\* deleteTorrent, which keeps the files
DeleteTorrent(t) ==
    /\ t \in alive
    /\ Forget(t)
    /\ removing' = [removing EXCEPT ![t] = "keepFiles"]
    /\ IF KeptForMoves(t) THEN UNCHANGED <<inSession, noMetadata, place, complete, alerts>>
       ELSE RemoveNative(t, alerts)
    /\ UNCHANGED <<queue, temp, handle, search, moves, deleting, stalled, bounds>>

\* deleteTorrent, which deletes them: an inactive move is forgotten, and an
\* active one is not.
DeleteTorrentAndFiles(t) ==
    /\ t \in alive
    /\ Forget(t)
    /\ removing' = [removing EXCEPT ![t] = "deleteFiles"]
    /\ queue' = Cancelled(queue, t)
    /\ RemoveNative(t, alerts)
    /\ deleting' = deleting \cup {t}
    /\ UNCHANGED <<temp, handle, search, moves, stalled, bounds>>

-----------------------------------------------------------------------------
(* The alerts of libtorrent *)

AlertIs(type) ==
    /\ alerts # <<>>
    /\ Head(alerts).type = type

IsCurrent(job) == job.torrent \in inSession /\ job.handle = handle[job.torrent]

\* Mutated form: the other jobs of the torrent are not looked for.
OutstandingNever(rest, job) == FALSE

Outstanding(rest, job) ==
    \E i \in DOMAIN rest : rest[i].torrent = job.torrent /\ rest[i].handle = job.handle

\* TorrentImpl::handleMoveStorageJobFinished, but for missing files
JobFinished(s, t, outstanding) ==
    LET s1 == UpdateStatus([s EXCEPT !.moving[t] = outstanding], t)
        s2 == IF UseTempPath(s1, t) THEN s1 ELSE [s1 EXCEPT !.savePath[t] = s1.location[t]]
    IN  IF outstanding THEN s2 ELSE RunAll(s2, t, FALSE)

\* Mutated form: the next job is not started.
StartedNone(rest) == {}

\* handleMoveTorrentStorageJobFinished starts the next job.
Started(rest) == IF rest = <<>> THEN {} ELSE {Head(rest)}

\* handleStorageMovedAlert or handleStorageMovedFailedAlert, and
\* handleMoveTorrentStorageJobFinished. Of a native torrent that is gone nothing
\* may be left. If it is the one of this job its torrent is not found, and
\* libtorrent throws when its path is asked for after a failure; if it is the one of
\* the next job libtorrent throws after this job has left the queue. handleAlert
\* catches the exception and goes on to the next alert.
MoveJobFinished(type) ==
    /\ AlertIs(type)
    /\ LET job         == Head(queue)
           rest        == Tail(queue)
           t           == job.torrent
           outstanding == Outstanding(rest, job)
           s           == [Current EXCEPT !.queue = rest, !.moves = @ \cup Started(rest)]
           removed     == t \notin alive /\ ~outstanding /\ removing[t] = "keepFiles"
       IN  \/ /\ Becomes(IF t \in alive THEN JobFinished(s, t, outstanding) ELSE s)
              /\ IF removed THEN RemoveNative(t, Tail(alerts))
                 ELSE alerts' = Tail(alerts) /\ UNCHANGED <<inSession, noMetadata, place, complete>>
              /\ UNCHANGED stalled
           \/ /\ ~IsCurrent(job)
              /\ Becomes(IF type = "moved" THEN s ELSE Current)
              /\ stalled' = (stalled \/ type = "moveFailed")
              /\ alerts' = Tail(alerts)
              /\ UNCHANGED <<inSession, noMetadata, place, complete>>
           \/ /\ \E next \in Started(rest) : ~IsCurrent(next)
              /\ Becomes([Current EXCEPT !.queue = rest])
              /\ alerts' = Tail(alerts)
              /\ stalled' = TRUE
              /\ UNCHANGED <<inSession, noMetadata, place, complete>>
    /\ UNCHANGED <<alive, removing, handle, search, deleting, bounds>>

HandleStorageMoved == MoveJobFinished("moved")

HandleStorageMovedFailed == MoveJobFinished("moveFailed")

\* handleFileRenamedAlert. Session::handleAlert hands no file_rename_failed_alert on:
\* a rename that failed is counted for good, as one that never ends.
HandleFileRenamed(t) ==
    /\ t \in alive
    /\ renames[t] > 0
    /\ Becomes(RunAll([Current EXCEPT !.renames[t] = @ - 1], t, TRUE))
    /\ UNCHANGED <<alive, removing, handle, search, inSession, noMetadata, place, complete,
                   deleting, alerts, stalled, bounds>>

\* manageIncompleteFiles renames some of the files.
Renamed(s, t) == {[s EXCEPT !.renames[t] = n] : n \in s.renames[t]..MaxRenames}

\* handleTorrentFinishedAlert. The torrent may be another one than that which
\* has finished, of the same id.
HandleTorrentFinished(recheckTorrentsOnCompletion) ==
    /\ AlertIs("finished")
    /\ alerts' = Tail(alerts)
    /\ LET t    == Head(alerts).torrent
           work == IF recheckTorrentsOnCompletion THEN <<"recheck", "finished">>
                   ELSE <<"finished">>
           s1   == Adjust([UpdateStatus(Current, t) EXCEPT !.seedStatus[t] = TRUE], t)
       IN  IF t \notin alive \/ seedStatus[t] THEN UNCHANGED current
           ELSE \E s \in Renamed(s1, t) :
                   Becomes(IF s.moving[t] \/ s.renames[t] > 0
                           THEN [s EXCEPT !.triggers[t] = @ \o work] ELSE s)
    /\ UNCHANGED <<alive, removing, handle, search, inSession, noMetadata, place, complete,
                   deleting, stalled, bounds>>

\* handleTorrentCheckedAlert, but for missing files
HandleTorrentChecked ==
    /\ AlertIs("checked")
    /\ alerts' = Tail(alerts)
    /\ LET t  == Head(alerts).torrent
           s1 == Adjust([UpdateStatus(Current, t) EXCEPT !.seedStatus[t] = t \in complete], t)
       IN  IF t \notin alive \ noMetadata THEN UNCHANGED current
           ELSE \E s \in Renamed(s1, t) : Becomes(s)
    /\ UNCHANGED <<alive, removing, handle, search, inSession, noMetadata, place, complete,
                   deleting, stalled, bounds>>

\* handleStateUpdate
HandleStateUpdate(t) ==
    /\ t \in alive
    /\ Becomes(UpdateStatus(Current, t))
    /\ UNCHANGED <<alive, removing, handle, search, inSession, noMetadata, place,
                   complete, deleting, alerts, stalled, bounds>>

\* handleTorrentRemovedAlert
HandleTorrentRemoved ==
    /\ AlertIs("removed")
    /\ alerts' = Tail(alerts)
    /\ LET t == Head(alerts).torrent
       IN  removing' = IF removing[t] = "keepFiles" THEN [removing EXCEPT ![t] = "no"]
                       ELSE removing
    /\ UNCHANGED <<alive, queue, temp, torrent, handle, search, native, stalled, bounds>>

\* handleTorrentDeletedAlert and handleTorrentDeleteFailedAlert
HandleTorrentDeleted ==
    /\ AlertIs("deleted")
    /\ alerts' = Tail(alerts)
    /\ removing' = [removing EXCEPT ![Head(alerts).torrent] = "no"]
    /\ UNCHANGED <<alive, queue, temp, torrent, handle, search, native, stalled, bounds>>

-----------------------------------------------------------------------------
(* Metadata: the torrent leaves libtorrent and enters it again. *)

\* handleMetadataReceivedAlert and the save_resume_data alert that it asks for:
\* the files are looked for under the paths of this moment.
LookForFiles(t) ==
    /\ t \in alive \cap noMetadata
    /\ search[t] = {}
    /\ handle[t] < MaxHandles
    /\ search' = [search EXCEPT ![t] = {savePath[t]} \cup IF temp THEN {Temp} ELSE {}]
    /\ UNCHANGED <<session, torrent, handle, native, alerts, stalled, bounds>>

\* fileSearchFinished, endReceivedMetadataHandling and reload
FileSearchFinished(t) ==
    /\ search[t] # {}
    /\ search' = [search EXCEPT ![t] = {}]
    /\ IF t \in alive
       THEN /\ handle[t] < MaxHandles
            /\ handle' = [handle EXCEPT ![t] = @ + 1]
            /\ noMetadata' = noMetadata \ {t}
            /\ \E found \in search[t] :
                  /\ place' = [place EXCEPT ![t] = found]
                  /\ location' = [location EXCEPT ![t] = found]
            /\ seed' = [seed EXCEPT ![t] = FALSE]
            /\ complete' = complete \ {t}
            /\ alerts' = alerts \o <<About("removed", t), About("checked", t)>>
       ELSE UNCHANGED <<handle, noMetadata, place, location, seed, complete, alerts>>
    /\ UNCHANGED <<session, savePath, moving, renames, triggers, seedStatus, inSession, moves,
                   deleting, stalled, bounds>>

-----------------------------------------------------------------------------
(* libtorrent (external): one disk thread per torrent, in order. *)

\* A move ends: that of a native torrent that is gone changes nothing of interest.
NativeMoveEnds(job, type) ==
    /\ job \in moves
    /\ moves' = moves \ {job}
    /\ \/ type = "moved" /\ UNCHANGED failures
       \/ type = "moveFailed" /\ failures < MaxFailures /\ failures' = failures + 1
    /\ place' = IF type = "moved" /\ IsCurrent(job) THEN [place EXCEPT ![job.torrent] = job.path]
                ELSE place
    /\ alerts' = Append(alerts, [type |-> type, job |-> job])
    /\ UNCHANGED <<session, torrent, handle, search, inSession, noMetadata, complete, deleting,
                   stalled, toggles, checks>>

\* A check ends, and finds all the data or not; or the last piece arrives.
NativeChecks(t) ==
    /\ t \in inSession \ noMetadata
    /\ checks[t] < MaxChecks
    /\ checks' = [checks EXCEPT ![t] = @ + 1]
    /\ \/ /\ t \in complete
          /\ complete' = complete \ {t}
          /\ alerts' = Append(alerts, About("checked", t))
       \/ /\ t \notin complete
          /\ complete' = complete \cup {t}
          /\ alerts' \in {alerts \o <<About("finished", t)>>,
                          alerts \o <<About("checked", t), About("finished", t)>>}
    /\ UNCHANGED <<session, torrent, handle, search, inSession, noMetadata, place, moves,
                   deleting, stalled, toggles, failures>>

\* The files of a removed torrent are deleted, after the moves of it.
NativeDeletes(t) ==
    /\ t \in deleting
    /\ \A job \in moves : job.torrent # t
    /\ deleting' = deleting \ {t}
    /\ alerts' = Append(alerts, About("deleted", t))
    /\ UNCHANGED <<session, torrent, handle, search, inSession, noMetadata, place, complete,
                   moves, stalled, bounds>>

-----------------------------------------------------------------------------
UserStep ==
    \E t \in Torrent :
        \/ \E p \in Place, hasMetadata \in {TRUE, t \notin Magnet} : AddTorrent(t, p, hasMetadata)
        \/ \E p \in Place : SetLocation(t, p)
        \/ RenameFile(t) \/ DeleteTorrent(t) \/ DeleteTorrentAndFiles(t)

TempPathStep == \E enabled \in BOOLEAN : SetTempPathEnabled(enabled)

AlertStep ==
    \/ HandleStorageMoved \/ HandleStorageMovedFailed
    \/ \E recheck \in BOOLEAN : HandleTorrentFinished(recheck)
    \/ HandleTorrentChecked \/ HandleTorrentRemoved \/ HandleTorrentDeleted

OtherAlertStep == \E t \in Torrent : HandleFileRenamed(t) \/ HandleStateUpdate(t)

MetadataStep == \E t \in Torrent : LookForFiles(t) \/ FileSearchFinished(t)

MoveEnds == \E job \in moves, type \in {"moved", "moveFailed"} : NativeMoveEnds(job, type)

NativeStep == \E t \in Torrent : NativeChecks(t) \/ NativeDeletes(t)

Next ==
    \/ UserStep \/ TempPathStep \/ AlertStep \/ OtherAlertStep \/ MetadataStep
    \/ MoveEnds \/ NativeStep

Spec == Init /\ [][Next]_vars

\* The event loop reads the alerts, and libtorrent ends the moves it has begun.
FairSpec == Spec /\ WF_vars(AlertStep) /\ WF_vars(MoveEnds)

-----------------------------------------------------------------------------
(* Properties *)

TypeOK ==
    /\ alive \subseteq Torrent
    /\ removing \in [Torrent -> {"no", "keepFiles", "deleteFiles"}]
    /\ queue \in Seq(Job)
    /\ temp \in BOOLEAN
    /\ savePath \in [Torrent -> Path \cup {NoPath}]
    /\ moving \in [Torrent -> BOOLEAN]
    /\ renames \in [Torrent -> Nat]
    /\ triggers \in [Torrent -> Seq(Trigger)]
    /\ seedStatus \in [Torrent -> BOOLEAN]
    /\ location \in [Torrent -> Path \cup {NoPath}]
    /\ seed \in [Torrent -> BOOLEAN]
    /\ handle \in [Torrent -> Nat]
    /\ search \in [Torrent -> SUBSET Path]
    /\ alive \subseteq inSession
    /\ inSession \subseteq Torrent
    /\ noMetadata \subseteq inSession
    /\ place \in [Torrent -> Path \cup {NoPath}]
    /\ complete \subseteq inSession \ noMetadata
    /\ moves \subseteq Job
    /\ deleting \subseteq Torrent
    /\ alerts \in Seq(Alert)
    /\ stalled \in BOOLEAN
    /\ toggles \in Nat
    /\ checks \in [Torrent -> Nat]
    /\ failures \in Nat

MoveAlerts == {i \in DOMAIN alerts : alerts[i].type \in {"moved", "moveFailed"}}

\* The assertions of handleStorageMovedAlert: an answer finds a queue that is
\* not empty, and its first job is the one that libtorrent was given, whatever
\* was queued, cancelled or deleted meanwhile. There is one answer at a time.
AnswersAreForTheHead ==
    /\ \A i \in MoveAlerts : queue # <<>> /\ alerts[i].job = Head(queue)
    /\ moves \subseteq {Head(queue) : x \in {1} \cap DOMAIN queue}
    /\ \A i, j \in MoveAlerts : i = j
    /\ ~(MoveAlerts # {} /\ moves # {})

\* A queue that is not empty is being worked at, unless an exception came of a
\* native torrent that is gone: that of a torrent which has entered libtorrent
\* again, or which was removed with its files before its move failed.
QueueIsServed ==
    /\ queue # <<>> => moves # {} \/ MoveAlerts # {} \/ stalled
    /\ stalled => failures > 0 \/ \E t \in Torrent : handle[t] > 1

\* "Enqueued to move" is the message of addMoveTorrentStorageJob: what is queued is
\* being worked at, always.
QueueIsAlwaysServed == queue # <<>> => moves # {} \/ MoveAlerts # {}

\* No torrent waits for more than one move (addMoveTorrentStorageJob replaces
\* the inactive job by the new one).
OneWaitingMove ==
    \A i, j \in 2..Len(queue) :
        queue[i].torrent = queue[j].torrent /\ queue[i].handle = queue[j].handle => i = j

(* The queue as a whole, well typed: one native move, that of its head, one answer,
   nobody waits twice, and it goes on. *)
QueueHolds == TypeOK /\ AnswersAreForTheHead /\ QueueIsServed /\ OneWaitingMove

\* A removed torrent that has entered libtorrent once stays there while it has a
\* move to come (the first branch of deleteTorrent).
KeptUntilMoved ==
    \A t \in Torrent \ alive :
        removing[t] = "keepFiles" /\ handle[t] = 1 /\ HasJob(queue, t) => t \in inSession

\* A torrent that has entered libtorrent once is shown as being moved as long as
\* it has a move to come.
MovesAreShown ==
    \A t \in alive : handle[t] = 1 /\ HasJob(queue, t) => moving[t]

Idle(t) ==
    /\ t \in alive
    /\ ~HasJob(queue, t)
    /\ ~moving[t]
    /\ triggers[t] = <<>>
    /\ alerts = <<>>

\* When nothing is under way a torrent that has entered libtorrent once is where it
\* belongs, if no move has failed.
IdleIsSettled ==
    \A t \in alive \ noMetadata :
        Idle(t) /\ handle[t] = 1 /\ failures = 0 =>
            place[t] = IF UseTempPath(Current, t) THEN Temp ELSE savePath[t]

\* A removed torrent does not stay in libtorrent for ever, however many moves are
\* before it in the queue.
RemovedTorrentsLeave ==
    \A t \in Torrent :
        removing[t] = "keepFiles" ~> (removing[t] # "keepFiles" \/ stalled)

=============================================================================
