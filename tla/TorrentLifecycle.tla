--------------------------- MODULE TorrentLifecycle ---------------------------
(***************************************************************************)
(* How a torrent enters the session, is kept on disk and leaves it:         *)
(* Session::addTorrent, loadTorrent, createTorrent, deleteTorrent, the      *)
(* metadata of magnet links, the resume data and its thread, the start and  *)
(* the exit of the application.                                             *)
(*                                                                          *)
(* Three actors work at once. The main thread runs the user's operations,   *)
(* the alerts of libtorrent and the results of file searches. libtorrent    *)
(* answers with alerts, in order. The I/O thread does what was posted to it *)
(* in order: it writes and removes <id>.fastresume, removes <id>.torrent    *)
(* and searches for files. <id>.torrent is written by the main thread.      *)
(*                                                                          *)
(* An alert holds a weak handle. Once its native torrent is removed, the    *)
(* alert is "old": its id reads as zero, unless something in libtorrent     *)
(* still holds the torrent, and then it is taken for one of the torrent     *)
(* that has this id now. Storage moves are in MoveStorage.                  *)
(***************************************************************************)
EXTENDS Naturals, FiniteSets, Sequences, SequencesExt, FiniteSetsExt

CONSTANTS
    Torrent,       \* torrents, by id
    SkipChecking,  \* those that may be added with "skip hash check"
    MaxAlerts, MaxJobs, MaxRequests  \* bounds of what is under way

ASSUME TorrentAssumption == IsFiniteSet(Torrent)
ASSUME SkipCheckingAssumption == SkipChecking \subseteq Torrent
ASSUME BoundsAssumption == {MaxAlerts, MaxJobs, MaxRequests} \subseteq Nat

VARIABLES
    phase,          \* of the application
    \* Session
    torrents,       \* m_torrents
    loading,        \* m_loadingTorrents
    params,         \* its LoadTorrentParams
    preview,        \* m_downloadedMetadata
    numResumeData,  \* m_numResumeData
    \* TorrentImpl
    hasMetadata,    \* torrents with a valid m_torrentInfo
    maintenance,    \* torrents whose m_maintenanceJob is HandleMetadata
    \* the I/O thread, and what it has posted back
    jobs, results,
    \* disk
    resume,         \* <id>.fastresume: absent, or whether its settings are the last ones
    resumeMeta,     \* those written for a torrent with metadata
    torrentFile,    \* ids with a <id>.torrent
    \* libtorrent (external)
    inSession, nativeMeta, unchecked, alerts,
    \* history
    failed,         \* torrents that libtorrent refused
    mixed,          \* torrents that took the result of an earlier torrent's search
    reloaded        \* torrents that were added to libtorrent a second time

session == <<torrents, loading, params, preview, numResumeData, hasMetadata, maintenance>>
disk    == <<resume, resumeMeta, torrentFile>>
native  == <<inSession, nativeMeta, unchecked>>
history == <<failed, mixed, reloaded>>
vars    == <<phase, session, jobs, results, disk, native, alerts, history>>

Params == [meta : BOOLEAN, restored : BOOLEAN]
Data   == {"none", "stale", "current"}

\* What is posted to the I/O thread. To write "none" is to remove the file.
ResumeJob(t, data, meta) == [op |-> "resume", torrent |-> t, data |-> data, meta |-> meta]
RemoveTorrentFile(t)     == [op |-> "removeTorrentFile", torrent |-> t]
Search(t)                == [op |-> "search", torrent |-> t, old |-> FALSE]

Job ==
    [op : {"resume"}, torrent : Torrent, data : Data, meta : BOOLEAN]
        \cup [op : {"removeTorrentFile"}, torrent : Torrent]
        \cup [op : {"search"}, torrent : Torrent, old : BOOLEAN]

Alert ==
    [type : {"added", "refused", "resume", "metadata", "checked"},
     torrent : Torrent, old : BOOLEAN, current : BOOLEAN]

\* The value of a function, or of a sequence, is f(x) where x is about t.
Marked(q, t, f(_)) == [i \in DOMAIN q |-> IF q[i].torrent = t THEN f(q[i]) ELSE q[i]]

OldAlert(a)      == [a EXCEPT !.old = TRUE]
OutdatedAlert(a) == [a EXCEPT !.current = FALSE]
OldJob(j)        == IF j.op = "search" THEN [j EXCEPT !.old = TRUE] ELSE j
OutdatedJob(j)   ==
    IF j.op = "resume" /\ j.data = "current" THEN [j EXCEPT !.data = "stale"] ELSE j

\* What was saved of t until now is not its last state any more.
Outdated(t) ==
    /\ jobs' = Marked(jobs, t, OutdatedJob)
    /\ resume' = [resume EXCEPT ![t] = IF @ = "none" THEN @ ELSE "stale"]

About(type, t) == [type |-> type, torrent |-> t, old |-> FALSE, current |-> TRUE]

\* Bounds what the user and the peers may add to what is under way.
Room ==
    /\ Len(alerts) < MaxAlerts
    /\ Len(jobs) + Len(results) < MaxJobs
    /\ numResumeData < MaxRequests

-----------------------------------------------------------------------------
Init ==
    /\ phase = "running"
    /\ torrents = {} /\ loading = {} /\ preview = {}
    /\ params = [t \in Torrent |-> [meta |-> FALSE, restored |-> FALSE]]
    /\ numResumeData = 0
    /\ hasMetadata = {} /\ maintenance = {}
    /\ jobs = <<>> /\ results = <<>>
    /\ resume = [t \in Torrent |-> "none"]
    /\ resumeMeta = {} /\ torrentFile = {}
    /\ inSession = {} /\ nativeMeta = {} /\ unchecked = {}
    /\ alerts = <<>>
    /\ failed = {} /\ mixed = {} /\ reloaded = {}

(* libtorrent *)

\* add_torrent: a torrent that it has already stays as it is
NativeAdd(t, meta, before) ==
    /\ inSession' = before \cup {t}
    /\ nativeMeta' = (nativeMeta \cap before) \cup (IF meta THEN {t} ELSE {})
    /\ unchecked' = (unchecked \cap before) \cup (IF meta THEN {t} \ before ELSE {})

\* async_add_torrent, which is answered by an alert
NativeAddLater(t, meta, before, q) ==
    \/ /\ NativeAdd(t, meta, before)
       /\ alerts' = Append(q, About("added", t))
       /\ UNCHANGED failed
    \/ /\ t \notin before
       /\ inSession' = before
       /\ nativeMeta' = nativeMeta \cap before
       /\ unchecked' = unchecked \cap before
       /\ alerts' = Append(q, About("refused", t))
       /\ failed' = failed \cup {t}

NativeRemoved(t) ==
    /\ inSession' = inSession \ {t}
    /\ nativeMeta' = nativeMeta \ {t}
    /\ unchecked' = unchecked \ {t}

\* A magnet link has got its metadata, and libtorrent checks its files.
NativeMetadata(t) ==
    /\ Room
    /\ t \in inSession \ nativeMeta
    /\ nativeMeta' = nativeMeta \cup {t}
    /\ unchecked' = unchecked \cup {t}
    /\ alerts' = Append(alerts, About("metadata", t))
    /\ UNCHANGED <<phase, session, jobs, results, disk, inSession, history>>

NativeChecks(t) ==
    /\ t \in unchecked
    /\ unchecked' = unchecked \ {t}
    /\ alerts' = Append(alerts, About("checked", t))
    /\ UNCHANGED <<phase, session, jobs, results, disk, inSession, nativeMeta, history>>

-----------------------------------------------------------------------------
(* The user *)

\* addTorrent_impl of a new torrent: a .torrent file, whose files are searched for
\* unless checking is skipped, or a magnet link. A torrent that is loading is left
\* alone; the trackers of one that is there are merged, which is EditTorrent.
AddTorrent(t, meta, skip) ==
    LET before == inSession \ (preview \cap {t})
        q      == IF t \in preview THEN Marked(alerts, t, OldAlert) ELSE alerts
    IN  /\ phase = "running" /\ Room
        /\ t \notin torrents \cup loading
        /\ skip => meta /\ t \in SkipChecking
        /\ preview' = preview \ {t}
        /\ loading' = loading \cup {t}
        /\ params' = [params EXCEPT ![t] = [meta |-> meta, restored |-> FALSE]]
        /\ IF meta /\ ~skip
           THEN /\ jobs' = Append(jobs, Search(t))
                /\ inSession' = before
                /\ nativeMeta' = nativeMeta \cap before
                /\ unchecked' = unchecked \cap before
                /\ alerts' = q
                /\ failed' = failed \ {t}
           ELSE NativeAddLater(t, meta, before, q) /\ UNCHANGED jobs
        /\ reloaded' = reloaded \ {t}
        /\ UNCHANGED <<phase, torrents, numResumeData, hasMetadata, maintenance, results,
                       disk, mixed>>

\* downloadMetadata: a torrent that the user does not see
DownloadMetadata(t) ==
    /\ phase = "running" /\ Room
    /\ t \notin torrents \cup loading \cup preview
    /\ NativeAdd(t, FALSE, inSession)
    /\ preview' = preview \cup {t}
    /\ UNCHANGED <<phase, torrents, loading, params, numResumeData, hasMetadata, maintenance,
                   jobs, results, disk, alerts, history>>

CancelDownloadMetadata(t) ==
    /\ phase = "running"
    /\ t \in preview
    /\ preview' = preview \ {t}
    /\ NativeRemoved(t)
    /\ alerts' = Marked(alerts, t, OldAlert)
    /\ UNCHANGED <<phase, torrents, loading, params, numResumeData, hasMetadata, maintenance,
                   jobs, results, disk, history>>

\* Mutated forms: the resume data is forgotten; it is removed last.
RemovalInPart(t) == <<RemoveTorrentFile(t)>>
RemovalSwapped(t) == <<RemoveTorrentFile(t), ResumeJob(t, "none", FALSE)>>

\* "Remove it from torrent resume directory"
Removal(t) == <<ResumeJob(t, "none", FALSE), RemoveTorrentFile(t)>>

DeleteTorrent(t) ==
    /\ phase = "running" /\ Room
    /\ t \in torrents
    /\ torrents' = torrents \ {t}
    /\ hasMetadata' = hasMetadata \ {t}
    /\ maintenance' = maintenance \ {t}
    /\ NativeRemoved(t)
    /\ alerts' = Marked(alerts, t, OldAlert)
    /\ jobs' = Marked(jobs, t, OldJob) \o Removal(t)
    /\ results' = Marked(results, t, OldJob)
    /\ UNCHANGED <<phase, loading, params, preview, numResumeData, disk, history>>

\* Mutated form: the requests are not counted.
RequestedNot(order, q) ==
    /\ alerts' = q \o [i \in DOMAIN order |-> About("resume", order[i])]
    /\ UNCHANGED numResumeData

\* TorrentImpl::saveResumeData, for each torrent of a sequence, given the alerts
\* that come before
Requested(order, q) ==
    /\ numResumeData' = numResumeData + Len(order)
    /\ alerts' = q \o [i \in DOMAIN order |-> About("resume", order[i])]

\* Mutated form: nobody asks for the resume data.
EditedQuietly(t) == alerts' = Marked(alerts, t, OutdatedAlert) /\ UNCHANGED numResumeData

\* The changes of the settings of a torrent all end in saveResumeData.
Edited(t) == Requested(<<t>>, Marked(alerts, t, OutdatedAlert))

EditTorrent(t) ==
    /\ phase = "running" /\ Room
    /\ t \in torrents
    /\ Edited(t)
    /\ Outdated(t)
    /\ UNCHANGED <<phase, torrents, loading, params, preview, hasMetadata, maintenance, results,
                   resumeMeta, torrentFile, native, history>>

\* generateResumeData: the torrents of which libtorrent has something to save
GenerateResumeData ==
    \E needed \in SUBSET torrents : \E order \in SetToSeqs(needed) : Requested(order, alerts)

\* m_resumeDataTimer
SaveByTimer ==
    /\ phase = "running" /\ Room
    /\ GenerateResumeData
    /\ UNCHANGED <<phase, torrents, loading, params, preview, hasMetadata, maintenance, jobs,
                   results, disk, native, history>>

-----------------------------------------------------------------------------
(* Alerts *)

\* The first alert is of this type. It finds a torrent by the id of its handle.
Handles(type, found) ==
    /\ phase = "running"
    /\ alerts # <<>>
    /\ Head(alerts).type = type
    /\ ~found => Head(alerts).old

\* createTorrent
CreateTorrent(t) ==
    /\ torrents' = torrents \cup {t}
    /\ loading' = loading \ {t}
    /\ hasMetadata' = IF params[t].meta THEN hasMetadata \cup {t} ELSE hasMetadata
    /\ IF params[t].restored
       THEN /\ alerts' = Tail(alerts)
            /\ UNCHANGED <<numResumeData, jobs, resume, torrentFile>>
       ELSE /\ torrentFile' = IF params[t].meta THEN torrentFile \cup {t} ELSE torrentFile
            /\ Requested(<<t>>, Tail(alerts))
            /\ Outdated(t)
    /\ UNCHANGED <<params, preview, maintenance, resumeMeta>>

\* handleAddTorrentAlert
HandleAddTorrent ==
    /\ Handles("added", TRUE)
    /\ LET t == Head(alerts).torrent
       IN  IF ~Head(alerts).old /\ t \in loading THEN CreateTorrent(t)
           ELSE alerts' = Tail(alerts) /\ UNCHANGED <<session, jobs, disk>>
    /\ UNCHANGED <<phase, results, native, history>>

\* ... with an error: the torrent stays in m_loadingTorrents.
HandleAddTorrentError ==
    /\ Handles("refused", TRUE)
    /\ alerts' = Tail(alerts)
    /\ UNCHANGED <<phase, session, jobs, results, disk, native, history>>

\* Mutated form: the search is left to nobody.
SearchedNot(t) == <<>>

\* findIncompleteFiles, for the metadata that libtorrent has of t
Searched(t) ==
    IF t \in maintenance \cap nativeMeta THEN <<Search(t)>> ELSE <<>>

\* handleSaveResumeDataAlert and handleTorrentResumeDataReady
SaveResumeData(a) ==
    LET t    == a.torrent
        data == IF a.current /\ ~a.old THEN "current" ELSE "stale"
    IN  /\ numResumeData' = numResumeData - 1
        /\ jobs' = jobs \o Searched(t) \o <<ResumeJob(t, data, t \in hasMetadata)>>

DispatchResumeData(found) ==
    /\ IF found /\ Head(alerts).torrent \in torrents THEN SaveResumeData(Head(alerts))
       ELSE UNCHANGED <<numResumeData, jobs>>
    /\ alerts' = Tail(alerts)
    /\ UNCHANGED <<torrents, loading, params, preview, hasMetadata, maintenance, results, disk,
                   native, history>>

HandleSaveResumeData(found) ==
    /\ Handles("resume", found)
    /\ DispatchResumeData(found)
    /\ UNCHANGED phase

\* TorrentImpl::handleMetadataReceivedAlert, or that of the session, which takes
\* the native torrent of the alert away
HandleMetadataReceived(found) ==
    /\ Handles("metadata", found)
    /\ LET t == Head(alerts).torrent
       IN  \/ /\ found /\ t \in torrents
              /\ maintenance' = maintenance \cup {t}
              /\ Requested(<<t>>, Tail(alerts))
              /\ UNCHANGED <<preview, native>>
           \/ /\ found /\ t \in preview
              /\ preview' = preview \ {t}
              /\ IF Head(alerts).old THEN alerts' = Tail(alerts) /\ UNCHANGED native
                 ELSE alerts' = Marked(Tail(alerts), t, OldAlert) /\ NativeRemoved(t)
              /\ UNCHANGED <<maintenance, numResumeData>>
           \/ /\ ~found \/ t \notin torrents \cup preview
              /\ alerts' = Tail(alerts)
              /\ UNCHANGED <<preview, maintenance, numResumeData, native>>
    /\ UNCHANGED <<phase, torrents, loading, params, hasMetadata, jobs, results, disk, history>>

\* handleTorrentCheckedAlert; what it moves is in MoveStorage.
HandleTorrentChecked(found) ==
    /\ Handles("checked", found)
    /\ IF found /\ Head(alerts).torrent \in torrents \cap hasMetadata
       THEN Requested(<<Head(alerts).torrent>>, Tail(alerts))
       ELSE alerts' = Tail(alerts) /\ UNCHANGED numResumeData
    /\ UNCHANGED <<phase, torrents, loading, params, preview, hasMetadata, maintenance, jobs,
                   results, disk, native, history>>

-----------------------------------------------------------------------------
(* Results of file searches *)

\* endReceivedMetadataHandling: reload takes the native torrent away and adds it
\* again, and handleTorrentMetadataReceived backs the metadata up.
EndReceivedMetadataHandling(t) ==
    LET known == {t} \cap nativeMeta
    IN  /\ alerts' = Marked(alerts, t, OldAlert)
        /\ unchecked' = unchecked \cup known
        /\ hasMetadata' = (hasMetadata \ {t}) \cup known
        /\ maintenance' = maintenance \ {t}
        /\ torrentFile' = torrentFile \cup known
        /\ reloaded' = reloaded \cup {t}
        /\ UNCHANGED <<loading, inSession, nativeMeta, failed>>

\* loadTorrent of what waited for the search
Loaded(t) == NativeAddLater(t, params[t].meta, inSession, alerts)

FileSearchFinished ==
    /\ phase = "running"
    /\ results # <<>>
    /\ results' = Tail(results)
    /\ LET t == Head(results).torrent
       IN  /\ mixed' = IF Head(results).old THEN mixed \cup ({t} \cap (torrents \cup loading))
                       ELSE mixed
           /\ \/ /\ t \in torrents
                 /\ EndReceivedMetadataHandling(t)
              \/ /\ t \in loading \ torrents
                 /\ Loaded(t)
                 /\ UNCHANGED <<loading, hasMetadata, maintenance, torrentFile, reloaded>>
              \/ /\ t \notin torrents \cup loading
                 /\ UNCHANGED <<loading, hasMetadata, maintenance, torrentFile, native, alerts,
                                failed, reloaded>>
    /\ UNCHANGED <<phase, torrents, params, preview, numResumeData, jobs, resume, resumeMeta>>

-----------------------------------------------------------------------------
(* The I/O thread *)

RunJob ==
    /\ phase # "down"
    /\ jobs # <<>>
    /\ LET job == Head(jobs)
           t   == job.torrent
       IN  \/ /\ job.op = "resume"
              /\ resume' = [resume EXCEPT ![t] = job.data]
              /\ resumeMeta' = IF job.meta THEN resumeMeta \cup {t} ELSE resumeMeta \ {t}
              /\ UNCHANGED <<torrentFile, results>>
           \/ /\ job.op = "removeTorrentFile"
              /\ torrentFile' = torrentFile \ {t}
              /\ UNCHANGED <<resume, resumeMeta, results>>
           \/ /\ job.op = "search"
              /\ results' = Append(results, job)
              /\ UNCHANGED disk
    /\ jobs' = Tail(jobs)
    /\ UNCHANGED <<phase, session, native, alerts, history>>

-----------------------------------------------------------------------------
(* Exit, crash and start *)

\* saveResumeData of the session, called on exit
BeginExit ==
    /\ phase = "running" /\ Room
    /\ phase' = "exiting"
    /\ GenerateResumeData
    /\ UNCHANGED <<torrents, loading, params, preview, hasMetadata, maintenance, jobs, results,
                   disk, native, history>>

\* Its loop handles the answers and drops the other alerts.
ExitHandles(found) ==
    /\ phase = "exiting"
    /\ numResumeData > 0
    /\ alerts # <<>>
    /\ ~found => Head(alerts).old
    /\ \/ Head(alerts).type = "resume" /\ DispatchResumeData(found)
       \/ /\ Head(alerts).type # "resume"
          /\ alerts' = Tail(alerts)
          /\ UNCHANGED <<session, jobs, results, disk, native, history>>
    /\ UNCHANGED phase

\* Mutated form: nobody waits.
AnsweredAtOnce == TRUE

\* All the answers have come, or none comes for 30 seconds.
Answered == numResumeData = 0 \/ alerts = <<>>

EndExit ==
    /\ phase = "exiting"
    /\ Answered
    /\ phase' = "stopping"
    /\ alerts' = <<>>
    /\ results' = <<>>
    /\ UNCHANGED <<session, jobs, disk, native, history>>

\* Nothing is left but what is on disk.
Down ==
    /\ phase' = "down"
    /\ torrents' = {} /\ loading' = {} /\ preview' = {}
    /\ numResumeData' = 0
    /\ hasMetadata' = {} /\ maintenance' = {}
    /\ jobs' = <<>> /\ results' = <<>>
    /\ inSession' = {} /\ nativeMeta' = {} /\ unchecked' = {}
    /\ alerts' = <<>>
    /\ failed' = {} /\ reloaded' = {}
    /\ UNCHANGED <<params, disk, mixed>>

\* The I/O thread ends with nothing left to do: its last jobs are posted before
\* the native session is deleted, and it is told to quit after that.
Stop == phase = "stopping" /\ jobs = <<>> /\ Down

Crash == phase # "down" /\ Down

\* startUpTorrents
StartUpTorrents ==
    LET saved == {t \in Torrent : resume[t] # "none"}
    IN  /\ phase = "down"
        /\ phase' = "running"
        /\ loading' = saved
        /\ params' = [t \in Torrent |-> [meta |-> t \in torrentFile, restored |-> TRUE]]
        /\ \E refused \in SUBSET saved, order \in SetToSeqs(saved) :
              /\ alerts' = [i \in DOMAIN order |->
                              About(IF order[i] \in refused THEN "refused" ELSE "added", order[i])]
              /\ inSession' = saved \ refused
              /\ nativeMeta' = (saved \ refused) \cap torrentFile
              /\ unchecked' = (saved \ refused) \cap torrentFile
              /\ failed' = refused
        /\ resume' = [t \in Torrent |-> IF t \in saved THEN "current" ELSE "none"]
        /\ UNCHANGED <<torrents, preview, numResumeData, hasMetadata, maintenance, jobs, results,
                       resumeMeta, torrentFile, mixed, reloaded>>

-----------------------------------------------------------------------------
UserStep ==
    \/ SaveByTimer
    \/ \E t \in Torrent :
          \/ DownloadMetadata(t)
          \/ CancelDownloadMetadata(t)
          \/ DeleteTorrent(t)
          \/ EditTorrent(t)
          \/ \E meta, skip \in BOOLEAN : AddTorrent(t, meta, skip)

AlertStep ==
    \/ HandleAddTorrent
    \/ HandleAddTorrentError
    \/ \E found \in BOOLEAN :
          \/ HandleSaveResumeData(found)
          \/ HandleMetadataReceived(found)
          \/ HandleTorrentChecked(found)

NativeStep == \E t \in Torrent : NativeMetadata(t) \/ NativeChecks(t)

ExitStep == EndExit \/ Stop \/ \E found \in BOOLEAN : ExitHandles(found)

Next ==
    \/ UserStep \/ AlertStep \/ FileSearchFinished \/ RunJob \/ NativeStep
    \/ BeginExit \/ ExitStep \/ Crash \/ StartUpTorrents

Spec == Init /\ [][Next]_vars

\* The event loop, the I/O thread and the destructor of the session go on.
FairSpec ==
    /\ Spec
    /\ WF_vars(AlertStep)
    /\ WF_vars(FileSearchFinished)
    /\ WF_vars(RunJob)
    /\ WF_vars(ExitStep)

-----------------------------------------------------------------------------
\* The types, and what is always together: a torrent that is not running does
\* not count, and what is known of a torrent is known of one that is there.
TypeOK ==
    /\ phase \in {"running", "exiting", "stopping", "down"}
    /\ torrents \subseteq Torrent /\ loading \subseteq Torrent \ torrents
    /\ params \in [Torrent -> Params]
    /\ preview \subseteq Torrent \ (torrents \cup loading)
    /\ numResumeData \in Nat
    /\ hasMetadata \subseteq torrents /\ maintenance \subseteq torrents
    /\ jobs \in Seq(Job)
    /\ results \in Seq([op : {"search"}, torrent : Torrent, old : BOOLEAN])
    /\ resume \in [Torrent -> Data]
    /\ resumeMeta \subseteq {t \in Torrent : resume[t] # "none"}
    /\ torrentFile \subseteq Torrent
    /\ torrents \subseteq inSession /\ inSession \subseteq Torrent
    /\ nativeMeta \subseteq inSession /\ unchecked \subseteq nativeMeta
    /\ alerts \in Seq(Alert)
    /\ failed \subseteq Torrent /\ mixed \subseteq Torrent /\ reloaded \subseteq Torrent

\* What <id>.fastresume will be when the I/O thread has done its jobs.
Final(t) ==
    LET writes == {i \in DOMAIN jobs : jobs[i].op = "resume" /\ jobs[i].torrent = t}
    IN  IF writes = {} THEN resume[t] ELSE jobs[Max(writes)].data

Awaits(type, t) ==
    \E i \in DOMAIN alerts :
        alerts[i].type = type /\ alerts[i].torrent = t /\ alerts[i].current /\ ~alerts[i].old

\* A change of a torrent, its addition included, is never forgotten: it is on disk,
\* on its way to the I/O thread, or an answer that will bring it there is to come.
\* After reload(), which loses the answers to come, the check of the files asks
\* again. (Not for a torrent that took the search result of another.)
ChangesWillBeSaved ==
    phase = "running" =>
        \A t \in torrents \ mixed :
            \/ Final(t) = "current"
            \/ Awaits("resume", t)
            \/ t \in reloaded \cap hasMetadata /\ (t \in unchecked \/ Awaits("checked", t))

\* Resume data that is late does not bring a deleted torrent back at the next start.
DeletedStayDeleted ==
    phase # "down" => \A t \in Torrent \ (torrents \cup loading) : Final(t) = "none"

\* Whenever the application stops, a torrent that was saved with its metadata finds
\* the metadata again. (Not if it took the search result of another.)
BackedUp == resumeMeta \ mixed \subseteq torrentFile

\* When the exit does not wait any more everything is saved or posted, the number
\* of outstanding answers being right or not, for torrents that were not reloaded.
ExitSaves ==
    phase = "stopping" =>
        \A t \in torrents \ (mixed \cup reloaded) : Final(t) = "current"

\* A torrent does not stay in the maintenance that the arrival of its metadata
\* starts, in which it can neither be paused nor resumed.
MetadataIsHandled ==
    \A t \in Torrent : t \in maintenance ~> t \notin maintenance

\* A torrent that is being added is added, unless libtorrent refuses it.
AddedTorrentsLoad ==
    \A t \in Torrent : t \in loading ~> t \notin loading \/ t \in failed

(* Nobody waits for good for the result of a search or an answer of libtorrent:
   maintenance ends, and a torrent that is being added is added or refused. *)
WaitingEnds == MetadataIsHandled /\ AddedTorrentsLoad

=============================================================================
