--------------------------- MODULE TorrentControl ---------------------------
(***************************************************************************)
(* Whether a torrent runs: pause, resume, forced start, check, the           *)
(* maintenance that follows the arrival of metadata and the flags that are   *)
(* kept in the resume data. TorrentImpl says what is wanted and libtorrent    *)
(* does it: it takes the calls of the main thread in order, in a thread of    *)
(* its own, and answers with alerts. The extensions of the application run   *)
(* inside libtorrent.                                                       *)
(*                                                                         *)
(* A torrent that has to be checked while it is stopped, or that must not    *)
(* download yet, is run with stop_when_ready: libtorrent stops it when the   *)
(* check has ended.                                                        *)
(***************************************************************************)
EXTENDS Naturals, Sequences

CONSTANTS
    MaxActs,   \* bound: acts of the user, timers, errors of files and restarts
    MaxWait    \* bound: calls and alerts that wait when another act or alert comes

ASSUME TorrentControlAssumption == {MaxActs, MaxWait} \subseteq Nat

VARIABLES
    \* TorrentImpl
    isStopped,     \* m_isStopped
    mode,          \* m_operatingMode
    maintenance,   \* m_maintenanceJob is HandleMetadata
    hasMetadata,   \* m_torrentInfo is valid
    missingFiles,  \* m_hasMissingFiles
    searches,      \* searches for incomplete files under way
    \* resume data
    saved,         \* flags of m_ltAddTorrentParams and of the file
    \* libtorrent (external)
    native,        \* the torrent
    calls,         \* what it was told to do
    alerts,        \* what it tells
    \* history
    misled,        \* the data was saved with stop_when_ready for a torrent that runs
    unsaved,       \* changed without a request for its data, or the data were lost
    early,         \* told to run, or not to stop, when its metadata was there and not handled
    rechecking,    \* checked for the user while it is stopped
    held,          \* runs, and libtorrent was left to stop it
    acts           \* counts them

torrent == <<isStopped, mode, maintenance, hasMetadata, missingFiles, searches>>
history == <<misled, unsaved, early, rechecking, held, acts>>
vars == <<torrent, saved, native, calls, alerts, history>>

\* known: the metadata are part of the resume data
Flags == [paused: BOOLEAN, auto: BOOLEAN, stop: BOOLEAN, known: BOOLEAN]

Native == [state: {"metadata", "checking", "downloading", "seeding"},
           paused: BOOLEAN, auto: BOOLEAN, stop: BOOLEAN, error: BOOLEAN]

Call == {"auto", "manual", "pause", "resume", "clearError", "recheck",
         "stopWhenReady", "runWhenReady", "save"}

Alert == [type: {"metadata", "checked", "finished", "rejected"}]
            \cup [type: {"resumeData"}, flags: Flags]

-----------------------------------------------------------------------------
(* libtorrent and its extensions *)

\* pause, and on_pause of the extension
Paused(n) ==
    IF n.paused THEN n ELSE [n EXCEPT !.paused = TRUE, !.stop = n.stop /\ n.auto]

Ready(n) == n.state # "checking"

\* stop_when_ready
StoppedIfReady(n) ==
    IF n.stop /\ Ready(n) THEN [Paused([n EXCEPT !.auto = FALSE]) EXCEPT !.stop = FALSE] ELSE n

Checks(n) == n.state = "checking" /\ ~n.paused /\ ~n.error

FlagsOf(n) ==
    [paused |-> n.paused, auto |-> n.auto, stop |-> n.stop, known |-> n.state # "metadata"]

\* What a call makes of the torrent
Called(n, call) ==
    CASE call = "auto"          -> [n EXCEPT !.auto = TRUE]
      [] call = "manual"        -> [n EXCEPT !.auto = FALSE]
      [] call = "pause"         -> Paused(n)
      [] call = "resume"        -> [n EXCEPT !.paused = FALSE]
      [] call = "clearError"    -> [n EXCEPT !.error = FALSE]
      [] call = "recheck"       -> IF n.state = "metadata" \/ Checks(n) THEN n
                                   ELSE [n EXCEPT !.state = "checking", !.error = FALSE]
      [] call = "stopWhenReady" -> StoppedIfReady([n EXCEPT !.auto = TRUE, !.stop = TRUE])
      [] call = "runWhenReady"  -> [n EXCEPT !.stop = FALSE]
      [] call = "save"          -> n

ResumeData(n) == [type |-> "resumeData", flags |-> FlagsOf(n)]

\* The metadata is there, and the torrent was not yet added again with it.
Unaware == native.state # "metadata" /\ ~hasMetadata

Pending(type) == \E i \in DOMAIN alerts : alerts[i].type = type

Quiet == Len(calls) + Len(alerts) < MaxWait

Act == acts < MaxActs /\ Quiet /\ acts' = acts + 1

NativeCall ==
    /\ calls # << >>
    /\ calls' = Tail(calls)
    /\ native' = Called(native, Head(calls))
    /\ alerts' = IF Head(calls) = "save" THEN Append(alerts, ResumeData(native)) ELSE alerts
    /\ early' = (early \/ (Unaware /\ Head(calls) \in {"auto", "resume", "runWhenReady"}))
    /\ held' = ((held \/ (Head(calls) = "recheck" /\ native.error)) /\ Head(calls) # "runWhenReady")
    /\ UNCHANGED <<torrent, saved, misled, unsaved, rechecking, acts>>

Told(type) == [type |-> type]

\* What is told when a check has ended in state s
EndOfCheck(s) ==
    CASE s \in {"metadata", "checking"} -> << >>
      [] s = "downloading" -> <<Told("checked")>>
      [] s = "seeding" -> <<Told("checked"), Told("finished")>>

\* The queue of libtorrent lets a torrent run or wait.
NativeQueue ==
    /\ native.auto /\ ~native.error
    /\ native' = IF native.paused THEN [native EXCEPT !.paused = FALSE] ELSE Paused(native)
    /\ UNCHANGED <<torrent, saved, calls, alerts, history>>

\* Mutated form: the extension does not stop it.
OnStateRuns(n) == n

\* on_state of the extension, when a torrent has got its metadata
OnState(n) == [n EXCEPT !.stop = TRUE]

\* The metadata arrives, and the files are checked or need not be.
NativeMetadata ==
    /\ Quiet
    /\ native.state = "metadata" /\ ~native.paused
    /\ \E s \in {"checking", "downloading", "seeding"} :
          /\ native' = StoppedIfReady(OnState([native EXCEPT !.state = s]))
          /\ alerts' = Append(alerts, Told("metadata")) \o EndOfCheck(s)
    /\ UNCHANGED <<torrent, saved, calls, history>>

NativeChecked ==
    /\ Quiet
    /\ Checks(native)
    /\ \E s \in {"downloading", "seeding"} :
          /\ native' = StoppedIfReady([native EXCEPT !.state = s])
          /\ alerts' = alerts \o EndOfCheck(s)
    /\ UNCHANGED <<torrent, saved, calls, history>>

NativeFinished ==
    /\ Quiet
    /\ native.state = "downloading" /\ ~native.paused /\ ~native.error
    /\ native' = [native EXCEPT !.state = "seeding"]
    /\ alerts' = Append(alerts, Told("finished"))
    /\ UNCHANGED <<torrent, saved, calls, history>>

\* An error of a file, after which libtorrent pauses the torrent
NativeError ==
    /\ Act
    /\ native.state # "metadata" /\ ~native.paused /\ ~native.error
    /\ native' = Paused([native EXCEPT !.error = TRUE])
    /\ UNCHANGED <<torrent, saved, calls, alerts, misled, unsaved, early, rechecking, held>>

(* A torrent enters libtorrent with these flags. Its resume data is accepted, or
   all is checked, or the files are not as they were: then the extension pauses it. *)
NativeAdd(flags, known, q) ==
    LET added(s) == [state |-> s, paused |-> flags.paused, auto |-> flags.auto,
                     stop |-> flags.stop, error |-> FALSE]
    IN  \/ /\ ~known
           /\ native' = StoppedIfReady(added("metadata"))
           /\ alerts' = q
        \/ /\ known
           /\ \E s \in {"checking", "downloading", "seeding"} :
                 /\ native' = StoppedIfReady(added(s))
                 /\ alerts' = q \o EndOfCheck(s)
        \/ /\ known
           /\ native' = Paused([added("checking") EXCEPT !.auto = FALSE])
           /\ alerts' = Append(q, Told("rejected"))

-----------------------------------------------------------------------------
(* The user *)

SaveIf(changed) == IF changed THEN <<"save">> ELSE << >>

Pause ==
    /\ Act
    /\ isStopped' = TRUE
    /\ calls' = calls \o SaveIf(~isStopped)
                      \o (IF maintenance THEN << >> ELSE <<"manual", "pause">>)
    /\ rechecking' = FALSE
    /\ UNCHANGED <<mode, maintenance, hasMetadata, missingFiles, searches, saved,
                   native, alerts, misled, unsaved, early, held>>

\* Mutated form: it is stopped when it has been checked.
ResumeStops(m, error) ==
    (IF error THEN <<"clearError">> ELSE << >>)
        \o SaveIf(isStopped)
        \o (IF maintenance THEN << >>
            ELSE IF m = "auto" THEN <<"auto">> ELSE <<"manual", "resume">>)

\* What resume tells libtorrent. error: the last update of the status, which may
\* be late, tells of an error.
ResumeCalls(m, error) ==
    (IF error THEN <<"clearError">> ELSE << >>)
        \o (IF isStopped THEN <<"runWhenReady", "save">> ELSE << >>)
        \o (IF maintenance THEN << >>
            ELSE IF m = "auto" THEN <<"auto">> ELSE <<"manual", "resume">>)

Resume(m) ==
    /\ Act
    /\ ~missingFiles
    /\ mode' = m
    /\ isStopped' = FALSE
    /\ \E error \in BOOLEAN : calls' = calls \o ResumeCalls(m, error)
    /\ rechecking' = FALSE
    /\ unsaved' = (unsaved \/ (~isStopped /\ m # mode))
    /\ UNCHANGED <<maintenance, hasMetadata, missingFiles, searches, saved, native,
                   alerts, misled, early, held>>

ReloadFlags(stopped, m) ==
    [paused |-> stopped \/ m = "auto", auto |-> ~stopped /\ m = "auto", stop |-> saved.stop]

\* The native torrent is replaced. Its alerts are not known any more, unless
\* something in libtorrent still holds it; few wait then, which is a bound. The
\* questions that it is asked wait for the calls.
Reload(stopped, m) ==
    /\ calls = << >>
    /\ \E old \in {<< >>} \cup (IF Quiet THEN {alerts} ELSE {}) :
          NativeAdd(ReloadFlags(stopped, m), TRUE, old)
    /\ held' = (saved.stop /\ ~stopped)
    /\ rechecking' = FALSE
    /\ early' = FALSE
    /\ UNCHANGED <<calls, saved, misled>>

\* resume of a torrent whose files are missing
ResumeMissing(m) ==
    /\ Act
    /\ missingFiles
    /\ mode' = m
    /\ isStopped' = FALSE
    /\ missingFiles' = FALSE
    /\ Reload(FALSE, m)
    /\ unsaved' = TRUE
    /\ UNCHANGED <<maintenance, hasMetadata, searches>>

\* Mutated forms: the torrent is not stopped in the end, or it does not begin.
RecheckRuns == IF isStopped THEN <<"recheck", "auto">> ELSE <<"recheck">>
RecheckWaits == <<"recheck">>

RecheckCalls == IF isStopped THEN <<"recheck", "stopWhenReady">> ELSE <<"recheck">>

ForceRecheck ==
    /\ Act
    /\ hasMetadata
    /\ calls' = calls \o RecheckCalls
    /\ missingFiles' = FALSE
    /\ rechecking' = isStopped
    /\ held' = (held \/ missingFiles)
    /\ UNCHANGED <<isStopped, mode, maintenance, hasMetadata, searches, saved, native,
                   alerts, misled, unsaved, early>>

\* The data that libtorrent says have changed are saved now and then.
GenerateResumeData ==
    /\ Act
    /\ calls' = Append(calls, "save")
    /\ UNCHANGED <<torrent, saved, native, alerts, misled, unsaved, early, rechecking, held>>

-----------------------------------------------------------------------------
(* Alerts *)

Handles(type) == alerts # << >> /\ Head(alerts).type = type

\* Mutated form: the resume data, with which the search begins, are not asked for.
HandleMetadataReceivedOnly ==
    /\ Handles("metadata")
    /\ maintenance' = TRUE
    /\ alerts' = Tail(alerts)
    /\ UNCHANGED <<isStopped, mode, hasMetadata, missingFiles, searches, saved, native,
                   calls, history>>

HandleMetadataReceived ==
    /\ Handles("metadata")
    /\ maintenance' = TRUE
    /\ calls' = Append(calls, "save")
    /\ alerts' = Tail(alerts)
    /\ UNCHANGED <<isStopped, mode, hasMetadata, missingFiles, searches, saved, native,
                   history>>

\* Mutated form: libtorrent's flags are saved as they are.
SavedAsIs(flags) == flags

\* The flags that are saved say what is wanted, not what goes on behind the scenes.
\* The code leaves stop_when_ready as it is.
SavedFlags(flags) ==
    IF isStopped THEN [flags EXCEPT !.paused = TRUE, !.auto = FALSE]
    ELSE IF mode = "auto" THEN [flags EXCEPT !.auto = TRUE]
    ELSE [flags EXCEPT !.paused = FALSE, !.auto = FALSE]

HandleSaveResumeData ==
    /\ Handles("resumeData")
    /\ saved' = SavedFlags(Head(alerts).flags)
    /\ unsaved' = FALSE
    /\ misled' = (Head(alerts).flags.stop /\ ~isStopped)
    /\ searches' = IF maintenance THEN searches + 1 ELSE searches
    /\ alerts' = Tail(alerts)
    /\ UNCHANGED <<isStopped, mode, maintenance, hasMetadata, missingFiles, native,
                   calls, early, rechecking, held, acts>>

\* endReceivedMetadataHandling, also for a search that was asked for twice
FileSearchFinished ==
    /\ searches > 0
    /\ searches' = searches - 1
    /\ Reload(isStopped, mode)
    /\ hasMetadata' = TRUE
    /\ maintenance' = FALSE
    /\ unsaved' = (unsaved \/ (Pending("resumeData") /\ ~Pending("resumeData")'))
    /\ UNCHANGED <<isStopped, mode, missingFiles, acts>>

\* updateStatus waits for libtorrent, the request for the resume data included.
HandleTorrentChecked ==
    /\ Handles("checked")
    /\ IF hasMetadata
       THEN /\ calls = << >>
            /\ alerts' = Append(Tail(alerts), ResumeData(native))
            /\ rechecking' = FALSE
       ELSE alerts' = Tail(alerts) /\ UNCHANGED rechecking
    /\ UNCHANGED <<isStopped, mode, maintenance, hasMetadata, missingFiles, searches, saved,
                   native, calls, misled, unsaved, early, held, acts>>

\* A torrent that was complete before needs nothing. Another one is saved, and is
\* checked again if the user wants that; while files are moved this is put off (see
\* MoveStorage).
HandleTorrentFinished ==
    /\ Handles("finished")
    /\ missingFiles' = FALSE
    /\ alerts' = Tail(alerts)
    /\ \/ UNCHANGED <<calls, acts>>
       \/ /\ calls = << >>
          /\ calls' = SaveIf(~native.error)
          /\ UNCHANGED acts
       \/ /\ calls = << >>
          /\ hasMetadata
          /\ calls' = RecheckCalls \o SaveIf(~native.error)
          /\ Act
    /\ UNCHANGED <<isStopped, mode, maintenance, hasMetadata, searches, saved, native, misled,
                   unsaved, early, rechecking, held>>

HandleFastResumeRejected ==
    /\ Handles("rejected")
    /\ missingFiles' = TRUE
    /\ alerts' = Tail(alerts)
    /\ UNCHANGED <<isStopped, mode, maintenance, hasMetadata, searches, saved, native,
                   calls, history>>

-----------------------------------------------------------------------------

\* loadTorrentResumeData
Restored(flags) ==
    IF flags.stop THEN [stopped |-> TRUE, mode |-> "auto"]
    ELSE [stopped |-> flags.paused /\ ~flags.auto,
          mode |-> IF ~flags.paused /\ ~flags.auto THEN "forced" ELSE "auto"]

RestoredFlags(flags) ==
    IF flags.stop THEN [flags EXCEPT !.paused = FALSE, !.auto = TRUE] ELSE flags

\* The application ends, in whatever way, and starts again.
Restart ==
    /\ Act
    /\ isStopped' = Restored(saved).stopped
    /\ mode' = Restored(saved).mode
    /\ \E known \in {hasMetadata, hasMetadata \/ saved.known} :
          /\ hasMetadata' = known
          /\ NativeAdd(RestoredFlags(saved), known, << >>)
    /\ calls' = << >>
    /\ maintenance' = FALSE /\ missingFiles' = FALSE
    /\ searches' = 0
    /\ misled' = FALSE /\ unsaved' = FALSE /\ early' = FALSE
    /\ rechecking' = FALSE /\ held' = FALSE
    /\ UNCHANGED saved

-----------------------------------------------------------------------------

SavedWhen(stopped, m, known) ==
    [paused |-> stopped, auto |-> ~stopped /\ m = "auto", stop |-> FALSE, known |-> known]

\* A torrent that was left stopped, running or forced is loaded when the
\* application starts.
Init ==
    /\ isStopped \in BOOLEAN
    /\ mode \in {"auto", "forced"}
    /\ isStopped => mode = "auto"
    /\ hasMetadata \in BOOLEAN
    /\ saved = SavedWhen(isStopped, mode, hasMetadata)
    /\ \E s \in {"metadata", "checking", "downloading", "seeding"} :
          /\ hasMetadata = (s # "metadata")
          /\ native = [state |-> s, paused |-> saved.paused, auto |-> saved.auto,
                       stop |-> FALSE, error |-> FALSE]
          /\ alerts = EndOfCheck(s)
    /\ calls = << >>
    /\ searches = 0 /\ acts = 0
    /\ maintenance = FALSE /\ missingFiles = FALSE
    /\ misled = FALSE /\ unsaved = FALSE /\ early = FALSE
    /\ rechecking = FALSE /\ held = FALSE

User ==
    \/ Pause \/ ForceRecheck \/ GenerateResumeData
    \/ \E m \in {"auto", "forced"} : Resume(m) \/ ResumeMissing(m)

HandleAlert ==
    \/ HandleMetadataReceived \/ HandleSaveResumeData \/ HandleTorrentChecked
    \/ HandleTorrentFinished \/ HandleFastResumeRejected

Libtorrent ==
    \/ NativeCall \/ NativeQueue \/ NativeMetadata \/ NativeChecked \/ NativeFinished
    \/ NativeError

Next == User \/ HandleAlert \/ FileSearchFinished \/ Libtorrent \/ Restart

Spec == Init /\ [][Next]_vars

\* The queue lets a torrent run in the end.
NativeStart == NativeQueue /\ native.paused

(* The main loop handles the alerts; a handler that waits for libtorrent blocks
   the user meanwhile. libtorrent takes the calls, and checks the files of what it
   lets run again and again. *)
FairSpec ==
    /\ Spec
    /\ WF_vars(HandleAlert)
    /\ WF_vars(NativeCall) /\ WF_vars(NativeStart) /\ SF_vars(NativeChecked)

-----------------------------------------------------------------------------
(* Properties *)

\* Type correctness.
TypeOK ==
    /\ {isStopped, maintenance, hasMetadata, missingFiles, misled, unsaved, early,
        rechecking, held} \subseteq BOOLEAN
    /\ mode \in {"auto", "forced"}
    /\ searches \in Nat /\ acts \in 0 .. MaxActs
    /\ saved \in Flags
    /\ native \in Native
    /\ calls \in Seq(Call)
    /\ alerts \in Seq(Alert)

\* Only the result of a search ends the maintenance, in which the torrent is neither
\* paused nor resumed (torrentimpl.cpp:1526, 1567): one is under way, or answers are
\* that start one, whatever calls and alerts a reload or a restart has dropped.
SearchIsToCome ==
    maintenance => \/ searches > 0
                   \/ Pending("resumeData")
                   \/ \E i \in DOMAIN calls : calls[i] = "save"

\* The types, and that the maintenance has its end to come.
ControlOK == TypeOK /\ SearchIsToCome

\* When libtorrent has done what it was told, a torrent that is stopped is paused,
\* or it is being checked and will be stopped then, whatever checks, errors,
\* reloads and restarts it went through.
StoppedDoesNotRun ==
    isStopped /\ ~maintenance /\ calls = << >>
        => native.paused \/ (native.state = "checking" /\ native.stop /\ native.auto)

Settled ==
    /\ calls = << >>
    /\ ~maintenance
    /\ ~Pending("metadata") /\ ~Pending("rejected")

\* Then a torrent that runs will not be stopped behind the application's back: it
\* is left to the queue, or runs if it is forced, errors apart.
RunningIsLetRun ==
    Settled /\ ~isStopped /\ ~missingFiles /\ ~held
        => /\ ~native.stop
           /\ mode = "auto" => native.auto
           /\ mode = "forced" => ~native.auto /\ (~native.paused \/ native.error)

\* Nothing is downloaded between the arrival of the metadata and the search for
\* the files that are there already, unless libtorrent was told meanwhile to run the
\* torrent, or not to stop it (early): by calls that had not reached it, by a resume
\* before the alert was handled, and by the resume of a torrent that was stopped in
\* the maintenance, which takes the stop away (torrentimpl.cpp:1561, outside the
\* guard at 1567).
DownloadsAfterReload ==
    Unaware /\ native.state # "checking" => native.paused \/ early

\* What the resume data that was asked for last restores is what was wanted.
KeptAsWanted ==
    LET restored == Restored(saved) IN
    (\A i \in DOMAIN calls : calls[i] # "save") /\ ~Pending("resumeData")
            /\ ~misled /\ ~unsaved
        => /\ restored.stopped = isStopped
           /\ isStopped \/ restored.mode = mode

\* The check of a stopped torrent that the user asked for ends, or meets an error,
\* also when the queue makes it wait and however often it is asked for.
RechecksEnd == rechecking ~> (~rechecking \/ native.error \/ missingFiles)

=============================================================================
