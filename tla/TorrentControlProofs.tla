------------------------ MODULE TorrentControlProofs ------------------------
(* Proofs about TorrentControl, for any number of acts and of calls and        *)
(* alerts that wait: what is saved is what was wanted, nothing is downloaded   *)
(* before the metadata are handled, a stopped torrent does not run, and a      *)
(* torrent that is to run is let run.                                          *)
EXTENDS TorrentControl, QueueFacts, TLAPS

-----------------------------------------------------------------------------
(* Sequences *)

Has(q, x) == \E i \in DOMAIN q : q[i] = x

-----------------------------------------------------------------------------
(* Types *)

State == {"metadata", "checking", "downloading", "seeding"}

LEMMA PausedType == ASSUME NEW n \in Native PROVE Paused(n) \in Native
  BY DEF Paused, Native

LEMMA StoppedType == ASSUME NEW n \in Native PROVE StoppedIfReady(n) \in Native
  <1>1. [n EXCEPT !.auto = FALSE] \in Native
    BY DEF Native
  <1>2. Paused([n EXCEPT !.auto = FALSE]) \in Native
    BY <1>1, PausedType
  <1>3. QED
    BY <1>2 DEF StoppedIfReady, Native

\* What pausing and stopping leave as it is, and what they make of the rest
LEMMA PausedIs ==
  ASSUME NEW n \in Native
  PROVE  /\ Paused(n).state = n.state /\ Paused(n).auto = n.auto /\ Paused(n).paused
         /\ Paused(n).stop = IF n.paused THEN n.stop ELSE n.stop /\ n.auto
         /\ Paused(n).error = n.error
  BY DEF Paused, Native

LEMMA StoppedIs ==
  ASSUME NEW n \in Native
  PROVE  /\ StoppedIfReady(n).state = n.state
         /\ n.stop /\ n.state # "checking" =>
               StoppedIfReady(n).paused /\ ~StoppedIfReady(n).auto /\ ~StoppedIfReady(n).stop
         /\ ~(n.stop /\ n.state # "checking") => StoppedIfReady(n) = n
  <1> DEFINE a == [n EXCEPT !.auto = FALSE]
             b == Paused(a)
  <1>1. a \in Native /\ a.state = n.state /\ ~a.auto
    BY DEF Native
  <1> HIDE DEF a
  <1>2. b \in Native /\ b.state = n.state /\ b.paused /\ ~b.auto
    BY <1>1, PausedIs, PausedType
  <1> HIDE DEF b
  <1>3. /\ [b EXCEPT !.stop = FALSE].state = n.state
        /\ [b EXCEPT !.stop = FALSE].paused
        /\ ~[b EXCEPT !.stop = FALSE].auto
        /\ ~[b EXCEPT !.stop = FALSE].stop
    BY <1>2 DEF Native
  <1>4. StoppedIfReady(n) = IF n.stop /\ n.state # "checking"
                            THEN [b EXCEPT !.stop = FALSE] ELSE n
    BY DEF StoppedIfReady, Ready, a, b
  <1>5. QED BY <1>3, <1>4

LEMMA CalledType ==
  ASSUME NEW n \in Native, NEW call \in Call
  PROVE  Called(n, call) \in Native
  <1>1. [n EXCEPT !.auto = TRUE, !.stop = TRUE] \in Native
    BY DEF Native
  <1>2. StoppedIfReady([n EXCEPT !.auto = TRUE, !.stop = TRUE]) \in Native
    BY <1>1, StoppedType
  <1>3. Paused(n) \in Native
    BY PausedType
  <1>4. /\ [n EXCEPT !.auto = TRUE] \in Native
        /\ [n EXCEPT !.auto = FALSE] \in Native
        /\ [n EXCEPT !.paused = FALSE] \in Native
        /\ [n EXCEPT !.error = FALSE] \in Native
        /\ [n EXCEPT !.stop = FALSE] \in Native
        /\ [n EXCEPT !.state = "checking", !.error = FALSE] \in Native
    BY DEF Native
  <1>5. QED
    BY <1>2, <1>3, <1>4 DEF Called, Call

LEMMA AlertTypes ==
  /\ \A type \in {"metadata", "checked", "finished", "rejected"} : Told(type) \in Alert
  /\ \A n \in Native : ResumeData(n) \in Alert
  /\ \A s \in State : EndOfCheck(s) \in Seq(Alert)
  <1>1. \A type \in {"metadata", "checked", "finished", "rejected"} : Told(type) \in Alert
    BY DEF Told, Alert
  <1>2. ASSUME NEW n \in Native PROVE ResumeData(n) \in Alert
    <2>1. FlagsOf(n) \in Flags
      BY DEF FlagsOf, Flags, Native
    <2>2. QED BY <2>1 DEF ResumeData, Alert
  <1>3. \A s \in State : EndOfCheck(s) \in Seq(Alert)
    BY <1>1 DEF EndOfCheck, State
  <1>4. QED BY <1>1, <1>2, <1>3

LEMMA NativeAddType ==
  ASSUME NEW flags, NEW known \in BOOLEAN, NEW q \in Seq(Alert), NativeAdd(flags, known, q),
         flags.paused \in BOOLEAN, flags.auto \in BOOLEAN, flags.stop \in BOOLEAN
  PROVE  native' \in Native /\ alerts' \in Seq(Alert)
  <1> DEFINE added(s) == [state |-> s, paused |-> flags.paused, auto |-> flags.auto,
                          stop |-> flags.stop, error |-> FALSE]
  <1>1. \A s \in State : added(s) \in Native
    BY DEF State, Native
  <1>2. \A s \in State : StoppedIfReady(added(s)) \in Native
    BY <1>1, StoppedType
  <1>3. [added("checking") EXCEPT !.auto = FALSE] \in Native
    BY <1>1 DEF State, Native
  <1>4. Paused([added("checking") EXCEPT !.auto = FALSE]) \in Native
    BY <1>3, PausedType
  <1>5. \A s \in State : q \o EndOfCheck(s) \in Seq(Alert)
    BY AlertTypes, ConcatProperties
  <1>6. Append(q, Told("rejected")) \in Seq(Alert)
    BY AlertTypes, AppendProperties
  <1>7. QED
    BY <1>2, <1>4, <1>5, <1>6 DEF NativeAdd, State

\* The parts of the type invariant: truth values, numbers and the rest
Booleans ==
    /\ isStopped \in BOOLEAN /\ maintenance \in BOOLEAN /\ hasMetadata \in BOOLEAN
    /\ missingFiles \in BOOLEAN /\ misled \in BOOLEAN /\ unsaved \in BOOLEAN
    /\ early \in BOOLEAN /\ rechecking \in BOOLEAN /\ held \in BOOLEAN

Numbers == searches \in Nat /\ acts \in 0 .. MaxActs

Kept == mode \in {"auto", "forced"} /\ saved \in Flags

NativeOK == native \in Native /\ alerts \in Seq(Alert)

CallsOK == calls \in Seq(Call)

LEMMA Parts == TypeOK <=> Booleans /\ Numbers /\ Kept /\ NativeOK /\ CallsOK
  BY DEF TypeOK, Booleans, Numbers, Kept, NativeOK, CallsOK

LEMMA ActCounts == Numbers /\ Act => acts' \in 0 .. MaxActs
  BY TorrentControlAssumption DEF Numbers, Act

LEMMA InitType == Init => TypeOK
  <1> SUFFICES ASSUME Init PROVE Booleans /\ Numbers /\ Kept /\ NativeOK /\ CallsOK
    BY Parts
  <1>1. Booleans
    BY DEF Init, Booleans
  <1>2. Numbers
    BY TorrentControlAssumption DEF Init, Numbers
  <1>3. Kept
    BY DEF Init, SavedWhen, Flags, Kept
  <1>4. NativeOK
    BY <1>3, AlertTypes DEF Init, SavedWhen, Native, State, NativeOK, Flags
  <1>5. CallsOK
    BY DEF Init, CallsOK
  <1>6. QED
    BY <1>1, <1>2, <1>3, <1>4, <1>5

LEMMA CallSequences ==
  /\ \A x \in Call : <<x>> \in Seq(Call)
  /\ \A x \in Call, y \in Call : <<x, y>> \in Seq(Call)
  /\ << >> \in Seq(Call)
  /\ \A c : SaveIf(c) \in Seq(Call)
  /\ RecheckCalls \in Seq(Call)
  /\ \A m, e : ResumeCalls(m, e) \in Seq(Call)
  <1>1. /\ \A x \in Call : <<x>> \in Seq(Call)
        /\ \A x \in Call, y \in Call : <<x, y>> \in Seq(Call)
        /\ << >> \in Seq(Call)
    OBVIOUS
  <1>c. Call = {"auto", "manual", "pause", "resume", "clearError", "recheck",
                "stopWhenReady", "runWhenReady", "save"}
    BY DEF Call
  <1>2. \A c : SaveIf(c) \in Seq(Call)
    <2>1. <<"save">> \in Seq(Call)
      BY <1>1, <1>c
    <2>2. QED BY <2>1, <1>1 DEF SaveIf
  <1>3. RecheckCalls \in Seq(Call)
    <2>1. <<"recheck">> \in Seq(Call) /\ <<"recheck", "stopWhenReady">> \in Seq(Call)
      BY <1>1, <1>c
    <2>2. QED BY <2>1 DEF RecheckCalls
  <1>4. ASSUME NEW m, NEW e PROVE ResumeCalls(m, e) \in Seq(Call)
    <2> DEFINE a == IF e THEN <<"clearError">> ELSE << >>
               b == IF isStopped THEN <<"runWhenReady", "save">> ELSE << >>
               c == IF maintenance THEN << >>
                    ELSE IF m = "auto" THEN <<"auto">> ELSE <<"manual", "resume">>
    <2>1. a \in Seq(Call)
      <3>1. <<"clearError">> \in Seq(Call)
        BY <1>1, <1>c
      <3>2. QED BY <3>1, <1>1
    <2>2. b \in Seq(Call)
      <3>1. <<"runWhenReady", "save">> \in Seq(Call)
        BY <1>1, <1>c
      <3>2. QED BY <3>1, <1>1
    <2>3. c \in Seq(Call)
      <3>1. <<"auto">> \in Seq(Call) /\ <<"manual", "resume">> \in Seq(Call)
        BY <1>1, <1>c
      <3>2. QED BY <3>1, <1>1
    <2> HIDE DEF a, b, c
    <2>4. a \o b \in Seq(Call)
      BY <2>1, <2>2, ConcatProperties
    <2>5. (a \o b) \o c \in Seq(Call)
      BY <2>3, <2>4, ConcatProperties
    <2>6. QED BY <2>5 DEF ResumeCalls, a, b, c
  <1>5. QED
    BY <1>1, <1>2, <1>3, <1>4

LEMMA ReloadType ==
  ASSUME TypeOK, NEW stopped \in BOOLEAN, NEW m \in {"auto", "forced"}, Reload(stopped, m)
  PROVE  NativeOK' /\ held' \in BOOLEAN
  <1> DEFINE flags == ReloadFlags(stopped, m)
  <1>1. flags.paused \in BOOLEAN /\ flags.auto \in BOOLEAN /\ flags.stop \in BOOLEAN
    BY DEF ReloadFlags, TypeOK, Flags
  <1>2. PICK old \in {<< >>} \cup (IF Quiet THEN {alerts} ELSE {}) : NativeAdd(flags, TRUE, old)
    BY DEF Reload
  <1>3. old \in Seq(Alert)
    <2>1. << >> \in Seq(Alert)
      OBVIOUS
    <2>2. alerts \in Seq(Alert)
      BY DEF TypeOK
    <2>3. old = << >> \/ old = alerts
      BY <1>2
    <2>4. QED BY <2>1, <2>2, <2>3
  <1>4. native' \in Native /\ alerts' \in Seq(Alert)
    BY <1>1, <1>2, <1>3, NativeAddType
  <1>5. held' \in BOOLEAN
    BY DEF Reload
  <1>6. QED
    BY <1>4, <1>5 DEF NativeOK

LEMMA UserType == ASSUME TypeOK, User PROVE TypeOK'
  <1>p. Booleans /\ Numbers /\ Kept /\ NativeOK /\ CallsOK
    BY Parts
  <1> SUFFICES Booleans' /\ Numbers' /\ Kept' /\ NativeOK' /\ CallsOK'
    BY Parts, PTL
  <1> DEFINE goal == Booleans' /\ Numbers' /\ Kept' /\ NativeOK' /\ CallsOK'
  <1>1. CASE Pause
    <2>1. Booleans'
      BY <1>1, <1>p DEF Booleans, Pause
    <2>2. acts' \in 0 .. MaxActs
      BY <1>1, <1>p, ActCounts DEF Pause
    <2>3. CallsOK'
      <3> DEFINE a == SaveIf(~isStopped)
                 b == IF maintenance THEN << >> ELSE <<"manual", "pause">>
      <3>1. a \in Seq(Call) /\ calls \in Seq(Call)
        BY <1>p, CallSequences DEF CallsOK
      <3>2. b \in Seq(Call)
        <4>1. "manual" \in Call /\ "pause" \in Call
          BY DEF Call
        <4>2. <<"manual", "pause">> \in Seq(Call)
          BY <4>1, CallSequences
        <4>3. QED BY <4>2, CallSequences
      <3> HIDE DEF a, b
      <3>3. calls \o a \in Seq(Call)
        BY <3>1, ConcatProperties
      <3>4. (calls \o a) \o b \in Seq(Call)
        BY <3>2, <3>3, ConcatProperties
      <3>5. QED BY <1>1, <3>4 DEF Pause, CallsOK, a, b
    <2>4. QED
      BY <1>1, <1>p, <2>1, <2>2, <2>3 DEF Numbers, Kept, NativeOK, Pause
  <1>2. ASSUME NEW m \in {"auto", "forced"}, Resume(m) PROVE goal
    <2>1. Booleans'
      BY <1>2, <1>p DEF Booleans, Resume
    <2>2. acts' \in 0 .. MaxActs
      BY <1>2, <1>p, ActCounts DEF Resume
    <2>3. CallsOK'
      <3>1. PICK e \in BOOLEAN : calls' = calls \o ResumeCalls(m, e)
        BY <1>2 DEF Resume
      <3>2. ResumeCalls(m, e) \in Seq(Call)
        BY CallSequences
      <3>3. QED BY <3>1, <3>2, <1>p, ConcatProperties DEF CallsOK
    <2>4. QED
      BY <1>2, <1>p, <2>1, <2>2, <2>3 DEF Numbers, Kept, NativeOK, Resume
  <1>3. ASSUME NEW m \in {"auto", "forced"}, ResumeMissing(m) PROVE goal
    <2>1. Reload(FALSE, m)
      BY <1>3 DEF ResumeMissing
    <2>2. NativeOK' /\ held' \in BOOLEAN
      BY <2>1, ReloadType
    <2>3. Booleans'
      BY <1>3, <1>p, <2>2 DEF Booleans, ResumeMissing, Reload
    <2>4. acts' \in 0 .. MaxActs
      BY <1>3, <1>p, ActCounts DEF ResumeMissing
    <2>5. QED
      BY <1>3, <1>p, <2>2, <2>3, <2>4 DEF Numbers, Kept, CallsOK, ResumeMissing, Reload
  <1>4. CASE ForceRecheck
    <2>1. Booleans'
      BY <1>4, <1>p DEF Booleans, ForceRecheck
    <2>2. acts' \in 0 .. MaxActs
      BY <1>4, <1>p, ActCounts DEF ForceRecheck
    <2>3. CallsOK'
      BY <1>4, <1>p, CallSequences, ConcatProperties DEF CallsOK, ForceRecheck
    <2>4. QED
      BY <1>4, <1>p, <2>1, <2>2, <2>3 DEF Numbers, Kept, NativeOK, ForceRecheck
  <1>5. CASE GenerateResumeData
    <2>1. acts' \in 0 .. MaxActs
      BY <1>5, <1>p, ActCounts DEF GenerateResumeData
    <2>2. CallsOK'
      <3>1. "save" \in Call
        BY DEF Call
      <3>2. QED BY <1>5, <1>p, <3>1, AppendProperties DEF CallsOK, GenerateResumeData
    <2>3. Booleans'
      BY <1>5, <1>p DEF Booleans, GenerateResumeData, torrent
    <2>4. QED
      BY <1>5, <1>p, <2>1, <2>2, <2>3
      DEF Numbers, Kept, NativeOK, GenerateResumeData, torrent
  <1>6. QED
    BY <1>1, <1>2, <1>3, <1>4, <1>5 DEF User


LEMMA AlertHandledType == ASSUME TypeOK, HandleAlert PROVE TypeOK'
  <1>p. Booleans /\ Numbers /\ Kept /\ NativeOK /\ CallsOK
    BY Parts
  <1> SUFFICES Booleans' /\ Numbers' /\ Kept' /\ NativeOK' /\ CallsOK'
    BY Parts, PTL
  <1>q. alerts # << >> => Head(alerts) \in Alert /\ Tail(alerts) \in Seq(Alert)
    BY <1>p, TailIn DEF NativeOK
  <1>c. "save" \in Call
    BY DEF Call
  <1>1. CASE HandleMetadataReceived
    <2>1. Booleans'
      BY <1>1, <1>p DEF Booleans, HandleMetadataReceived, history
    <2>2. CallsOK'
      BY <1>1, <1>p, <1>c, AppendProperties DEF CallsOK, HandleMetadataReceived
    <2>3. NativeOK'
      BY <1>1, <1>p, <1>q DEF NativeOK, HandleMetadataReceived, Handles
    <2>4. QED
      BY <1>1, <1>p, <2>1, <2>2, <2>3 DEF Numbers, Kept, HandleMetadataReceived, history
  <1>2. CASE HandleSaveResumeData
    <2>1. Head(alerts).flags \in Flags
      BY <1>2, <1>q DEF HandleSaveResumeData, Handles, Alert
    <2>2. saved' \in Flags
      BY <1>2, <2>1 DEF HandleSaveResumeData, SavedFlags, Flags
    <2>3. Booleans'
      BY <1>2, <1>p DEF Booleans, HandleSaveResumeData
    <2>4. Numbers'
      BY <1>2, <1>p DEF Numbers, HandleSaveResumeData
    <2>5. NativeOK'
      BY <1>2, <1>p, <1>q DEF NativeOK, HandleSaveResumeData, Handles
    <2>6. QED
      BY <1>2, <1>p, <2>2, <2>3, <2>4, <2>5 DEF Kept, CallsOK, HandleSaveResumeData
  <1>3. CASE HandleTorrentChecked
    <2>1. ResumeData(native) \in Alert
      BY <1>p, AlertTypes DEF NativeOK
    <2>2. Append(Tail(alerts), ResumeData(native)) \in Seq(Alert)
      BY <1>3, <1>q, <2>1, AppendProperties DEF HandleTorrentChecked, Handles
    <2>3. NativeOK'
      BY <1>3, <1>p, <1>q, <2>2 DEF NativeOK, HandleTorrentChecked, Handles
    <2>4. Booleans'
      BY <1>3, <1>p DEF Booleans, HandleTorrentChecked
    <2>5. QED
      BY <1>3, <1>p, <2>3, <2>4 DEF Numbers, Kept, CallsOK, HandleTorrentChecked
  <1>4. CASE HandleTorrentFinished
    <2>1. acts' \in 0 .. MaxActs
      BY <1>4, <1>p, ActCounts DEF HandleTorrentFinished, Numbers
    <2>2. CallsOK'
      <3>1. SaveIf(~native.error) \in Seq(Call) /\ RecheckCalls \in Seq(Call)
        BY CallSequences
      <3>2. RecheckCalls \o SaveIf(~native.error) \in Seq(Call)
        BY <3>1, ConcatProperties
      <3>3. \/ calls' = calls \/ calls' = SaveIf(~native.error)
            \/ calls' = RecheckCalls \o SaveIf(~native.error)
        BY <1>4 DEF HandleTorrentFinished
      <3>4. QED BY <3>1, <3>2, <3>3, <1>p DEF CallsOK
    <2>3. NativeOK'
      BY <1>4, <1>p, <1>q DEF NativeOK, HandleTorrentFinished, Handles
    <2>4. Booleans'
      BY <1>4, <1>p DEF Booleans, HandleTorrentFinished
    <2>5. QED
      BY <1>4, <1>p, <2>1, <2>2, <2>3, <2>4 DEF Numbers, Kept, HandleTorrentFinished
  <1>5. CASE HandleFastResumeRejected
    <2>1. NativeOK'
      BY <1>5, <1>p, <1>q DEF NativeOK, HandleFastResumeRejected, Handles
    <2>2. Booleans'
      BY <1>5, <1>p DEF Booleans, HandleFastResumeRejected, history
    <2>3. QED
      BY <1>5, <1>p, <2>1, <2>2 DEF Numbers, Kept, CallsOK, HandleFastResumeRejected, history
  <1>6. QED
    BY <1>1, <1>2, <1>3, <1>4, <1>5 DEF HandleAlert

LEMMA SearchType == ASSUME TypeOK, FileSearchFinished PROVE TypeOK'
  <1>p. Booleans /\ Numbers /\ Kept /\ NativeOK /\ CallsOK
    BY Parts
  <1> SUFFICES Booleans' /\ Numbers' /\ Kept' /\ NativeOK' /\ CallsOK'
    BY Parts, PTL
  <1>1. isStopped \in BOOLEAN
    BY <1>p DEF Booleans
  <1>2. mode \in {"auto", "forced"}
    BY <1>p DEF Kept
  <1>3. Reload(isStopped, mode)
    BY DEF FileSearchFinished
  <1>4. NativeOK' /\ held' \in BOOLEAN
    BY <1>1, <1>2, <1>3, ReloadType
  <1>5. Booleans'
    BY <1>p, <1>4 DEF Booleans, FileSearchFinished, Reload
  <1>6. Numbers'
    BY <1>p DEF Numbers, FileSearchFinished
  <1>7. QED
    BY <1>p, <1>4, <1>5, <1>6 DEF Kept, CallsOK, FileSearchFinished, Reload

LEMMA LibtorrentType == ASSUME TypeOK, Libtorrent PROVE TypeOK'
  <1>p. Booleans /\ Numbers /\ Kept /\ NativeOK /\ CallsOK
    BY Parts
  <1> SUFFICES Booleans' /\ Numbers' /\ Kept' /\ NativeOK' /\ CallsOK'
    BY Parts, PTL
  <1>n. native \in Native /\ alerts \in Seq(Alert)
    BY <1>p DEF NativeOK
  <1>1. CASE NativeCall
    <2>1. Head(calls) \in Call /\ Tail(calls) \in Seq(Call)
      BY <1>1, <1>p, TailIn DEF NativeCall, CallsOK
    <2>2. Called(native, Head(calls)) \in Native
      BY <2>1, <1>n, CalledType
    <2>3. Append(alerts, ResumeData(native)) \in Seq(Alert)
      BY <1>n, AlertTypes, AppendProperties
    <2>4. NativeOK'
      BY <1>1, <1>n, <2>2, <2>3 DEF NativeOK, NativeCall
    <2>5. Booleans'
      BY <1>1, <1>p DEF Booleans, NativeCall, torrent
    <2>6. QED
      BY <1>1, <1>p, <2>1, <2>4, <2>5 DEF Numbers, Kept, CallsOK, NativeCall, torrent
  <1>2. CASE NativeQueue
    <2>1. [native EXCEPT !.paused = FALSE] \in Native
      BY <1>n DEF Native
    <2>2. NativeOK'
      BY <1>2, <1>n, <2>1, PausedType DEF NativeOK, NativeQueue
    <2>3. QED
      BY <1>2, <1>p, <2>2 DEF Booleans, Numbers, Kept, CallsOK, NativeQueue, torrent, history
  <1>3. CASE NativeMetadata
    <2>1. PICK s \in State :
             /\ native' = StoppedIfReady(OnState([native EXCEPT !.state = s]))
             /\ alerts' = Append(alerts, Told("metadata")) \o EndOfCheck(s)
      BY <1>3 DEF NativeMetadata, State
    <2>2. OnState([native EXCEPT !.state = s]) \in Native
      BY <1>n DEF OnState, Native, State
    <2>3. native' \in Native
      BY <2>1, <2>2, StoppedType
    <2>4. Append(alerts, Told("metadata")) \in Seq(Alert) /\ EndOfCheck(s) \in Seq(Alert)
      BY <1>n, AlertTypes, AppendProperties
    <2>5. alerts' \in Seq(Alert)
      BY <2>1, <2>4, ConcatProperties
    <2>6. QED
      BY <1>3, <1>p, <2>3, <2>5
      DEF Booleans, Numbers, Kept, CallsOK, NativeOK, NativeMetadata, torrent, history
  <1>4. CASE NativeChecked
    <2>1. PICK s \in State :
             /\ native' = StoppedIfReady([native EXCEPT !.state = s])
             /\ alerts' = alerts \o EndOfCheck(s)
      BY <1>4 DEF NativeChecked, State
    <2>2. [native EXCEPT !.state = s] \in Native
      BY <1>n DEF Native, State
    <2>3. native' \in Native
      BY <2>1, <2>2, StoppedType
    <2>4. alerts' \in Seq(Alert)
      BY <2>1, <1>n, AlertTypes, ConcatProperties
    <2>5. QED
      BY <1>4, <1>p, <2>3, <2>4
      DEF Booleans, Numbers, Kept, CallsOK, NativeOK, NativeChecked, torrent, history
  <1>5. CASE NativeFinished
    <2>1. [native EXCEPT !.state = "seeding"] \in Native
      BY <1>n DEF Native
    <2>2. alerts' \in Seq(Alert)
      BY <1>5, <1>n, AlertTypes, AppendProperties DEF NativeFinished
    <2>3. QED
      BY <1>5, <1>p, <2>1, <2>2
      DEF Booleans, Numbers, Kept, CallsOK, NativeOK, NativeFinished, torrent, history
  <1>6. CASE NativeError
    <2>1. [native EXCEPT !.error = TRUE] \in Native
      BY <1>n DEF Native
    <2>2. NativeOK'
      BY <1>6, <1>n, <2>1, PausedType DEF NativeOK, NativeError
    <2>3. acts' \in 0 .. MaxActs
      BY <1>6, <1>p, ActCounts DEF NativeError
    <2>4. Booleans'
      BY <1>6, <1>p DEF Booleans, NativeError, torrent
    <2>5. QED
      BY <1>6, <1>p, <2>2, <2>3, <2>4 DEF Numbers, Kept, CallsOK, NativeError, torrent
  <1>7. QED
    BY <1>1, <1>2, <1>3, <1>4, <1>5, <1>6 DEF Libtorrent

LEMMA RestartType == ASSUME TypeOK, Restart PROVE TypeOK'
  <1>p. Booleans /\ Numbers /\ Kept /\ NativeOK /\ CallsOK
    BY Parts
  <1> SUFFICES Booleans' /\ Numbers' /\ Kept' /\ NativeOK' /\ CallsOK'
    BY Parts, PTL
  <1> DEFINE flags == RestoredFlags(saved)
  <1>1. flags \in Flags
    BY <1>p DEF Kept, RestoredFlags, Flags
  <1>2. /\ flags.paused \in BOOLEAN /\ flags.auto \in BOOLEAN /\ flags.stop \in BOOLEAN
        /\ saved.stop \in BOOLEAN /\ saved.paused \in BOOLEAN /\ saved.auto \in BOOLEAN
        /\ saved.known \in BOOLEAN
    BY <1>1, <1>p DEF Flags, Kept
  <1>3. PICK known \in {hasMetadata, hasMetadata \/ saved.known} :
           hasMetadata' = known /\ NativeAdd(flags, known, << >>)
    BY DEF Restart
  <1>4. known \in BOOLEAN
    BY <1>2, <1>3, <1>p DEF Booleans
  <1>5. << >> \in Seq(Alert) /\ << >> \in Seq(Call)
    OBVIOUS
  <1>6. NativeOK'
    <2> HIDE DEF flags
    <2>1. QED BY <1>2, <1>3, <1>4, <1>5, NativeAddType DEF NativeOK
  <1>7. Restored(saved).stopped \in BOOLEAN /\ Restored(saved).mode \in {"auto", "forced"}
    BY <1>2 DEF Restored
  <1>8. Booleans'
    BY <1>3, <1>4, <1>7 DEF Booleans, Restart
  <1>9. acts' \in 0 .. MaxActs
    BY <1>p, ActCounts DEF Restart
  <1>10. QED
    BY <1>5, <1>6, <1>7, <1>8, <1>9, <1>p DEF Numbers, Kept, CallsOK, Restart

\* Every variable keeps its type; the call and alert queues too, of any length.
THEOREM TypesHold == Spec => []TypeOK
  <1>1. ASSUME TypeOK, [Next]_vars PROVE TypeOK'
    <2>1. CASE UNCHANGED vars
      BY <1>1, <2>1 DEF TypeOK, vars, torrent, history
    <2>2. QED
      BY <1>1, <2>1, UserType, AlertHandledType, SearchType, LibtorrentType, RestartType
      DEF Next
  <1>2. QED
    BY <1>1, InitType, PTL DEF Spec


-----------------------------------------------------------------------------
(* What a queue holds *)

Tells(q, type) == \E i \in DOMAIN q : q[i].type = type

LEMMA ConcatHas ==
  ASSUME NEW S, NEW q \in Seq(S), NEW r \in Seq(S), NEW x
  PROVE  /\ Has(q \o r, x) <=> (Has(q, x) \/ Has(r, x))
         /\ Tells(q \o r, x) <=> (Tells(q, x) \/ Tells(r, x))
  <1> DEFINE c == q \o r
  <1>1. /\ DOMAIN q = 1 .. Len(q) /\ DOMAIN r = 1 .. Len(r)
        /\ Len(q) \in Nat /\ Len(r) \in Nat
        /\ DOMAIN c = 1 .. Len(q) + Len(r)
        /\ \A i \in 1 .. Len(q) : c[i] = q[i]
        /\ \A i \in 1 .. Len(r) : c[Len(q) + i] = r[i]
    BY ConcatIn
  <1> HIDE DEF c
  <1>2. ASSUME NEW i \in DOMAIN q PROVE i \in DOMAIN c /\ c[i] = q[i]
    BY <1>1
  <1>3. ASSUME NEW i \in DOMAIN r PROVE Len(q) + i \in DOMAIN c /\ c[Len(q) + i] = r[i]
    BY <1>1
  <1>4. ASSUME NEW i \in DOMAIN c
        PROVE  \/ i \in DOMAIN q /\ c[i] = q[i]
               \/ i - Len(q) \in DOMAIN r /\ c[i] = r[i - Len(q)]
    <2>1. CASE i \in 1 .. Len(q)
      BY <1>1, <2>1
    <2>2. CASE i \notin 1 .. Len(q)
      <3>1. i - Len(q) \in 1 .. Len(r) /\ Len(q) + (i - Len(q)) = i
        BY <1>1, <2>2
      <3>2. c[Len(q) + (i - Len(q))] = r[i - Len(q)]
        BY <1>1, <3>1
      <3>3. QED BY <1>1, <3>1, <3>2
    <2>3. QED BY <2>1, <2>2
  <1>5. Has(c, x) <=> (Has(q, x) \/ Has(r, x))
    BY <1>2, <1>3, <1>4 DEF Has
  <1>6. Tells(c, x) <=> (Tells(q, x) \/ Tells(r, x))
    BY <1>2, <1>3, <1>4 DEF Tells
  <1>7. QED BY <1>5, <1>6 DEF c

LEMMA AppendHas ==
  ASSUME NEW S, NEW q \in Seq(S), NEW y \in S, NEW x
  PROVE  /\ Has(Append(q, y), x) <=> (Has(q, x) \/ y = x)
         /\ Tells(Append(q, y), x) <=> (Tells(q, x) \/ y.type = x)
  <1> DEFINE c == Append(q, y)
  <1>1. /\ DOMAIN q = 1 .. Len(q) /\ Len(q) \in Nat
        /\ DOMAIN c = 1 .. Len(q) + 1
        /\ \A i \in 1 .. Len(q) : c[i] = q[i]
        /\ c[Len(q) + 1] = y
    BY AppendIn
  <1> HIDE DEF c
  <1>2. ASSUME NEW i \in DOMAIN c PROVE (i \in DOMAIN q /\ c[i] = q[i]) \/ c[i] = y
    BY <1>1
  <1>3. ASSUME NEW i \in DOMAIN q PROVE i \in DOMAIN c /\ c[i] = q[i]
    BY <1>1
  <1>4. Len(q) + 1 \in DOMAIN c
    BY <1>1
  <1>5. Has(c, x) <=> (Has(q, x) \/ y = x)
    BY <1>1, <1>2, <1>3, <1>4 DEF Has
  <1>6. Tells(c, x) <=> (Tells(q, x) \/ y.type = x)
    BY <1>1, <1>2, <1>3, <1>4 DEF Tells
  <1>7. QED BY <1>5, <1>6 DEF c

LEMMA TailHas ==
  ASSUME NEW S, NEW q \in Seq(S), q # << >>, NEW x
  PROVE  /\ Has(q, x) <=> (Head(q) = x \/ Has(Tail(q), x))
         /\ Tells(q, x) <=> (Head(q).type = x \/ Tells(Tail(q), x))
  <1> DEFINE t == Tail(q)
  <1>1. /\ Len(q) \in Nat \ {0} /\ DOMAIN q = 1 .. Len(q)
        /\ DOMAIN t = 1 .. Len(q) - 1
        /\ \A i \in DOMAIN t : t[i] = q[i + 1]
        /\ Head(q) = q[1]
    BY TailIn
  <1> HIDE DEF t
  <1>2. ASSUME NEW i \in DOMAIN q
        PROVE  q[i] = Head(q) \/ (i - 1 \in DOMAIN t /\ t[i - 1] = q[i])
    <2>1. CASE i = 1
      BY <1>1, <2>1
    <2>2. CASE i # 1
      <3>1. i - 1 \in DOMAIN t /\ (i - 1) + 1 = i
        BY <1>1, <2>2
      <3>2. t[i - 1] = q[(i - 1) + 1]
        BY <1>1, <3>1
      <3>3. QED BY <3>1, <3>2
    <2>3. QED BY <2>1, <2>2
  <1>3. ASSUME NEW i \in DOMAIN t PROVE i + 1 \in DOMAIN q /\ t[i] = q[i + 1]
    BY <1>1
  <1>4. 1 \in DOMAIN q
    BY <1>1
  <1>5. Has(q, x) <=> (Head(q) = x \/ Has(t, x))
    BY <1>1, <1>2, <1>3, <1>4 DEF Has
  <1>6. Tells(q, x) <=> (Head(q).type = x \/ Tells(t, x))
    BY <1>1, <1>2, <1>3, <1>4 DEF Tells
  <1>7. QED BY <1>5, <1>6 DEF t

LEMMA EmptyHas == \A x : ~Has(<< >>, x) /\ ~Tells(<< >>, x)
  BY DEF Has, Tells

\* What the end of a check tells
LEMMA CheckTells ==
  ASSUME NEW s \in State
  PROVE  ~Tells(EndOfCheck(s), "rejected") /\ ~Tells(EndOfCheck(s), "resumeData")
  <1>1. CASE s \in {"metadata", "checking"}
    BY <1>1, EmptyHas DEF EndOfCheck
  <1>2. CASE s = "downloading"
    BY <1>2 DEF EndOfCheck, Tells, Told
  <1>3. CASE s = "seeding"
    <2>1. EndOfCheck(s) = <<Told("checked"), Told("finished")>>
      BY <1>3 DEF EndOfCheck
    <2>2. QED BY <2>1 DEF Tells, Told
  <1>4. QED BY <1>1, <1>2, <1>3 DEF State

\* How the alerts that wait change, and the state, when a torrent is added
LEMMA NativeAddTells ==
  ASSUME NEW flags, NEW known \in BOOLEAN, NEW q \in Seq(Alert), NativeAdd(flags, known, q),
         flags.paused \in BOOLEAN, flags.auto \in BOOLEAN, flags.stop \in BOOLEAN
  PROVE  /\ Tells(q, "resumeData") <=> Tells(alerts', "resumeData")
         /\ ~known => (Tells(alerts', "rejected") => Tells(q, "rejected"))
         /\ ~known => native'.state = "metadata"
  <1>t. Told("rejected") \in Alert /\ Told("rejected").type = "rejected"
    BY AlertTypes DEF Told
  <1>1. CASE ~known
    <2>1. alerts' = q
      BY <1>1 DEF NativeAdd
    <2>2. native'.state = "metadata"
      <3> DEFINE n == [state |-> "metadata", paused |-> flags.paused, auto |-> flags.auto,
                       stop |-> flags.stop, error |-> FALSE]
      <3>1. n \in Native /\ n.state = "metadata"
        BY DEF Native
      <3>2. native' = StoppedIfReady(n)
        BY <1>1 DEF NativeAdd
      <3> HIDE DEF n
      <3>3. QED BY <3>1, <3>2, StoppedIs
    <2>3. QED BY <1>1, <2>1, <2>2
  <1>2. CASE known /\ \E s \in State : alerts' = q \o EndOfCheck(s)
    <2>1. PICK s \in State : alerts' = q \o EndOfCheck(s)
      BY <1>2
    <2>2. EndOfCheck(s) \in Seq(Alert)
      BY AlertTypes
    <2>3. QED BY <1>2, <2>1, <2>2, ConcatHas, CheckTells
  <1>3. CASE known /\ alerts' = Append(q, Told("rejected"))
    BY <1>3, <1>t, AppendHas
  <1>4. QED BY <1>1, <1>2, <1>3 DEF NativeAdd, State


-----------------------------------------------------------------------------
(* What is saved is what was wanted *)

\* The data are being saved, or their last state cannot be trusted.
Asked == Has(calls, "save") \/ Tells(alerts, "resumeData") \/ misled \/ unsaved

Match ==
    /\ Restored(saved).stopped = isStopped
    /\ isStopped \/ Restored(saved).mode = mode

LEMMA KeptParts == KeptAsWanted <=> (Asked \/ Match)
  BY DEF KeptAsWanted, Asked, Match, Has, Tells, Pending

LEMMA KeptInit == Init => KeptAsWanted
  <1> SUFFICES ASSUME Init PROVE Match
    BY KeptParts
  <1>1. saved.paused = isStopped /\ saved.auto = (~isStopped /\ mode = "auto") /\ ~saved.stop
    BY DEF Init, SavedWhen
  <1>2. isStopped \in BOOLEAN /\ mode \in {"auto", "forced"} /\ (isStopped => mode = "auto")
    BY DEF Init
  <1>3. QED
    BY <1>1, <1>2 DEF Match, Restored

\* The calls that a resume adds
LEMMA ResumeHas ==
  ASSUME NEW m, NEW e, isStopped PROVE Has(ResumeCalls(m, e), "save")
  <1> DEFINE a == IF e THEN <<"clearError">> ELSE << >>
             b == <<"runWhenReady", "save">>
             c == IF maintenance THEN << >>
                  ELSE IF m = "auto" THEN <<"auto">> ELSE <<"manual", "resume">>
  <1>1. a \in Seq(Call) /\ b \in Seq(Call) /\ c \in Seq(Call)
    <2>1. {"clearError", "runWhenReady", "save", "auto", "manual", "resume"} \subseteq Call
      BY DEF Call
    <2>2. /\ <<"clearError">> \in Seq(Call) /\ <<"runWhenReady", "save">> \in Seq(Call)
          /\ <<"auto">> \in Seq(Call) /\ <<"manual", "resume">> \in Seq(Call)
      BY <2>1, CallSequences
    <2>3. QED BY <2>2, CallSequences
  <1>2. Has(b, "save")
    BY DEF Has
  <1> HIDE DEF a, b, c
  <1>3. a \o b \in Seq(Call)
    BY <1>1, ConcatProperties
  <1>4. Has((a \o b) \o c, "save")
    BY <1>1, <1>2, <1>3, ConcatHas
  <1>5. QED BY <1>4 DEF ResumeCalls, a, b, c

LEMMA KeptByUser == ASSUME TypeOK, KeptAsWanted, User PROVE KeptAsWanted'
  <1>p. Booleans /\ Kept /\ NativeOK /\ CallsOK
    BY Parts
  <1>k. Asked \/ Match
    BY KeptParts
  <1> SUFFICES ASSUME ~Asked' PROVE Match'
    BY KeptParts, PTL
  <1>1. CASE Pause
    <2> DEFINE a == SaveIf(~isStopped)
               b == IF maintenance THEN << >> ELSE <<"manual", "pause">>
    <2>1. a \in Seq(Call) /\ b \in Seq(Call) /\ calls \in Seq(Call)
      <3>1. "manual" \in Call /\ "pause" \in Call
        BY DEF Call
      <3>2. <<"manual", "pause">> \in Seq(Call)
        BY <3>1, CallSequences
      <3>3. QED BY <3>2, <1>p, CallSequences DEF CallsOK
    <2>2. ~isStopped => Has(a, "save")
      BY DEF SaveIf, Has
    <2>3. calls' = (calls \o a) \o b
      BY <1>1 DEF Pause
    <2> HIDE DEF a, b
    <2>4. calls \o a \in Seq(Call)
      BY <2>1, ConcatProperties
    <2>5. Has(calls', "save") <=> (Has(calls, "save") \/ Has(a, "save") \/ Has(b, "save"))
      BY <2>1, <2>3, <2>4, ConcatHas
    <2>6. isStopped /\ ~Asked
      BY <1>1, <1>p, <2>2, <2>5 DEF Asked, Pause, Booleans
    <2>7. QED
      BY <1>1, <1>k, <2>6 DEF Match, Pause
  <1>2. ASSUME NEW m \in {"auto", "forced"}, Resume(m) PROVE Match'
    <2>1. PICK e \in BOOLEAN : calls' = calls \o ResumeCalls(m, e)
      BY <1>2 DEF Resume
    <2>2. ResumeCalls(m, e) \in Seq(Call) /\ calls \in Seq(Call)
      BY <1>p, CallSequences DEF CallsOK
    <2>3. Has(calls', "save") <=> (Has(calls, "save") \/ Has(ResumeCalls(m, e), "save"))
      BY <2>1, <2>2, ConcatHas
    <2>4. ~isStopped /\ ~Has(calls, "save")
      BY <2>3, ResumeHas DEF Asked
    <2>5. m = mode /\ ~unsaved
      BY <1>2, <2>4 DEF Asked, Resume
    <2>6. ~Asked
      BY <1>2, <2>4, <2>5 DEF Asked, Resume
    <2>7. QED
      BY <1>2, <1>k, <1>p, <2>4, <2>5, <2>6 DEF Match, Resume, Booleans
  <1>3. ASSUME NEW m \in {"auto", "forced"}, ResumeMissing(m) PROVE Match'
    BY <1>3 DEF ResumeMissing, Asked
  <1>4. CASE ForceRecheck
    <2>1. Has(calls', "save") <=> (Has(calls, "save") \/ Has(RecheckCalls, "save"))
      BY <1>4, <1>p, CallSequences, ConcatHas DEF ForceRecheck, CallsOK
    <2>2. QED
      BY <1>4, <1>k, <2>1 DEF Match, Asked, ForceRecheck
  <1>5. CASE GenerateResumeData
    <2>1. "save" \in Call
      BY DEF Call
    <2>2. Has(calls', "save")
      BY <1>5, <1>p, <2>1, AppendHas DEF GenerateResumeData, CallsOK
    <2>3. QED BY <2>2 DEF Asked
  <1>6. QED
    BY <1>1, <1>2, <1>3, <1>4, <1>5 DEF User

\* What is saved of a torrent that is not stopped behind its back restores it.
LEMMA SavedMatches ==
  ASSUME NEW flags \in Flags, isStopped \in BOOLEAN, mode \in {"auto", "forced"},
         isStopped \/ ~flags.stop
  PROVE  /\ Restored(SavedFlags(flags)).stopped = isStopped
         /\ isStopped \/ Restored(SavedFlags(flags)).mode = mode
  <1> DEFINE f == SavedFlags(flags)
  <1>1. CASE isStopped
    <2>1. f.paused /\ ~f.auto
      BY <1>1 DEF SavedFlags, Flags
    <2> HIDE DEF f
    <2>2. Restored(f).stopped = TRUE
      BY <2>1 DEF Restored
    <2>3. QED BY <1>1, <2>2 DEF f
  <1>2. CASE ~isStopped /\ mode = "auto"
    <2>1. f.auto = TRUE /\ ~f.stop
      BY <1>2 DEF SavedFlags, Flags
    <2> HIDE DEF f
    <2>2. Restored(f).stopped = FALSE /\ Restored(f).mode = "auto"
      BY <2>1 DEF Restored
    <2>3. QED BY <1>2, <2>2 DEF f
  <1>3. CASE ~isStopped /\ mode = "forced"
    <2>1. f.auto = FALSE /\ f.paused = FALSE /\ ~f.stop
      BY <1>3 DEF SavedFlags, Flags
    <2> HIDE DEF f
    <2>2. Restored(f).stopped = FALSE /\ Restored(f).mode = "forced"
      BY <2>1 DEF Restored
    <2>3. QED BY <1>3, <2>2 DEF f
  <1>4. QED BY <1>1, <1>2, <1>3

LEMMA KeptByAlerts == ASSUME TypeOK, KeptAsWanted, HandleAlert PROVE KeptAsWanted'
  <1>p. Booleans /\ Kept /\ NativeOK /\ CallsOK
    BY Parts
  <1>k. Asked \/ Match
    BY KeptParts
  <1>c. "save" \in Call
    BY DEF Call
  <1>q. alerts # << >> =>
           (Tells(alerts, "resumeData")
               <=> (Head(alerts).type = "resumeData" \/ Tells(Tail(alerts), "resumeData")))
    BY <1>p, TailHas DEF NativeOK
  <1> SUFFICES ASSUME ~Asked' PROVE Match'
    BY KeptParts, PTL
  <1>1. CASE HandleMetadataReceived
    <2>1. Has(calls', "save")
      BY <1>1, <1>p, <1>c, AppendHas DEF HandleMetadataReceived, CallsOK
    <2>2. QED BY <2>1 DEF Asked
  <1>2. CASE HandleSaveResumeData
    <2>1. Head(alerts).flags \in Flags
      BY <1>2, <1>p, TailIn DEF HandleSaveResumeData, Handles, Alert, NativeOK
    <2>2. isStopped \in BOOLEAN /\ mode \in {"auto", "forced"}
      BY <1>p DEF Booleans, Kept
    <2>3. isStopped \/ ~Head(alerts).flags.stop
      BY <1>2 DEF HandleSaveResumeData, Asked
    <2>4. QED
      BY <1>2, <2>1, <2>2, <2>3, SavedMatches DEF HandleSaveResumeData, Match
  <1>3. CASE HandleTorrentChecked
    <2>1. CASE hasMetadata
      <3>1. ResumeData(native) \in Alert /\ ResumeData(native).type = "resumeData"
        BY <1>p, AlertTypes DEF NativeOK, ResumeData
      <3>2. Tail(alerts) \in Seq(Alert)
        BY <1>3, <1>p, TailIn DEF HandleTorrentChecked, Handles, NativeOK
      <3>3. alerts' = Append(Tail(alerts), ResumeData(native))
        BY <1>3, <2>1 DEF HandleTorrentChecked
      <3>4. Tells(Append(Tail(alerts), ResumeData(native)), "resumeData")
        BY <3>1, <3>2, AppendHas
      <3>5. QED BY <3>3, <3>4 DEF Asked
    <2>2. CASE ~hasMetadata
      BY <1>3, <1>k, <1>q, <2>2 DEF HandleTorrentChecked, Handles, Asked, Match
    <2>3. QED BY <2>1, <2>2
  <1>4. CASE HandleTorrentFinished
    <2>1. calls = << >> \/ calls' = calls
      BY <1>4 DEF HandleTorrentFinished
    <2>2. ~Has(calls, "save")
      BY <2>1, EmptyHas DEF Asked
    <2>3. QED
      BY <1>4, <1>k, <1>q, <2>2 DEF HandleTorrentFinished, Handles, Asked, Match
  <1>5. CASE HandleFastResumeRejected
    BY <1>5, <1>k, <1>q DEF HandleFastResumeRejected, Handles, Asked, Match, history
  <1>6. QED
    BY <1>1, <1>2, <1>3, <1>4, <1>5 DEF HandleAlert


LEMMA KeptBySearch == ASSUME TypeOK, KeptAsWanted, FileSearchFinished PROVE KeptAsWanted'
  <1>k. Asked \/ Match
    BY KeptParts
  <1> SUFFICES ASSUME ~Asked' PROVE Match'
    BY KeptParts, PTL
  <1>1. /\ calls' = calls /\ misled' = misled /\ saved' = saved
        /\ isStopped' = isStopped /\ mode' = mode
        /\ unsaved' = (unsaved \/ (Pending("resumeData") /\ ~Pending("resumeData")'))
    BY DEF FileSearchFinished, Reload
  <1>2. ~Pending("resumeData")' /\ ~Pending("resumeData")
    <2>1. Pending("resumeData") <=> Tells(alerts, "resumeData")
      BY DEF Pending, Tells
    <2>2. Pending("resumeData")' <=> Tells(alerts', "resumeData")
      BY DEF Pending, Tells
    <2>3. ~Tells(alerts', "resumeData") /\ ~unsaved'
      BY DEF Asked
    <2>4. QED BY <1>1, <2>2, <2>3
  <1>3. ~Asked
    BY <1>1, <1>2 DEF Asked, Pending, Tells
  <1>4. QED
    BY <1>k, <1>1, <1>3 DEF Match

LEMMA KeptByLibtorrent == ASSUME TypeOK, KeptAsWanted, Libtorrent PROVE KeptAsWanted'
  <1>p. Booleans /\ Kept /\ NativeOK /\ CallsOK
    BY Parts
  <1>k. Asked \/ Match
    BY KeptParts
  <1>n. native \in Native /\ alerts \in Seq(Alert) /\ calls \in Seq(Call)
    BY <1>p DEF NativeOK, CallsOK
  <1> SUFFICES ASSUME ~Asked' PROVE Match'
    BY KeptParts, PTL
  <1>u. /\ UNCHANGED <<isStopped, mode, saved, misled, unsaved>>
        /\ NativeCall \/ calls' = calls
    BY DEF Libtorrent, NativeCall, NativeQueue, NativeMetadata, NativeChecked, NativeFinished,
           NativeError, torrent, history
  <1> SUFFICES ~Asked
    BY <1>k, <1>u DEF Match
  <1>1. CASE NativeCall
    <2>1. Head(calls) # "save"
      <3>1. SUFFICES ASSUME Head(calls) = "save" PROVE FALSE
        OBVIOUS
      <3>2. ResumeData(native) \in Alert /\ ResumeData(native).type = "resumeData"
        BY <1>n, AlertTypes DEF ResumeData
      <3>3. alerts' = Append(alerts, ResumeData(native))
        BY <1>1, <3>1 DEF NativeCall
      <3>4. Tells(Append(alerts, ResumeData(native)), "resumeData")
        BY <1>n, <3>2, AppendHas
      <3>5. QED BY <3>3, <3>4 DEF Asked
    <2>2. Has(calls, "save") <=> Has(Tail(calls), "save")
      BY <1>1, <1>n, <2>1, TailHas DEF NativeCall
    <2>3. calls' = Tail(calls) /\ alerts' = alerts
      BY <1>1, <2>1 DEF NativeCall
    <2>4. QED
      BY <1>u, <2>2, <2>3 DEF Asked
  <1>2. CASE NativeMetadata
    <2>1. PICK s \in State : alerts' = Append(alerts, Told("metadata")) \o EndOfCheck(s)
      BY <1>2 DEF NativeMetadata, State
    <2>2. Told("metadata") \in Alert /\ EndOfCheck(s) \in Seq(Alert)
      BY AlertTypes
    <2>3. Append(alerts, Told("metadata")) \in Seq(Alert)
      BY <1>n, <2>2, AppendProperties
    <2>4. Tells(alerts, "resumeData") => Tells(Append(alerts, Told("metadata")), "resumeData")
      BY <1>n, <2>2, AppendHas
    <2>5. Tells(alerts, "resumeData") => Tells(alerts', "resumeData")
      BY <2>1, <2>2, <2>3, <2>4, ConcatHas
    <2>6. calls' = calls
      BY <1>2 DEF NativeMetadata
    <2>7. QED BY <1>u, <2>5, <2>6 DEF Asked
  <1>3. CASE NativeChecked
    <2>1. PICK s \in State : alerts' = alerts \o EndOfCheck(s)
      BY <1>3 DEF NativeChecked, State
    <2>2. EndOfCheck(s) \in Seq(Alert)
      BY AlertTypes
    <2>3. Tells(alerts, "resumeData") => Tells(alerts', "resumeData")
      BY <1>n, <2>1, <2>2, ConcatHas
    <2>4. calls' = calls
      BY <1>3 DEF NativeChecked
    <2>5. QED BY <1>u, <2>3, <2>4 DEF Asked
  <1>4. CASE NativeFinished
    <2>1. Told("finished") \in Alert
      BY AlertTypes
    <2>2. Tells(alerts, "resumeData") => Tells(alerts', "resumeData")
      BY <1>4, <1>n, <2>1, AppendHas DEF NativeFinished
    <2>3. calls' = calls
      BY <1>4 DEF NativeFinished
    <2>4. QED BY <1>u, <2>2, <2>3 DEF Asked
  <1>5. CASE NativeQueue \/ NativeError
    <2>1. alerts' = alerts /\ calls' = calls
      BY <1>5 DEF NativeQueue, NativeError
    <2>2. QED BY <1>u, <2>1 DEF Asked
  <1>6. QED
    BY <1>1, <1>2, <1>3, <1>4, <1>5 DEF Libtorrent

LEMMA KeptByRestart == ASSUME TypeOK, Restart PROVE KeptAsWanted'
  <1> SUFFICES Match'
    BY KeptParts, PTL
  <1>1. /\ isStopped' = Restored(saved).stopped /\ mode' = Restored(saved).mode
        /\ saved' = saved
    BY DEF Restart
  <1>2. Restored(saved') = Restored(saved)
    BY <1>1
  <1>3. QED
    BY <1>1, <1>2 DEF Match

\* When no request for the resume data is under way, what they restore after a
\* restart is what was wanted: stopped, queued or forced.
THEOREM SavedIsWanted == Spec => []KeptAsWanted
  <1>1. ASSUME TypeOK, KeptAsWanted, [Next]_vars PROVE KeptAsWanted'
    <2>1. CASE UNCHANGED vars
      BY <1>1, <2>1 DEF KeptAsWanted, Pending, vars, torrent, history
    <2>2. QED
      BY <1>1, <2>1, KeptByUser, KeptByAlerts, KeptBySearch, KeptByLibtorrent, KeptByRestart
      DEF Next
  <1>2. QED
    BY <1>1, KeptInit, TypesHold, PTL DEF Spec

-----------------------------------------------------------------------------
(* Nothing is downloaded before the metadata are handled *)

\* A torrent whose metadata are there and not handled will be stopped, or it is.
Waits(n) ==
    IF n.state = "checking" THEN n.stop \/ (n.paused /\ ~n.auto) ELSE n.paused /\ ~n.auto

NotYet == Unaware /\ ~early => Waits(native)

\* Only a torrent whose metadata are known is not accepted by libtorrent.
RejectedIsKnown == missingFiles \/ Tells(alerts, "rejected") => hasMetadata

LEMMA NotYetInit == Init => NotYet /\ RejectedIsKnown
  <1> SUFFICES ASSUME Init PROVE NotYet /\ RejectedIsKnown
    OBVIOUS
  <1>1. PICK s \in State : /\ hasMetadata = (s # "metadata")
                           /\ native.state = s
                           /\ alerts = EndOfCheck(s)
    BY DEF Init, State
  <1>2. ~Unaware
    BY <1>1 DEF Unaware
  <1>3. ~Tells(alerts, "rejected") /\ ~missingFiles
    BY <1>1, CheckTells DEF Init
  <1>4. QED BY <1>2, <1>3 DEF NotYet, RejectedIsKnown

\* A call neither takes the metadata nor brings them.
LEMMA CalledState ==
  ASSUME NEW n \in Native, NEW call \in Call
  PROVE  Called(n, call).state = "metadata" <=> n.state = "metadata"
  <1> DEFINE a == [n EXCEPT !.auto = TRUE, !.stop = TRUE]
  <1>1. a \in Native /\ a.state = n.state
    BY DEF Native
  <1>2. StoppedIfReady(a).state = n.state /\ Paused(n).state = n.state
    BY <1>1, StoppedIs, PausedIs
  <1>3. /\ [n EXCEPT !.auto = TRUE].state = n.state
        /\ [n EXCEPT !.auto = FALSE].state = n.state
        /\ [n EXCEPT !.paused = FALSE].state = n.state
        /\ [n EXCEPT !.error = FALSE].state = n.state
        /\ [n EXCEPT !.stop = FALSE].state = n.state
        /\ [n EXCEPT !.state = "checking", !.error = FALSE].state = "checking"
    BY DEF Native
  <1>4. CASE call = "recheck"
    <2>1. Called(n, call) = IF n.state = "metadata" \/ Checks(n) THEN n
                            ELSE [n EXCEPT !.state = "checking", !.error = FALSE]
      BY <1>4 DEF Called
    <2>2. QED BY <2>1, <1>3
  <1>5. CASE call # "recheck"
    BY <1>2, <1>3, <1>5 DEF Called, Call
  <1>6. QED BY <1>4, <1>5

\* It runs a torrent that waits only if it says so.
LEMMA CalledWaits ==
  ASSUME NEW n \in Native, NEW call \in Call \ {"auto", "resume", "runWhenReady"}, Waits(n)
  PROVE  Waits(Called(n, call))
  <1> DEFINE c == Called(n, call)
  <1>1. CASE call = "manual"
    <2>1. c = [n EXCEPT !.auto = FALSE]
      BY <1>1 DEF Called
    <2>2. c.state = n.state /\ c.stop = n.stop /\ c.paused = n.paused /\ ~c.auto
      BY <2>1 DEF Native
    <2>3. QED BY <2>2 DEF Waits
  <1>2. CASE call = "pause"
    <2>1. c = Paused(n)
      BY <1>2 DEF Called
    <2>2. QED BY <2>1, PausedIs DEF Waits, Native
  <1>3. CASE call = "clearError"
    <2>1. c = [n EXCEPT !.error = FALSE]
      BY <1>3 DEF Called
    <2>2. c.state = n.state /\ c.stop = n.stop /\ c.paused = n.paused /\ c.auto = n.auto
      BY <2>1 DEF Native
    <2>3. QED BY <2>2 DEF Waits
  <1>4. CASE call = "recheck"
    <2>1. c = n \/ (c = [n EXCEPT !.state = "checking", !.error = FALSE] /\ n.state # "metadata")
      BY <1>4 DEF Called
    <2>2. \/ c = n
          \/ /\ c.state = "checking" /\ c.stop = n.stop /\ c.paused = n.paused
             /\ c.auto = n.auto /\ n.state # "metadata"
      BY <2>1 DEF Native
    <2>3. QED BY <2>2 DEF Waits
  <1>5. CASE call = "stopWhenReady"
    <2> DEFINE a == [n EXCEPT !.auto = TRUE, !.stop = TRUE]
    <2>1. c = StoppedIfReady(a)
      BY <1>5 DEF Called
    <2>2. a \in Native /\ a.state = n.state /\ a.stop
      BY DEF Native
    <2> HIDE DEF a
    <2>3. QED BY <2>1, <2>2, StoppedIs DEF Waits
  <1>6. CASE call = "save"
    <2>1. c = n
      BY <1>6 DEF Called
    <2>2. QED BY <2>1
  <1>7. QED
    BY <1>1, <1>2, <1>3, <1>4, <1>5, <1>6 DEF Call

LEMMA NotYetByLibtorrent ==
  ASSUME TypeOK, NotYet, RejectedIsKnown, Libtorrent
  PROVE  NotYet' /\ RejectedIsKnown'
  <1>p. Booleans /\ Kept /\ NativeOK /\ CallsOK
    BY Parts
  <1>n. native \in Native /\ alerts \in Seq(Alert) /\ calls \in Seq(Call)
    BY <1>p DEF NativeOK, CallsOK
  <1>u. UNCHANGED <<hasMetadata, missingFiles>> /\ (NativeCall \/ early' = early)
    BY DEF Libtorrent, NativeCall, NativeQueue, NativeMetadata, NativeChecked, NativeFinished,
           NativeError, torrent, history
  <1>w. \/ ~Unaware \/ early \/ Waits(native)
    BY DEF NotYet
  <1>1. CASE NativeCall
    <2>1. Head(calls) \in Call /\ native' = Called(native, Head(calls))
      BY <1>1, <1>n, TailIn DEF NativeCall
    <2>2. NotYet'
      <3>1. SUFFICES ASSUME Unaware', ~early' PROVE Waits(native')
        BY DEF NotYet
      <3>2. native.state # "metadata"
        BY <2>1, <1>n, <3>1, CalledState DEF Unaware
      <3>3. Unaware
        BY <1>u, <3>1, <3>2 DEF Unaware
      <3>4. ~early /\ Head(calls) \notin {"auto", "resume", "runWhenReady"}
        BY <1>1, <3>1, <3>3 DEF NativeCall
      <3>5. QED BY <1>n, <1>w, <2>1, <3>3, <3>4, CalledWaits
    <2>3. Tells(alerts', "rejected") => Tells(alerts, "rejected")
      <3>1. ResumeData(native) \in Alert /\ ResumeData(native).type # "rejected"
        BY <1>n, AlertTypes DEF ResumeData
      <3>2. alerts' = alerts \/ alerts' = Append(alerts, ResumeData(native))
        BY <1>1 DEF NativeCall
      <3>3. Tells(Append(alerts, ResumeData(native)), "rejected") => Tells(alerts, "rejected")
        BY <1>n, <3>1, AppendHas
      <3>4. QED BY <3>2, <3>3
    <2>4. QED BY <1>u, <2>2, <2>3 DEF RejectedIsKnown
  <1>2. CASE NativeQueue
    <2>1. NotYet'
      <3>1. CASE native.paused
        <4>1. /\ native'.state = native.state /\ native'.stop = native.stop
              /\ native'.auto = native.auto
          BY <1>2, <1>n, <3>1 DEF NativeQueue, Native
        <4>2. QED BY <1>2, <1>u, <1>w, <1>1, <4>1 DEF NotYet, Unaware, Waits, NativeQueue, history
      <3>2. CASE ~native.paused
        <4>1. native' = Paused(native) /\ early' = early /\ native.auto
          BY <1>2, <3>2 DEF NativeQueue, history
        <4>2. QED BY <1>n, <1>u, <1>w, <3>2, <4>1, PausedIs DEF NotYet, Unaware, Waits
      <3>3. QED BY <3>1, <3>2
    <2>2. QED BY <1>2, <1>u, <2>1 DEF RejectedIsKnown, NativeQueue
  <1>3. CASE NativeMetadata
    <2>1. PICK s \in State \ {"metadata"} :
             /\ native' = StoppedIfReady(OnState([native EXCEPT !.state = s]))
             /\ alerts' = Append(alerts, Told("metadata")) \o EndOfCheck(s)
      BY <1>3 DEF NativeMetadata, State
    <2> DEFINE a == OnState([native EXCEPT !.state = s])
    <2>2. a \in Native /\ a.state = s /\ a.stop
      BY <1>n DEF OnState, Native, State
    <2> HIDE DEF a
    <2>3. native' = StoppedIfReady(a)
      BY <2>1 DEF a
    <2>4. Waits(native')
      BY <2>2, <2>3, StoppedIs DEF Waits
    <2>5. Told("metadata") \in Alert /\ Told("metadata").type # "rejected"
      BY AlertTypes DEF Told
    <2>6. EndOfCheck(s) \in Seq(Alert) /\ Append(alerts, Told("metadata")) \in Seq(Alert)
      BY <1>n, <2>5, AlertTypes, AppendProperties
    <2>7. Tells(Append(alerts, Told("metadata")), "rejected") => Tells(alerts, "rejected")
      BY <1>n, <2>5, AppendHas
    <2>8. Tells(alerts', "rejected") => Tells(alerts, "rejected")
      BY <2>1, <2>6, <2>7, ConcatHas, CheckTells
    <2>9. QED BY <1>u, <2>4, <2>8 DEF NotYet, RejectedIsKnown
  <1>4. CASE NativeChecked
    <2>1. PICK s \in {"downloading", "seeding"} :
             /\ native' = StoppedIfReady([native EXCEPT !.state = s])
             /\ alerts' = alerts \o EndOfCheck(s)
      BY <1>4 DEF NativeChecked
    <2> DEFINE a == [native EXCEPT !.state = s]
    <2>2. a \in Native /\ a.state = s /\ a.stop = native.stop
      BY <1>n DEF Native
    <2>3. native.state = "checking" /\ ~native.paused
      BY <1>4 DEF NativeChecked, Checks
    <2> HIDE DEF a
    <2>4. native' = StoppedIfReady(a)
      BY <2>1 DEF a
    <2>5. NotYet'
      <3>1. CASE native.stop
        BY <2>2, <2>4, <3>1, StoppedIs DEF NotYet, Waits
      <3>2. CASE ~native.stop
        <4>1. early' = early
          BY <1>4 DEF NativeChecked, history
        <4>2. ~Waits(native)
          BY <2>3, <3>2 DEF Waits
        <4>3. QED BY <1>u, <1>w, <2>3, <4>1, <4>2 DEF NotYet, Unaware
      <3>3. QED BY <1>p, <3>1, <3>2 DEF NativeOK, Native
    <2>6. s \in State
      BY DEF State
    <2>7. Tells(alerts', "rejected") => Tells(alerts, "rejected")
      BY <1>n, <2>1, <2>6, AlertTypes, ConcatHas, CheckTells
    <2>8. QED BY <1>u, <2>5, <2>7 DEF RejectedIsKnown
  <1>5. CASE NativeFinished
    <2>1. native.state = "downloading" /\ ~native.paused /\ early' = early
      BY <1>5 DEF NativeFinished, history
    <2>2. ~Waits(native)
      BY <2>1 DEF Waits
    <2>3. NotYet'
      BY <1>u, <1>w, <2>1, <2>2 DEF NotYet, Unaware
    <2>4. Told("finished") \in Alert /\ Told("finished").type # "rejected"
      BY AlertTypes DEF Told
    <2>5. Tells(alerts', "rejected") => Tells(alerts, "rejected")
      BY <1>5, <1>n, <2>4, AppendHas DEF NativeFinished
    <2>6. QED BY <1>u, <2>3, <2>5 DEF RejectedIsKnown
  <1>6. CASE NativeError
    <2> DEFINE a == [native EXCEPT !.error = TRUE]
    <2>1. /\ a \in Native /\ a.state = native.state /\ a.stop = native.stop
          /\ a.paused = native.paused /\ a.auto = native.auto
      BY <1>n DEF Native
    <2>2. native' = Paused(a) /\ alerts' = alerts /\ early' = early /\ ~native.paused
      BY <1>6 DEF NativeError
    <2> HIDE DEF a
    <2>3. NotYet'
      BY <1>n, <1>u, <1>w, <2>1, <2>2, PausedIs DEF NotYet, Unaware, Waits
    <2>4. QED BY <1>u, <2>2, <2>3 DEF RejectedIsKnown
  <1>7. QED
    BY <1>1, <1>2, <1>3, <1>4, <1>5, <1>6 DEF Libtorrent


LEMMA NotYetByUser ==
  ASSUME TypeOK, NotYet, RejectedIsKnown, User
  PROVE  NotYet' /\ RejectedIsKnown'
  <1>1. CASE \E m \in {"auto", "forced"} : ResumeMissing(m)
    <2>1. hasMetadata' /\ hasMetadata
      BY <1>1 DEF ResumeMissing, RejectedIsKnown
    <2>2. QED BY <2>1 DEF NotYet, RejectedIsKnown, Unaware
  <1>2. CASE ~(\E m \in {"auto", "forced"} : ResumeMissing(m))
    <2>1. /\ native' = native /\ hasMetadata' = hasMetadata /\ early' = early
          /\ alerts' = alerts /\ (missingFiles' => missingFiles)
      BY <1>2 DEF User, Pause, Resume, ForceRecheck, GenerateResumeData, torrent
    <2>2. QED BY <2>1 DEF NotYet, RejectedIsKnown, Unaware
  <1>3. QED BY <1>1, <1>2

LEMMA NotYetByAlerts ==
  ASSUME TypeOK, NotYet, RejectedIsKnown, HandleAlert
  PROVE  NotYet' /\ RejectedIsKnown'
  <1>p. NativeOK
    BY Parts
  <1>u. native' = native /\ hasMetadata' = hasMetadata /\ early' = early /\ alerts # << >>
    BY DEF HandleAlert, HandleMetadataReceived, HandleSaveResumeData, HandleTorrentChecked,
           HandleTorrentFinished, HandleFastResumeRejected, history, Handles
  <1>1. NotYet'
    BY <1>u DEF NotYet, Unaware
  <1>2. Tells(Tail(alerts), "rejected") => Tells(alerts, "rejected")
    BY <1>p, <1>u, TailHas DEF NativeOK
  <1>3. Tells(alerts', "rejected") => Tells(alerts, "rejected")
    <2>1. CASE alerts' = Tail(alerts)
      BY <1>2, <2>1
    <2>2. CASE alerts' = Append(Tail(alerts), ResumeData(native))
      <3>1. ResumeData(native) \in Alert /\ ResumeData(native).type # "rejected"
        BY <1>p, AlertTypes DEF ResumeData, NativeOK
      <3>2. Tail(alerts) \in Seq(Alert)
        BY <1>p, <1>u, TailIn DEF NativeOK
      <3>3. Tells(Append(Tail(alerts), ResumeData(native)), "rejected")
               => Tells(Tail(alerts), "rejected")
        BY <3>1, <3>2, AppendHas
      <3>4. QED BY <1>2, <2>2, <3>3
    <2>3. QED
      BY <2>1, <2>2
      DEF HandleAlert, HandleMetadataReceived, HandleSaveResumeData, HandleTorrentChecked,
          HandleTorrentFinished, HandleFastResumeRejected
  <1>4. missingFiles' => missingFiles \/ Tells(alerts, "rejected")
    <2>1. CASE HandleFastResumeRejected
      BY <1>p, <1>u, <2>1, TailHas DEF HandleFastResumeRejected, Handles, NativeOK
    <2>2. CASE ~HandleFastResumeRejected
      BY <2>2 DEF HandleAlert, HandleMetadataReceived, HandleSaveResumeData,
                  HandleTorrentChecked, HandleTorrentFinished
    <2>3. QED BY <2>1, <2>2
  <1>5. QED
    BY <1>u, <1>1, <1>3, <1>4 DEF RejectedIsKnown

LEMMA NotYetByRestart ==
  ASSUME TypeOK, Restart
  PROVE  NotYet' /\ RejectedIsKnown'
  <1>p. Booleans /\ Kept
    BY Parts
  <1> DEFINE flags == RestoredFlags(saved)
  <1>1. flags \in Flags /\ saved.known \in BOOLEAN
    BY <1>p DEF Kept, RestoredFlags, Flags
  <1>2. flags.paused \in BOOLEAN /\ flags.auto \in BOOLEAN /\ flags.stop \in BOOLEAN
    BY <1>1 DEF Flags
  <1>3. PICK known \in {hasMetadata, hasMetadata \/ saved.known} :
           hasMetadata' = known /\ NativeAdd(flags, known, << >>)
    BY DEF Restart
  <1>4. known \in BOOLEAN /\ << >> \in Seq(Alert)
    BY <1>1, <1>p DEF Booleans
  <1> HIDE DEF flags
  <1>5. ~known => native'.state = "metadata" /\ ~Tells(alerts', "rejected")
    BY <1>2, <1>3, <1>4, NativeAddTells, EmptyHas
  <1>6. ~missingFiles'
    BY DEF Restart
  <1>7. QED
    BY <1>3, <1>5, <1>6 DEF NotYet, RejectedIsKnown, Unaware

\* Before the metadata are handled the torrent waits, or it was told to run; and
\* only a torrent whose metadata are known misses files.
THEOREM KnownAlways == Spec => [](NotYet /\ RejectedIsKnown)
  <1>1. ASSUME TypeOK, NotYet, RejectedIsKnown, [Next]_vars PROVE NotYet' /\ RejectedIsKnown'
    <2>1. CASE UNCHANGED vars
      BY <1>1, <2>1 DEF NotYet, RejectedIsKnown, Unaware, vars, torrent, history
    <2>2. CASE FileSearchFinished
      BY <2>2 DEF FileSearchFinished, NotYet, RejectedIsKnown, Unaware
    <2>3. QED
      BY <1>1, <2>1, <2>2, NotYetByUser, NotYetByAlerts, NotYetByLibtorrent, NotYetByRestart
      DEF Next
  <1>2. QED
    BY <1>1, NotYetInit, TypesHold, PTL DEF Spec

\* Nothing is downloaded between the arrival of the metadata and the search for the
\* files that are there already, however libtorrent's thread and the main thread
\* interleave, unless libtorrent was told meanwhile to run the torrent, or not to
\* stop it (early).
THEOREM NothingIsDownloadedEarly == Spec => []DownloadsAfterReload
  <1>1. NotYet => DownloadsAfterReload
    BY DEF NotYet, Waits, DownloadsAfterReload
  <1>2. QED
    BY <1>1, KnownAlways, PTL

-----------------------------------------------------------------------------
(* The end of the maintenance is to come *)

\* A search is under way, or answers that start one are.
Coming == searches > 0 \/ Tells(alerts, "resumeData") \/ Has(calls, "save")

\* The arrival of the metadata has been handled, before this run or in it.
Handled == maintenance \/ hasMetadata

\* That the metadata arrived is told once.
ToldOnce(q) ==
    \A i, j \in DOMAIN q : q[i].type = "metadata" /\ q[j].type = "metadata" => i = j

Arrival ==
    /\ Handled => ~Tells(alerts, "metadata") /\ native.state # "metadata"
    /\ native.state = "metadata" => ~Tells(alerts, "metadata")
    /\ ToldOnce(alerts)

SearchFollows ==
    /\ maintenance => ~hasMetadata /\ Coming
    /\ searches > 0 => Handled
    /\ Arrival

LEMMA NotToldOnce == ASSUME NEW q, ~Tells(q, "metadata") PROVE ToldOnce(q)
  BY DEF ToldOnce, Tells

LEMMA ToldLast ==
  ASSUME NEW q \in Seq(Alert), NEW y \in Alert, ~Tells(q, "metadata")
  PROVE  ToldOnce(Append(q, y))
  <1> DEFINE c == Append(q, y)
  <1>1. /\ DOMAIN q = 1 .. Len(q) /\ Len(q) \in Nat /\ DOMAIN c = 1 .. Len(q) + 1
        /\ \A i \in 1 .. Len(q) : c[i] = q[i]
    BY AppendIn
  <1> HIDE DEF c
  <1>2. ASSUME NEW i \in DOMAIN c, c[i].type = "metadata" PROVE i = Len(q) + 1
    BY <1>1, <1>2 DEF Tells
  <1>3. ToldOnce(c)
    BY <1>2 DEF ToldOnce
  <1>4. QED BY <1>3 DEF c

LEMMA ToldOnceAppend ==
  ASSUME NEW q \in Seq(Alert), NEW y \in Alert, ToldOnce(q), y.type # "metadata"
  PROVE  ToldOnce(Append(q, y))
  <1> DEFINE c == Append(q, y)
  <1>1. /\ DOMAIN q = 1 .. Len(q) /\ Len(q) \in Nat /\ DOMAIN c = 1 .. Len(q) + 1
        /\ \A i \in 1 .. Len(q) : c[i] = q[i]
        /\ c[Len(q) + 1] = y
    BY AppendIn
  <1> HIDE DEF c
  <1>2. ASSUME NEW i \in DOMAIN c, c[i].type = "metadata"
        PROVE  i \in DOMAIN q /\ q[i].type = "metadata"
    BY <1>1, <1>2
  <1>3. ToldOnce(c)
    BY <1>2 DEF ToldOnce
  <1>4. QED BY <1>3 DEF c

LEMMA ToldOnceConcat ==
  ASSUME NEW q \in Seq(Alert), NEW r \in Seq(Alert), ToldOnce(q), ~Tells(r, "metadata")
  PROVE  ToldOnce(q \o r)
  <1> DEFINE c == q \o r
  <1>1. /\ DOMAIN q = 1 .. Len(q) /\ DOMAIN r = 1 .. Len(r)
        /\ Len(q) \in Nat /\ Len(r) \in Nat
        /\ DOMAIN c = 1 .. Len(q) + Len(r)
        /\ \A i \in 1 .. Len(q) : c[i] = q[i]
        /\ \A i \in 1 .. Len(r) : c[Len(q) + i] = r[i]
    BY ConcatIn
  <1> HIDE DEF c
  <1>2. ASSUME NEW i \in DOMAIN c, c[i].type = "metadata"
        PROVE  i \in DOMAIN q /\ q[i].type = "metadata"
    <2>1. CASE i \in 1 .. Len(q)
      BY <1>1, <1>2, <2>1
    <2>2. CASE i \notin 1 .. Len(q)
      <3>1. i - Len(q) \in 1 .. Len(r) /\ Len(q) + (i - Len(q)) = i
        BY <1>1, <2>2
      <3>2. c[Len(q) + (i - Len(q))] = r[i - Len(q)]
        BY <1>1, <3>1
      <3>3. QED BY <1>1, <1>2, <3>1, <3>2 DEF Tells
    <2>3. QED BY <2>1, <2>2
  <1>3. ToldOnce(c)
    BY <1>2 DEF ToldOnce
  <1>4. QED BY <1>3 DEF c

LEMMA ToldOnceTail ==
  ASSUME NEW q \in Seq(Alert), q # << >>, ToldOnce(q)
  PROVE  ToldOnce(Tail(q)) /\ (Head(q).type = "metadata" => ~Tells(Tail(q), "metadata"))
  <1> DEFINE t == Tail(q)
  <1>1. /\ Len(q) \in Nat \ {0} /\ DOMAIN q = 1 .. Len(q)
        /\ DOMAIN t = 1 .. Len(q) - 1
        /\ \A i \in DOMAIN t : t[i] = q[i + 1]
        /\ Head(q) = q[1]
    BY TailIn
  <1> HIDE DEF t
  <1>2. ASSUME NEW i \in DOMAIN t PROVE i + 1 \in DOMAIN q /\ t[i] = q[i + 1] /\ i \in Nat /\ i # 0
    BY <1>1
  <1>3. ToldOnce(t)
    <2>1. SUFFICES ASSUME NEW i \in DOMAIN t, NEW j \in DOMAIN t,
                          t[i].type = "metadata", t[j].type = "metadata"
                   PROVE  i = j
      BY DEF ToldOnce
    <2>2. i + 1 = j + 1
      BY <1>2, <2>1 DEF ToldOnce
    <2>3. QED BY <1>2, <2>2
  <1>4. ASSUME Head(q).type = "metadata", NEW i \in DOMAIN t, t[i].type = "metadata" PROVE FALSE
    <2>1. 1 \in DOMAIN q /\ q[1].type = "metadata"
      BY <1>1, <1>4
    <2>2. i + 1 = 1
      BY <1>2, <1>4, <2>1 DEF ToldOnce
    <2>3. QED BY <1>2, <2>2
  <1>5. QED BY <1>3, <1>4 DEF t, Tells

LEMMA CheckDoesNotTell ==
  ASSUME NEW s \in State PROVE ~Tells(EndOfCheck(s), "metadata")
  <1>1. CASE s \in {"metadata", "checking"}
    BY <1>1, EmptyHas DEF EndOfCheck
  <1>2. CASE s = "downloading"
    BY <1>2 DEF EndOfCheck, Tells, Told
  <1>3. CASE s = "seeding"
    <2>1. EndOfCheck(s) = <<Told("checked"), Told("finished")>>
      BY <1>3 DEF EndOfCheck
    <2>2. QED BY <2>1 DEF Tells, Told
  <1>4. QED BY <1>1, <1>2, <1>3 DEF State

\* A torrent that is added does not tell of its metadata.
LEMMA NativeAddArrival ==
  ASSUME NEW flags, NEW known \in BOOLEAN, NEW q \in Seq(Alert), NativeAdd(flags, known, q),
         flags.paused \in BOOLEAN, flags.auto \in BOOLEAN, flags.stop \in BOOLEAN,
         ~Tells(q, "metadata")
  PROVE  ~Tells(alerts', "metadata") /\ (known => native'.state # "metadata")
  <1>1. CASE ~known
    BY <1>1 DEF NativeAdd
  <1>2. CASE known /\ \E s \in State \ {"metadata"} :
                /\ native' = StoppedIfReady([state |-> s, paused |-> flags.paused,
                                 auto |-> flags.auto, stop |-> flags.stop, error |-> FALSE])
                /\ alerts' = q \o EndOfCheck(s)
    <2>1. PICK s \in State \ {"metadata"} :
             /\ native' = StoppedIfReady([state |-> s, paused |-> flags.paused,
                              auto |-> flags.auto, stop |-> flags.stop, error |-> FALSE])
             /\ alerts' = q \o EndOfCheck(s)
      BY <1>2
    <2> DEFINE n == [state |-> s, paused |-> flags.paused, auto |-> flags.auto,
                     stop |-> flags.stop, error |-> FALSE]
    <2>2. n \in Native /\ n.state = s
      BY DEF Native, State
    <2>3. native' = StoppedIfReady(n)
      BY <2>1
    <2> HIDE DEF n
    <2>4. native'.state # "metadata"
      BY <2>2, <2>3, StoppedIs
    <2>5. EndOfCheck(s) \in Seq(Alert)
      BY AlertTypes
    <2>6. ~Tells(q \o EndOfCheck(s), "metadata")
      BY <2>5, ConcatHas, CheckDoesNotTell
    <2>7. QED BY <2>1, <2>4, <2>6
  <1>3. CASE /\ known
             /\ native' = Paused([[state |-> "checking", paused |-> flags.paused,
                              auto |-> flags.auto, stop |-> flags.stop, error |-> FALSE]
                                     EXCEPT !.auto = FALSE])
             /\ alerts' = Append(q, Told("rejected"))
    <2> DEFINE n == [[state |-> "checking", paused |-> flags.paused, auto |-> flags.auto,
                      stop |-> flags.stop, error |-> FALSE] EXCEPT !.auto = FALSE]
    <2>1. n \in Native /\ n.state = "checking"
      BY DEF Native
    <2>2. native' = Paused(n)
      BY <1>3
    <2> HIDE DEF n
    <2>3. native'.state # "metadata"
      BY <2>1, <2>2, PausedIs
    <2>4. Told("rejected") \in Alert /\ Told("rejected").type # "metadata"
      BY AlertTypes DEF Told
    <2>5. ~Tells(Append(q, Told("rejected")), "metadata")
      BY <2>4, AppendHas
    <2>6. QED BY <1>3, <2>3, <2>5
  <1>4. QED BY <1>1, <1>2, <1>3 DEF NativeAdd, State

LEMMA SearchInit == Init => SearchFollows
  <1> SUFFICES ASSUME Init PROVE SearchFollows
    OBVIOUS
  <1>1. PICK s \in State : /\ hasMetadata = (s # "metadata")
                           /\ native.state = s
                           /\ alerts = EndOfCheck(s)
    BY DEF Init, State
  <1>2. maintenance = FALSE /\ searches = 0
    BY DEF Init
  <1>3. ~Tells(alerts, "metadata")
    BY <1>1, CheckDoesNotTell
  <1>4. Arrival
    BY <1>1, <1>2, <1>3, NotToldOnce DEF Arrival, Handled
  <1>5. QED BY <1>2, <1>4 DEF SearchFollows

LEMMA SearchByUser ==
  ASSUME TypeOK, RejectedIsKnown, SearchFollows, User PROVE SearchFollows'
  <1>p. Booleans /\ Numbers /\ Kept /\ NativeOK /\ CallsOK
    BY Parts
  <1>1. CASE \E m \in {"auto", "forced"} : ResumeMissing(m)
    <2>1. PICK m \in {"auto", "forced"} : ResumeMissing(m)
      BY <1>1
    <2>2. /\ hasMetadata' = hasMetadata /\ maintenance' = maintenance /\ searches' = searches
          /\ missingFiles /\ Reload(FALSE, m)
      BY <2>1 DEF ResumeMissing
    <2>3. hasMetadata /\ ~maintenance
      BY <2>2, <1>p DEF RejectedIsKnown, SearchFollows, Booleans
    <2>4. ~Tells(alerts, "metadata") /\ ~Tells(<< >>, "metadata")
      BY <2>3, EmptyHas DEF SearchFollows, Arrival, Handled
    <2>5. PICK old \in {<< >>, alerts} : NativeAdd(ReloadFlags(FALSE, m), TRUE, old)
      BY <2>2 DEF Reload
    <2>e. << >> \in Seq(Alert) /\ alerts \in Seq(Alert)
      BY <1>p DEF NativeOK
    <2>6. old \in Seq(Alert) /\ ~Tells(old, "metadata")
      <3>1. CASE old = << >>
        BY <2>4, <2>e, <3>1
      <3>2. CASE old = alerts
        BY <2>4, <2>e, <3>2
      <3>3. QED BY <2>5, <3>1, <3>2
    <2> DEFINE flags == ReloadFlags(FALSE, m)
    <2>7. flags.paused \in BOOLEAN /\ flags.auto \in BOOLEAN /\ flags.stop \in BOOLEAN
      BY <1>p DEF ReloadFlags, Kept, Flags
    <2>8. NativeAdd(flags, TRUE, old)
      BY <2>5
    <2> HIDE DEF flags
    <2>9. ~Tells(alerts', "metadata") /\ native'.state # "metadata"
      BY <2>6, <2>7, <2>8, NativeAddArrival
    <2>10. Arrival'
      BY <2>9, NotToldOnce DEF Arrival, ToldOnce, Tells
    <2>11. QED BY <2>2, <2>3, <2>10 DEF SearchFollows, Handled
  <1>2. CASE ~(\E m \in {"auto", "forced"} : ResumeMissing(m))
    <2>1. /\ native' = native /\ hasMetadata' = hasMetadata /\ maintenance' = maintenance
          /\ alerts' = alerts /\ searches' = searches
      BY <1>2 DEF User, Pause, Resume, ForceRecheck, GenerateResumeData, torrent
    <2>2. ASSUME NEW r \in Seq(Call), calls' = calls \o r
          PROVE  Has(calls, "save") => Has(calls', "save")
      BY <1>p, <2>2, ConcatHas DEF CallsOK
    <2>3. Has(calls, "save") => Has(calls', "save")
      <3>1. CASE Pause
        <4> DEFINE a == SaveIf(~isStopped)
                   b == IF maintenance THEN << >> ELSE <<"manual", "pause">>
        <4>1. a \in Seq(Call) /\ b \in Seq(Call) /\ calls \in Seq(Call)
          <5>1. "manual" \in Call /\ "pause" \in Call
            BY DEF Call
          <5>2. <<"manual", "pause">> \in Seq(Call)
            BY <5>1, CallSequences
          <5>3. QED BY <5>2, <1>p, CallSequences DEF CallsOK
        <4>2. calls' = (calls \o a) \o b
          BY <3>1 DEF Pause
        <4> HIDE DEF a, b
        <4>3. calls \o a \in Seq(Call)
          BY <4>1, ConcatProperties
        <4>4. QED BY <4>1, <4>2, <4>3, ConcatHas
      <3>2. ASSUME NEW m \in {"auto", "forced"}, Resume(m)
            PROVE  Has(calls, "save") => Has(calls', "save")
        <4>1. PICK e \in BOOLEAN : calls' = calls \o ResumeCalls(m, e)
          BY <3>2 DEF Resume
        <4>2. ResumeCalls(m, e) \in Seq(Call)
          BY CallSequences
        <4>3. QED BY <2>2, <4>1, <4>2
      <3>3. CASE ForceRecheck
        <4>1. calls' = calls \o RecheckCalls /\ RecheckCalls \in Seq(Call)
          BY <3>3, CallSequences DEF ForceRecheck
        <4>2. QED BY <2>2, <4>1
      <3>4. CASE GenerateResumeData
        <4>1. "save" \in Call
          BY DEF Call
        <4>2. QED BY <3>4, <1>p, <4>1, AppendHas DEF GenerateResumeData, CallsOK
      <3>5. QED BY <1>2, <3>1, <3>2, <3>3, <3>4 DEF User
    <2>4. Arrival'
      BY <2>1 DEF SearchFollows, Arrival, Handled
    <2>5. Coming => Coming'
      BY <2>1, <2>3 DEF Coming
    <2>6. QED BY <2>1, <2>4, <2>5 DEF SearchFollows, Handled
  <1>3. QED BY <1>1, <1>2

LEMMA SearchByAlerts ==
  ASSUME TypeOK, SearchFollows, HandleAlert PROVE SearchFollows'
  <1>p. Booleans /\ Numbers /\ Kept /\ NativeOK /\ CallsOK
    BY Parts
  <1>u. native' = native /\ hasMetadata' = hasMetadata /\ alerts # << >>
    BY DEF HandleAlert, HandleMetadataReceived, HandleSaveResumeData, HandleTorrentChecked,
           HandleTorrentFinished, HandleFastResumeRejected, history, Handles
  <1>t. /\ alerts \in Seq(Alert) /\ Tail(alerts) \in Seq(Alert) /\ Head(alerts) \in Alert
        /\ ToldOnce(Tail(alerts))
        /\ Head(alerts).type = "metadata" => ~Tells(Tail(alerts), "metadata")
    BY <1>p, <1>u, TailIn, ToldOnceTail DEF NativeOK, SearchFollows, Arrival
  <1>m. Tells(alerts, "metadata")
            <=> (Head(alerts).type = "metadata" \/ Tells(Tail(alerts), "metadata"))
    BY <1>t, <1>u, TailHas
  <1>r. Tells(alerts, "resumeData")
            <=> (Head(alerts).type = "resumeData" \/ Tells(Tail(alerts), "resumeData"))
    BY <1>t, <1>u, TailHas
  <1>1. CASE HandleMetadataReceived
    <2>1. /\ Head(alerts).type = "metadata" /\ maintenance' = TRUE
          /\ calls' = Append(calls, "save") /\ alerts' = Tail(alerts) /\ searches' = searches
      BY <1>1 DEF HandleMetadataReceived, Handles
    <2>2. ~Handled /\ native.state # "metadata"
      BY <1>m, <2>1 DEF SearchFollows, Arrival
    <2>3. Has(Append(calls, "save"), "save")
      <3>1. "save" \in Call
        BY DEF Call
      <3>2. QED BY <1>p, <3>1, AppendHas DEF CallsOK
    <2>4. Coming'
      BY <2>1, <2>3 DEF Coming
    <2>5. Arrival'
      BY <1>t, <1>u, <2>1, <2>2 DEF Arrival
    <2>6. QED BY <1>u, <2>1, <2>2, <2>4, <2>5 DEF SearchFollows, Handled
  <1>2. CASE HandleSaveResumeData
    <2>1. /\ alerts' = Tail(alerts) /\ maintenance' = maintenance /\ calls' = calls
          /\ searches' = IF maintenance THEN searches + 1 ELSE searches
      BY <1>2 DEF HandleSaveResumeData
    <2>2. Arrival'
      BY <1>t, <1>u, <1>m, <2>1 DEF SearchFollows, Arrival, Handled
    <2>3. maintenance => Coming'
      BY <1>p, <2>1 DEF Coming, Numbers
    <2>4. QED BY <1>u, <2>1, <2>2, <2>3 DEF SearchFollows, Handled
  <1>3. CASE HandleTorrentChecked
    <2>1. maintenance' = maintenance /\ calls' = calls /\ searches' = searches
      BY <1>3 DEF HandleTorrentChecked
    <2>2. Head(alerts).type # "metadata" /\ Head(alerts).type # "resumeData"
      BY <1>3 DEF HandleTorrentChecked, Handles
    <2>3. /\ ToldOnce(alerts')
          /\ Tells(alerts', "metadata") => Tells(alerts, "metadata")
          /\ Tells(alerts, "resumeData") => Tells(alerts', "resumeData")
      <3>1. CASE hasMetadata
        <4>1. alerts' = Append(Tail(alerts), ResumeData(native))
          BY <1>3, <3>1 DEF HandleTorrentChecked
        <4>2. ResumeData(native) \in Alert /\ ResumeData(native).type = "resumeData"
          BY <1>p, AlertTypes DEF NativeOK, ResumeData
        <4>3. /\ ToldOnce(Append(Tail(alerts), ResumeData(native)))
              /\ Tells(Append(Tail(alerts), ResumeData(native)), "resumeData")
          BY <1>t, <4>2, ToldOnceAppend, AppendHas
        <4>4. Tells(Append(Tail(alerts), ResumeData(native)), "metadata")
                 => Tells(Tail(alerts), "metadata")
          BY <1>t, <4>2, AppendHas
        <4>5. QED BY <1>m, <4>1, <4>3, <4>4
      <3>2. CASE ~hasMetadata
        <4>1. alerts' = Tail(alerts)
          BY <1>3, <3>2 DEF HandleTorrentChecked
        <4>2. QED BY <1>t, <1>m, <1>r, <2>2, <4>1
      <3>3. QED BY <3>1, <3>2
    <2>4. Arrival'
      BY <1>u, <2>1, <2>3 DEF SearchFollows, Arrival, Handled
    <2>5. Coming => Coming'
      BY <2>1, <2>3 DEF Coming
    <2>6. QED BY <1>u, <2>1, <2>4, <2>5 DEF SearchFollows, Handled
  <1>4. CASE HandleTorrentFinished \/ HandleFastResumeRejected
    <2>1. /\ maintenance' = maintenance /\ searches' = searches /\ alerts' = Tail(alerts)
          /\ calls = << >> \/ calls' = calls
          /\ Head(alerts).type # "metadata" /\ Head(alerts).type # "resumeData"
      BY <1>4 DEF HandleTorrentFinished, HandleFastResumeRejected, Handles
    <2>2. Has(calls, "save") => Has(calls', "save")
      BY <2>1, EmptyHas
    <2>3. Arrival'
      BY <1>t, <1>u, <1>m, <2>1 DEF SearchFollows, Arrival, Handled
    <2>4. Coming => Coming'
      BY <1>r, <2>1, <2>2 DEF Coming
    <2>5. QED BY <1>u, <2>1, <2>3, <2>4 DEF SearchFollows, Handled
  <1>5. QED BY <1>1, <1>2, <1>3, <1>4 DEF HandleAlert

LEMMA SearchBySearch ==
  ASSUME TypeOK, SearchFollows, FileSearchFinished PROVE SearchFollows'
  <1>p. Booleans /\ Numbers /\ Kept /\ NativeOK /\ CallsOK
    BY Parts
  <1>1. searches > 0 /\ hasMetadata' = TRUE /\ maintenance' = FALSE
    BY DEF FileSearchFinished
  <1>2. ~Tells(alerts, "metadata") /\ ~Tells(<< >>, "metadata")
    BY <1>1, EmptyHas DEF SearchFollows, Arrival
  <1>3. PICK old \in {<< >>, alerts} : NativeAdd(ReloadFlags(isStopped, mode), TRUE, old)
    BY DEF FileSearchFinished, Reload
  <1>e. << >> \in Seq(Alert) /\ alerts \in Seq(Alert)
    BY <1>p DEF NativeOK
  <1>4. old \in Seq(Alert) /\ ~Tells(old, "metadata")
    <2>1. CASE old = << >>
      BY <1>2, <1>e, <2>1
    <2>2. CASE old = alerts
      BY <1>2, <1>e, <2>2
    <2>3. QED BY <1>3, <2>1, <2>2
  <1> DEFINE flags == ReloadFlags(isStopped, mode)
  <1>5. flags.paused \in BOOLEAN /\ flags.auto \in BOOLEAN /\ flags.stop \in BOOLEAN
    BY <1>p DEF ReloadFlags, Kept, Flags, Booleans
  <1>6. NativeAdd(flags, TRUE, old)
    BY <1>3
  <1> HIDE DEF flags
  <1>7. ~Tells(alerts', "metadata") /\ native'.state # "metadata"
    BY <1>4, <1>5, <1>6, NativeAddArrival
  <1>8. Arrival'
    BY <1>7, NotToldOnce DEF Arrival, ToldOnce, Tells
  <1>9. QED BY <1>1, <1>8 DEF SearchFollows, Handled

LEMMA SearchByLibtorrent ==
  ASSUME TypeOK, SearchFollows, Libtorrent PROVE SearchFollows'
  <1>p. Booleans /\ Numbers /\ Kept /\ NativeOK /\ CallsOK
    BY Parts
  <1>n. native \in Native /\ alerts \in Seq(Alert) /\ calls \in Seq(Call)
    BY <1>p DEF NativeOK, CallsOK
  <1>u. UNCHANGED <<hasMetadata, maintenance, searches>> /\ (NativeCall \/ calls' = calls)
    BY DEF Libtorrent, NativeCall, NativeQueue, NativeMetadata, NativeChecked, NativeFinished,
           NativeError, torrent, history
  <1>a. SUFFICES Arrival' /\ (Coming => Coming')
    BY <1>u DEF SearchFollows, Handled
  <1>1. CASE NativeCall
    <2>1. Head(calls) \in Call /\ native' = Called(native, Head(calls)) /\ calls' = Tail(calls)
      BY <1>1, <1>n, TailIn DEF NativeCall
    <2>2. native'.state = "metadata" <=> native.state = "metadata"
      BY <2>1, <1>n, CalledState
    <2>3. ResumeData(native) \in Alert /\ ResumeData(native).type = "resumeData"
      BY <1>n, AlertTypes DEF ResumeData
    <2>4. CASE Head(calls) = "save"
      <3>1. alerts' = Append(alerts, ResumeData(native))
        BY <1>1, <2>4 DEF NativeCall
      <3>2. /\ Tells(Append(alerts, ResumeData(native)), "resumeData")
            /\ ToldOnce(Append(alerts, ResumeData(native)))
        BY <1>n, <2>3, AppendHas, ToldOnceAppend DEF SearchFollows, Arrival
      <3>3. Tells(Append(alerts, ResumeData(native)), "metadata") => Tells(alerts, "metadata")
        BY <1>n, <2>3, AppendHas
      <3>4. Coming'
        BY <3>1, <3>2 DEF Coming
      <3>5. Arrival'
        BY <1>u, <2>2, <3>1, <3>2, <3>3 DEF SearchFollows, Arrival, Handled
      <3>6. QED BY <3>4, <3>5
    <2>5. CASE Head(calls) # "save"
      <3>1. alerts' = alerts
        BY <1>1, <2>5 DEF NativeCall
      <3>2. Has(calls, "save") => Has(Tail(calls), "save")
        BY <1>1, <1>n, <2>5, TailHas DEF NativeCall
      <3>3. Coming => Coming'
        BY <1>u, <2>1, <3>1, <3>2 DEF Coming
      <3>4. Arrival'
        BY <1>u, <2>2, <3>1 DEF SearchFollows, Arrival, Handled
      <3>5. QED BY <3>3, <3>4
    <2>6. QED BY <2>4, <2>5
  <1>2. CASE NativeMetadata
    <2>1. PICK s \in State \ {"metadata"} :
             /\ native' = StoppedIfReady(OnState([native EXCEPT !.state = s]))
             /\ alerts' = Append(alerts, Told("metadata")) \o EndOfCheck(s)
      BY <1>2 DEF NativeMetadata, State
    <2>2. native.state = "metadata" /\ calls' = calls
      BY <1>2 DEF NativeMetadata
    <2>3. ~Handled /\ ~Tells(alerts, "metadata")
      BY <2>2 DEF SearchFollows, Arrival
    <2> DEFINE n == OnState([native EXCEPT !.state = s])
    <2>4. n \in Native /\ n.state = s
      BY <1>n DEF OnState, Native, State
    <2>5. native' = StoppedIfReady(n)
      BY <2>1
    <2> HIDE DEF n
    <2>6. native'.state # "metadata"
      BY <2>4, <2>5, StoppedIs
    <2> DEFINE q == Append(alerts, Told("metadata"))
    <2>7. Told("metadata") \in Alert /\ EndOfCheck(s) \in Seq(Alert)
      BY AlertTypes
    <2>8. q \in Seq(Alert) /\ ToldOnce(q)
      BY <1>n, <2>3, <2>7, AppendProperties, ToldLast
    <2>9. Tells(alerts, "resumeData") => Tells(q, "resumeData")
      BY <1>n, <2>7, AppendHas
    <2> HIDE DEF q
    <2>10. ToldOnce(q \o EndOfCheck(s))
      BY <2>7, <2>8, ToldOnceConcat, CheckDoesNotTell
    <2>11. Tells(alerts, "resumeData") => Tells(q \o EndOfCheck(s), "resumeData")
      BY <2>7, <2>8, <2>9, ConcatHas
    <2>12. alerts' = q \o EndOfCheck(s)
      BY <2>1 DEF q
    <2>13. Arrival'
      BY <1>u, <2>3, <2>6, <2>10, <2>12 DEF Arrival, Handled
    <2>14. QED BY <1>u, <2>2, <2>11, <2>12, <2>13 DEF Coming
  <1>3. CASE NativeChecked
    <2>1. PICK s \in {"downloading", "seeding"} :
             /\ native' = StoppedIfReady([native EXCEPT !.state = s])
             /\ alerts' = alerts \o EndOfCheck(s)
      BY <1>3 DEF NativeChecked
    <2>2. s \in State /\ calls' = calls /\ native.state = "checking"
      BY <1>3 DEF State, NativeChecked, Checks
    <2> DEFINE n == [native EXCEPT !.state = s]
    <2>3. n \in Native /\ n.state = s
      BY <1>n DEF Native
    <2>4. native' = StoppedIfReady(n)
      BY <2>1
    <2> HIDE DEF n
    <2>5. native'.state # "metadata"
      BY <2>3, <2>4, <2>1, StoppedIs
    <2>6. EndOfCheck(s) \in Seq(Alert)
      BY <2>2, AlertTypes
    <2>7. ToldOnce(alerts \o EndOfCheck(s))
      BY <1>n, <2>2, <2>6, ToldOnceConcat, CheckDoesNotTell DEF SearchFollows, Arrival
    <2>8. Tells(alerts \o EndOfCheck(s), "metadata") => Tells(alerts, "metadata")
      BY <1>n, <2>2, <2>6, ConcatHas, CheckDoesNotTell
    <2>9. Tells(alerts, "resumeData") => Tells(alerts \o EndOfCheck(s), "resumeData")
      BY <1>n, <2>6, ConcatHas
    <2>10. Arrival'
      BY <1>u, <2>1, <2>5, <2>7, <2>8 DEF SearchFollows, Arrival, Handled
    <2>11. QED BY <1>u, <2>1, <2>2, <2>9, <2>10 DEF Coming
  <1>4. CASE NativeFinished
    <2>1. /\ alerts' = Append(alerts, Told("finished")) /\ calls' = calls
          /\ native' = [native EXCEPT !.state = "seeding"]
      BY <1>4 DEF NativeFinished
    <2>2. native'.state # "metadata"
      BY <1>n, <2>1 DEF Native
    <2>3. Told("finished") \in Alert /\ Told("finished").type # "metadata"
      BY AlertTypes DEF Told
    <2>4. ToldOnce(Append(alerts, Told("finished")))
      BY <1>n, <2>3, ToldOnceAppend DEF SearchFollows, Arrival
    <2>5. Tells(Append(alerts, Told("finished")), "metadata") => Tells(alerts, "metadata")
      BY <1>n, <2>3, AppendHas
    <2>6. Tells(alerts, "resumeData") => Tells(Append(alerts, Told("finished")), "resumeData")
      BY <1>n, <2>3, AppendHas
    <2>7. Arrival'
      BY <1>u, <2>1, <2>2, <2>4, <2>5 DEF SearchFollows, Arrival, Handled
    <2>8. QED BY <1>u, <2>1, <2>6, <2>7 DEF Coming
  <1>5. CASE NativeQueue \/ NativeError
    <2>1. alerts' = alerts /\ calls' = calls
      BY <1>5 DEF NativeQueue, NativeError
    <2>2. native'.state = native.state
      <3>1. CASE NativeQueue
        <4>1. native' = [native EXCEPT !.paused = FALSE] \/ native' = Paused(native)
          BY <3>1 DEF NativeQueue
        <4>2. [native EXCEPT !.paused = FALSE].state = native.state
          BY <1>n DEF Native
        <4>3. QED BY <1>n, <4>1, <4>2, PausedIs
      <3>2. CASE NativeError
        <4> DEFINE n == [native EXCEPT !.error = TRUE]
        <4>1. n \in Native /\ n.state = native.state
          BY <1>n DEF Native
        <4>2. native' = Paused(n)
          BY <3>2 DEF NativeError
        <4> HIDE DEF n
        <4>3. QED BY <4>1, <4>2, PausedIs
      <3>3. QED BY <1>5, <3>1, <3>2
    <2>3. Arrival'
      BY <1>u, <2>1, <2>2 DEF SearchFollows, Arrival, Handled
    <2>4. QED BY <1>u, <2>1, <2>3 DEF Coming
  <1>6. QED BY <1>1, <1>2, <1>3, <1>4, <1>5 DEF Libtorrent

LEMMA SearchByRestart ==
  ASSUME TypeOK, Restart PROVE SearchFollows'
  <1>p. Booleans /\ Kept
    BY Parts
  <1> DEFINE flags == RestoredFlags(saved)
  <1>1. flags \in Flags /\ saved.known \in BOOLEAN
    BY <1>p DEF Kept, RestoredFlags, Flags
  <1>2. flags.paused \in BOOLEAN /\ flags.auto \in BOOLEAN /\ flags.stop \in BOOLEAN
    BY <1>1 DEF Flags
  <1>3. PICK known \in {hasMetadata, hasMetadata \/ saved.known} :
           hasMetadata' = known /\ NativeAdd(flags, known, << >>)
    BY DEF Restart
  <1>4. known \in BOOLEAN /\ << >> \in Seq(Alert)
    BY <1>1, <1>p DEF Booleans
  <1> HIDE DEF flags
  <1>5. ~Tells(alerts', "metadata") /\ (known => native'.state # "metadata")
    BY <1>2, <1>3, <1>4, NativeAddArrival, EmptyHas
  <1>6. maintenance' = FALSE /\ searches' = 0
    BY DEF Restart
  <1>7. Arrival'
    BY <1>3, <1>5, <1>6, NotToldOnce DEF Arrival, Handled, ToldOnce, Tells
  <1>8. QED BY <1>6, <1>7 DEF SearchFollows

\* The types, and that a torrent in maintenance is not left in it: a search is under
\* way or will be started, for any number of acts, calls and alerts that wait.
THEOREM TheSearchIsToCome == Spec => []ControlOK
  <1>1. ASSUME TypeOK, RejectedIsKnown, SearchFollows, [Next]_vars PROVE SearchFollows'
    <2>1. CASE UNCHANGED vars
      <3>1. /\ UNCHANGED <<maintenance, hasMetadata, searches, native, alerts, calls>>
        BY <2>1 DEF vars, torrent
      <3>2. QED BY <1>1, <3>1 DEF SearchFollows, Arrival, Handled, Coming
    <2>2. QED
      BY <1>1, <2>1, SearchByUser, SearchByAlerts, SearchBySearch, SearchByLibtorrent,
         SearchByRestart
      DEF Next
  <1>2. TypeOK /\ SearchFollows => ControlOK
    BY DEF SearchFollows, Coming, ControlOK, SearchIsToCome, Pending, Tells, Has
  <1>3. QED
    BY <1>1, <1>2, SearchInit, KnownAlways, TypesHold, PTL DEF Spec

-----------------------------------------------------------------------------
(* A stopped torrent does not run *)

\* Calls after which a torrent that does not run does not run either; a call that
\* takes it from the queue is followed by the pause.
Harmless == {"save", "recheck", "stopWhenReady", "manual", "pause", "clearError"}

SafeAfter(q, k) ==
    \A j \in DOMAIN q : j > k =>
        /\ q[j] \in Harmless
        /\ q[j] = "manual" => j + 1 \in DOMAIN q /\ q[j + 1] = "pause"

\* It is paused, or libtorrent will stop it after the check.
Stops(n) == IF n.auto THEN n.state = "checking" /\ n.stop ELSE n.paused

\* The call at k pauses it, and no later one lets it run.
PausesAt(n, q, k) ==
    /\ q[k] = "pause"
    /\ IF k = 1 THEN ~n.auto ELSE q[k - 1] = "manual"
    /\ SafeAfter(q, k)

WillStop(n, q) == (Stops(n) /\ SafeAfter(q, 0)) \/ \E k \in DOMAIN q : PausesAt(n, q, k)

StoppedWillStop == isStopped /\ ~maintenance => WillStop(native, calls)

LEMMA SafeConcat ==
  ASSUME NEW q \in Seq(Call), NEW r \in Seq(Call), NEW k, SafeAfter(q, k), SafeAfter(r, 0)
  PROVE  SafeAfter(q \o r, k)
  <1> DEFINE c == q \o r
  <1>1. /\ DOMAIN q = 1 .. Len(q) /\ DOMAIN r = 1 .. Len(r)
        /\ Len(q) \in Nat /\ Len(r) \in Nat
        /\ DOMAIN c = 1 .. Len(q) + Len(r)
        /\ \A i \in 1 .. Len(q) : c[i] = q[i]
        /\ \A i \in 1 .. Len(r) : c[Len(q) + i] = r[i]
    BY ConcatIn
  <1> HIDE DEF c
  <1>2. SUFFICES ASSUME NEW j \in DOMAIN c, j > k
        PROVE  /\ c[j] \in Harmless
               /\ c[j] = "manual" => j + 1 \in DOMAIN c /\ c[j + 1] = "pause"
    BY DEF SafeAfter, c
  <1>3. CASE j \in DOMAIN q
    <2>1. q[j] \in Harmless /\ (q[j] = "manual" => j + 1 \in DOMAIN q /\ q[j + 1] = "pause")
      BY <1>2, <1>3 DEF SafeAfter
    <2>2. QED BY <1>1, <1>3, <2>1
  <1>4. CASE j \notin DOMAIN q
    <2> DEFINE i == j - Len(q)
    <2>1. i \in DOMAIN r /\ i > 0 /\ j = Len(q) + i
      BY <1>1, <1>2, <1>4
    <2>2. r[i] \in Harmless /\ (r[i] = "manual" => i + 1 \in DOMAIN r /\ r[i + 1] = "pause")
      BY <2>1 DEF SafeAfter
    <2> HIDE DEF i
    <2>3. c[j] = r[i]
      BY <1>1, <2>1
    <2>4. i + 1 \in DOMAIN r => j + 1 \in DOMAIN c /\ c[j + 1] = r[i + 1]
      <3>1. SUFFICES ASSUME i + 1 \in DOMAIN r PROVE j + 1 \in DOMAIN c /\ c[j + 1] = r[i + 1]
        OBVIOUS
      <3>2. i \in Nat /\ Len(q) + (i + 1) = j + 1
        BY <1>1, <2>1
      <3>3. c[Len(q) + (i + 1)] = r[i + 1]
        BY <1>1, <3>1
      <3>4. QED BY <1>1, <3>1, <3>2, <3>3
    <2>5. QED BY <2>2, <2>3, <2>4
  <1>5. QED BY <1>3, <1>4

LEMMA StopConcat ==
  ASSUME NEW n, NEW q \in Seq(Call), NEW r \in Seq(Call), WillStop(n, q), SafeAfter(r, 0)
  PROVE  WillStop(n, q \o r)
  <1>1. CASE Stops(n) /\ SafeAfter(q, 0)
    BY <1>1, SafeConcat DEF WillStop
  <1>2. CASE \E k \in DOMAIN q : PausesAt(n, q, k)
    <2>1. PICK k \in DOMAIN q : PausesAt(n, q, k)
      BY <1>2
    <2>2. SafeAfter(q \o r, k)
      BY <2>1, SafeConcat DEF PausesAt
    <2>3. /\ k \in DOMAIN (q \o r) /\ (q \o r)[k] = q[k]
          /\ k # 1 => (q \o r)[k - 1] = q[k - 1]
      BY ConcatIn
    <2>4. PausesAt(n, q \o r, k)
      BY <2>1, <2>2, <2>3 DEF PausesAt
    <2>5. QED BY <2>3, <2>4 DEF WillStop
  <1>3. QED BY <1>1, <1>2 DEF WillStop

\* libtorrent itself does not let it run.
LEMMA StopNative ==
  ASSUME NEW n, NEW m, NEW q, WillStop(n, q), Stops(n) => Stops(m), ~n.auto => ~m.auto
  PROVE  WillStop(m, q)
  <1>1. CASE Stops(n) /\ SafeAfter(q, 0)
    BY <1>1 DEF WillStop
  <1>2. CASE \E k \in DOMAIN q : PausesAt(n, q, k)
    BY <1>2 DEF WillStop, PausesAt
  <1>3. QED BY <1>1, <1>2 DEF WillStop


LEMMA SafeTail ==
  ASSUME NEW q \in Seq(Call), q # << >>, NEW k \in Nat, SafeAfter(q, k + 1)
  PROVE  SafeAfter(Tail(q), k)
  <1> DEFINE t == Tail(q)
  <1>1. /\ Len(q) \in Nat \ {0} /\ DOMAIN q = 1 .. Len(q)
        /\ DOMAIN t = 1 .. Len(q) - 1
        /\ \A i \in DOMAIN t : t[i] = q[i + 1]
    BY TailIn
  <1> HIDE DEF t
  <1>2. SUFFICES ASSUME NEW j \in DOMAIN t, j > k
        PROVE  /\ t[j] \in Harmless
               /\ t[j] = "manual" => j + 1 \in DOMAIN t /\ t[j + 1] = "pause"
    BY DEF SafeAfter, t
  <1>3. j + 1 \in DOMAIN q /\ j + 1 > k + 1
    BY <1>1, <1>2
  <1>4. /\ q[j + 1] \in Harmless
        /\ q[j + 1] = "manual" => (j + 1) + 1 \in DOMAIN q /\ q[(j + 1) + 1] = "pause"
    BY <1>3 DEF SafeAfter
  <1>5. (j + 1) + 1 \in DOMAIN q => j + 1 \in DOMAIN t
    BY <1>1, <1>2
  <1>6. QED BY <1>1, <1>4, <1>5

LEMMA CalledStops ==
  ASSUME NEW n \in Native, NEW call \in Harmless \ {"manual"}, Stops(n)
  PROVE  Stops(Called(n, call))
  <1> DEFINE c == Called(n, call)
  <1>1. CASE call = "pause"
    <2>1. c = Paused(n)
      BY <1>1 DEF Called
    <2>2. QED BY <2>1, PausedIs DEF Stops, Native
  <1>2. CASE call = "clearError"
    <2>1. c = [n EXCEPT !.error = FALSE]
      BY <1>2 DEF Called
    <2>2. c.state = n.state /\ c.stop = n.stop /\ c.paused = n.paused /\ c.auto = n.auto
      BY <2>1 DEF Native
    <2>3. QED BY <2>2 DEF Stops
  <1>3. CASE call = "recheck"
    <2>1. c = n \/ c = [n EXCEPT !.state = "checking", !.error = FALSE]
      BY <1>3 DEF Called
    <2>2. \/ c = n
          \/ /\ c.state = "checking" /\ c.stop = n.stop /\ c.paused = n.paused
             /\ c.auto = n.auto
      BY <2>1 DEF Native
    <2>3. QED BY <2>2 DEF Stops
  <1>4. CASE call = "stopWhenReady"
    <2> DEFINE a == [n EXCEPT !.auto = TRUE, !.stop = TRUE]
    <2>1. c = StoppedIfReady(a)
      BY <1>4 DEF Called
    <2>2. a \in Native /\ a.state = n.state /\ a.stop /\ a.auto
      BY DEF Native
    <2> HIDE DEF a
    <2>3. \/ c.state = "checking" /\ c.stop /\ c.auto
          \/ c.paused /\ ~c.auto
      BY <2>1, <2>2, StoppedIs
    <2>4. QED BY <2>3 DEF Stops
  <1>5. CASE call = "save"
    <2>1. c = n
      BY <1>5 DEF Called
    <2>2. QED BY <2>1
  <1>6. \/ call = "pause" \/ call = "clearError" \/ call = "recheck"
        \/ call = "stopWhenReady" \/ call = "save"
    BY DEF Harmless
  <1>7. QED BY <1>1, <1>2, <1>3, <1>4, <1>5, <1>6

LEMMA StopTail ==
  ASSUME NEW n \in Native, NEW q \in Seq(Call), q # << >>, WillStop(n, q)
  PROVE  WillStop(Called(n, Head(q)), Tail(q))
  <1> DEFINE t == Tail(q)
             c == Called(n, Head(q))
  <1>1. /\ Len(q) \in Nat \ {0} /\ DOMAIN q = 1 .. Len(q)
        /\ DOMAIN t = 1 .. Len(q) - 1
        /\ \A i \in DOMAIN t : t[i] = q[i + 1]
        /\ Head(q) = q[1]
    BY TailIn
  <1>2. Head(q) = "manual" => ~c.auto
    <2>1. SUFFICES ASSUME Head(q) = "manual" PROVE ~c.auto
      OBVIOUS
    <2>2. c = [n EXCEPT !.auto = FALSE]
      BY <2>1 DEF Called
    <2>3. QED BY <2>2 DEF Native
  <1>3. Head(q) = "pause" /\ ~n.auto => Stops(c)
    <2>1. SUFFICES ASSUME Head(q) = "pause", ~n.auto PROVE Stops(c)
      OBVIOUS
    <2>2. c = Paused(n)
      BY <2>1 DEF Called
    <2>3. QED BY <2>1, <2>2, PausedIs DEF Stops
  <1>4. Stops(n) /\ Head(q) \in Harmless /\ Head(q) # "manual" => Stops(c)
    BY CalledStops
  <1>5. \A k \in Nat : SafeAfter(q, k + 1) => SafeAfter(t, k)
    BY SafeTail
  <1> HIDE DEF t, c
  <1>6. CASE Stops(n) /\ SafeAfter(q, 0)
    <2>1. 1 \in DOMAIN q
      BY <1>1
    <2>2. q[1] \in Harmless /\ (q[1] = "manual" => 1 + 1 \in DOMAIN q /\ q[1 + 1] = "pause")
      BY <1>6, <2>1 DEF SafeAfter
    <2>3. SafeAfter(q, 0 + 1) /\ SafeAfter(q, 1 + 1)
      <3>1. \A j \in DOMAIN q : j \in Nat
        BY <1>1
      <3>2. QED BY <1>6, <3>1 DEF SafeAfter
    <2>4. SafeAfter(t, 0) /\ SafeAfter(t, 1)
      BY <1>5, <2>3
    <2>5. CASE q[1] = "manual"
      <3>1. 1 \in DOMAIN t /\ t[1] = "pause"
        BY <1>1, <2>2, <2>5
      <3>2. PausesAt(c, t, 1)
        BY <1>1, <1>2, <2>4, <2>5, <3>1 DEF PausesAt
      <3>3. QED BY <3>1, <3>2 DEF WillStop, c, t
    <2>6. CASE q[1] # "manual"
      BY <1>1, <1>4, <1>6, <2>2, <2>4, <2>6 DEF WillStop, c, t
    <2>7. QED BY <2>5, <2>6
  <1>7. CASE \E k \in DOMAIN q : PausesAt(n, q, k)
    <2>1. PICK k \in DOMAIN q : PausesAt(n, q, k)
      BY <1>7
    <2>2. k \in Nat \ {0} /\ k - 1 \in Nat /\ (k - 1) + 1 = k
      BY <1>1
    <2>3. SafeAfter(q, (k - 1) + 1)
      BY <2>1, <2>2 DEF PausesAt
    <2>4. SafeAfter(t, k - 1)
      BY <1>5, <2>2, <2>3
    <2>5. CASE k = 1
      <3>1. ~n.auto /\ Head(q) = "pause"
        BY <1>1, <2>1, <2>5 DEF PausesAt
      <3>2. SafeAfter(t, 0)
        BY <2>4, <2>5
      <3>3. QED BY <1>3, <3>1, <3>2 DEF WillStop, c, t
    <2>6. CASE k = 2
      <3>1. q[2] = "pause" /\ q[1] = "manual"
        BY <2>1, <2>6 DEF PausesAt
      <3>2. 1 \in DOMAIN t /\ t[1] = q[2]
        BY <1>1, <2>6
      <3>3. SafeAfter(t, 1)
        BY <2>4, <2>6
      <3>4. PausesAt(c, t, 1)
        BY <1>1, <1>2, <3>1, <3>2, <3>3 DEF PausesAt
      <3>5. QED BY <3>2, <3>4 DEF WillStop, c, t
    <2>7. CASE k > 2
      <3>1. q[k] = "pause" /\ q[k - 1] = "manual"
        BY <2>1, <2>7 DEF PausesAt
      <3>2. /\ k - 1 \in DOMAIN t /\ (k - 1) - 1 \in DOMAIN t /\ k - 1 # 1
            /\ ((k - 1) - 1) + 1 = k - 1
        BY <1>1, <2>2, <2>7
      <3>3. t[k - 1] = "pause" /\ t[(k - 1) - 1] = "manual"
        BY <1>1, <2>2, <3>1, <3>2
      <3>4. PausesAt(c, t, k - 1)
        BY <2>4, <3>2, <3>3 DEF PausesAt
      <3>5. QED BY <3>2, <3>4 DEF WillStop, c, t
    <2>8. QED BY <2>2, <2>5, <2>6, <2>7
  <1>8. QED BY <1>6, <1>7 DEF WillStop

\* What is added to the calls of a stopped torrent
LEMMA SafeCalls ==
  /\ \A k : SafeAfter(<< >>, k)
  /\ \A c : SafeAfter(SaveIf(c), 0)
  /\ SafeAfter(<<"save">>, 0)
  /\ isStopped => SafeAfter(RecheckCalls, 0)
  /\ isStopped => \A c : SafeAfter(RecheckCalls \o SaveIf(c), 0)
  <1>1. \A k : SafeAfter(<< >>, k)
    BY DEF SafeAfter
  <1>2. SafeAfter(<<"save">>, 0)
    BY DEF SafeAfter, Harmless
  <1>3. \A c : SafeAfter(SaveIf(c), 0)
    BY <1>1, <1>2 DEF SaveIf
  <1>4. isStopped => SafeAfter(RecheckCalls, 0)
    <2>1. SafeAfter(<<"recheck", "stopWhenReady">>, 0)
      BY DEF SafeAfter, Harmless
    <2>2. QED BY <2>1 DEF RecheckCalls
  <1>5. isStopped => \A c : SafeAfter(RecheckCalls \o SaveIf(c), 0)
    BY <1>3, <1>4, CallSequences, SafeConcat
  <1>6. QED BY <1>1, <1>2, <1>3, <1>4, <1>5


LEMMA NativeAddStops ==
  ASSUME NEW flags, NEW known \in BOOLEAN, NEW q, NativeAdd(flags, known, q),
         flags.paused \in BOOLEAN, flags.auto \in BOOLEAN, flags.stop \in BOOLEAN,
         IF flags.auto THEN flags.stop ELSE flags.paused
  PROVE  Stops(native')
  <1> DEFINE added(s) == [state |-> s, paused |-> flags.paused, auto |-> flags.auto,
                          stop |-> flags.stop, error |-> FALSE]
  <1>1. CASE \E s \in State : native' = StoppedIfReady(added(s))
    <2>1. PICK s \in State : native' = StoppedIfReady(added(s))
      BY <1>1
    <2> DEFINE a == added(s)
    <2>2. /\ a \in Native /\ a.state = s /\ a.paused = flags.paused /\ a.auto = flags.auto
          /\ a.stop = flags.stop
      BY DEF State, Native
    <2> HIDE DEF a
    <2>3. native' = StoppedIfReady(a)
      BY <2>1 DEF a
    <2>4. CASE flags.stop /\ s # "checking"
      <3>1. native'.paused /\ ~native'.auto
        BY <2>2, <2>3, <2>4, StoppedIs
      <3>2. QED BY <3>1 DEF Stops
    <2>5. CASE ~(flags.stop /\ s # "checking")
      <3>1. native' = a
        BY <2>2, <2>3, <2>5, StoppedIs
      <3>2. CASE flags.auto
        BY <2>2, <2>5, <3>1, <3>2 DEF Stops
      <3>3. CASE ~flags.auto
        BY <2>2, <3>1, <3>3 DEF Stops
      <3>4. QED BY <3>2, <3>3
    <2>6. QED BY <2>4, <2>5
  <1>2. CASE native' = Paused([added("checking") EXCEPT !.auto = FALSE])
    <2> DEFINE a == [added("checking") EXCEPT !.auto = FALSE]
    <2>1. a \in Native /\ ~a.auto
      BY DEF Native
    <2> HIDE DEF a
    <2>2. Paused(a).paused /\ ~Paused(a).auto
      BY <2>1, PausedIs
    <2>3. native' = Paused(a)
      BY <1>2 DEF a
    <2>4. QED BY <2>2, <2>3 DEF Stops
  <1>3. QED BY <1>1, <1>2 DEF NativeAdd, State

LEMMA StopInit == Init => StoppedWillStop
  <1> SUFFICES ASSUME Init, isStopped PROVE WillStop(native, calls)
    BY DEF StoppedWillStop
  <1>1. native.paused = isStopped /\ native.auto = (~isStopped /\ mode = "auto")
    BY DEF Init, SavedWhen
  <1>2. Stops(native)
    BY <1>1 DEF Stops
  <1>3. QED
    BY <1>2, SafeCalls DEF WillStop, Init

LEMMA StopByUser == ASSUME TypeOK, StoppedWillStop, User PROVE StoppedWillStop'
  <1>p. Booleans /\ Kept /\ NativeOK /\ CallsOK
    BY Parts
  <1>c. calls \in Seq(Call)
    BY <1>p DEF CallsOK
  <1> SUFFICES ASSUME isStopped', ~maintenance' PROVE WillStop(native', calls')
    BY DEF StoppedWillStop
  <1>1. CASE Pause
    <2> DEFINE q == calls \o SaveIf(~isStopped)
    <2>1. q \in Seq(Call)
      BY <1>c, CallSequences, ConcatProperties
    <2>2. "manual" \in Call /\ "pause" \in Call
      BY DEF Call
    <2>3. <<"manual", "pause">> \in Seq(Call)
      BY <2>2, CallSequences
    <2>4. calls' = q \o <<"manual", "pause">> /\ native' = native
      BY <1>1 DEF Pause
    <2> HIDE DEF q
    <2>5. /\ Len(q) \in Nat /\ DOMAIN calls' = 1 .. Len(q) + 2
          /\ calls'[Len(q) + 1] = "manual" /\ calls'[Len(q) + 2] = "pause"
      <3> DEFINE r == <<"manual", "pause">>
      <3>1. Len(r) = 2 /\ r[1] = "manual" /\ r[2] = "pause"
        OBVIOUS
      <3>2. 1 \in 1 .. Len(r) /\ 2 \in 1 .. Len(r)
        BY <3>1
      <3> HIDE DEF r
      <3>3. r \in Seq(Call) /\ calls' = q \o r
        BY <2>3, <2>4 DEF r
      <3>4. /\ Len(q) \in Nat /\ DOMAIN (q \o r) = 1 .. Len(q) + Len(r)
            /\ \A i \in 1 .. Len(r) : (q \o r)[Len(q) + i] = r[i]
        BY <2>1, <3>3, ConcatIn
      <3>5. (q \o r)[Len(q) + 1] = r[1] /\ (q \o r)[Len(q) + 2] = r[2]
        BY <3>2, <3>4
      <3>6. QED BY <3>1, <3>3, <3>4, <3>5
    <2> DEFINE k == Len(q) + 2
    <2>6. k \in DOMAIN calls' /\ k # 1 /\ k - 1 = Len(q) + 1 /\ \A j \in DOMAIN calls' : ~(j > k)
      BY <2>5
    <2>7. PausesAt(native', calls', k)
      BY <2>5, <2>6 DEF PausesAt, SafeAfter
    <2> HIDE DEF k
    <2>8. QED BY <2>6, <2>7 DEF WillStop
  <1>2. CASE \E m \in {"auto", "forced"} : Resume(m) \/ ResumeMissing(m)
    BY <1>2 DEF Resume, ResumeMissing
  <1>3. CASE ForceRecheck
    <2>1. isStopped /\ native' = native /\ calls' = calls \o RecheckCalls
      BY <1>3 DEF ForceRecheck
    <2>2. WillStop(native, calls)
      BY <1>3, <2>1 DEF StoppedWillStop, ForceRecheck
    <2>3. WillStop(native, calls \o RecheckCalls)
      BY <1>c, <2>1, <2>2, CallSequences, SafeCalls, StopConcat
    <2>4. QED BY <2>1, <2>3
  <1>4. CASE GenerateResumeData
    <2>1. WillStop(native, calls)
      BY <1>4 DEF StoppedWillStop, GenerateResumeData, torrent
    <2>2. calls' = Append(calls, "save") /\ native' = native
      BY <1>4 DEF GenerateResumeData
    <2>3. "save" \in Call
      BY DEF Call
    <2>4. <<"save">> \in Seq(Call) /\ Append(calls, "save") = calls \o <<"save">>
      BY <1>c, <2>3, CallSequences, AppendIsConcat
    <2>5. WillStop(native, calls \o <<"save">>)
      BY <1>c, <2>1, <2>4, SafeCalls, StopConcat
    <2>6. QED BY <2>2, <2>4, <2>5
  <1>5. QED
    BY <1>1, <1>2, <1>3, <1>4 DEF User

LEMMA StopByAlerts == ASSUME TypeOK, StoppedWillStop, HandleAlert PROVE StoppedWillStop'
  <1>p. Booleans /\ Kept /\ NativeOK /\ CallsOK
    BY Parts
  <1> SUFFICES ASSUME isStopped', ~maintenance' PROVE WillStop(native', calls')
    BY DEF StoppedWillStop
  <1>1. CASE HandleMetadataReceived
    BY <1>1 DEF HandleMetadataReceived
  <1>2. CASE HandleTorrentFinished
    <2>1. isStopped /\ ~maintenance /\ native' = native
      BY <1>2 DEF HandleTorrentFinished
    <2>2. WillStop(native, calls)
      BY <2>1 DEF StoppedWillStop
    <2>3. CASE calls' = calls
      BY <2>1, <2>2, <2>3
    <2>4. CASE calls' # calls
      <3>1. /\ calls = << >>
            /\ \/ calls' = SaveIf(~native.error)
               \/ calls' = RecheckCalls \o SaveIf(~native.error)
        BY <1>2, <2>4 DEF HandleTorrentFinished
      <3>2. Stops(native)
        BY <2>2, <3>1 DEF WillStop
      <3>3. SafeAfter(calls', 0)
        BY <2>1, <3>1, SafeCalls
      <3>4. QED BY <2>1, <3>2, <3>3 DEF WillStop
    <2>5. QED BY <2>3, <2>4
  <1>3. CASE HandleSaveResumeData \/ HandleTorrentChecked \/ HandleFastResumeRejected
    BY <1>3 DEF HandleSaveResumeData, HandleTorrentChecked, HandleFastResumeRejected,
                StoppedWillStop
  <1>4. QED
    BY <1>1, <1>2, <1>3 DEF HandleAlert

LEMMA StopBySearch == ASSUME TypeOK, FileSearchFinished PROVE StoppedWillStop'
  <1>p. Booleans /\ Kept
    BY Parts
  <1> SUFFICES ASSUME isStopped' PROVE WillStop(native', calls')
    BY DEF StoppedWillStop
  <1> DEFINE flags == ReloadFlags(isStopped, mode)
  <1>1. isStopped = TRUE /\ Reload(isStopped, mode)
    BY <1>p DEF FileSearchFinished, Booleans
  <1>2. PICK old : NativeAdd(flags, TRUE, old)
    BY <1>1 DEF Reload
  <1>3. flags.paused = TRUE /\ flags.auto = FALSE /\ flags.stop \in BOOLEAN
    BY <1>1, <1>p DEF ReloadFlags, Kept, Flags
  <1> HIDE DEF flags
  <1>4. Stops(native')
    BY <1>2, <1>3, NativeAddStops
  <1>5. calls' = << >>
    BY <1>1 DEF Reload
  <1>6. QED
    BY <1>4, <1>5, SafeCalls DEF WillStop

LEMMA StopByRestart == ASSUME TypeOK, Restart PROVE StoppedWillStop'
  <1>p. Booleans /\ Kept
    BY Parts
  <1> SUFFICES ASSUME isStopped' PROVE WillStop(native', calls')
    BY DEF StoppedWillStop
  <1> DEFINE flags == RestoredFlags(saved)
  <1>1. /\ saved \in Flags /\ flags \in Flags /\ saved.known \in BOOLEAN
        /\ saved.stop \in BOOLEAN /\ saved.paused \in BOOLEAN /\ saved.auto \in BOOLEAN
    BY <1>p DEF Kept, RestoredFlags, Flags
  <1>2. flags.paused \in BOOLEAN /\ flags.auto \in BOOLEAN /\ flags.stop \in BOOLEAN
    BY <1>1 DEF Flags
  <1>3. Restored(saved).stopped
    BY DEF Restart
  <1>4. IF flags.auto THEN flags.stop ELSE flags.paused
    <2>1. CASE saved.stop
      BY <1>1, <2>1 DEF RestoredFlags, Flags
    <2>2. CASE ~saved.stop
      <3>1. saved.paused /\ ~saved.auto
        BY <1>3, <2>2 DEF Restored
      <3>2. flags = saved
        BY <2>2 DEF RestoredFlags
      <3>3. QED BY <3>1, <3>2
    <2>3. QED BY <2>1, <2>2
  <1>5. PICK known \in {hasMetadata, hasMetadata \/ saved.known} :
           NativeAdd(flags, known, << >>)
    BY DEF Restart
  <1>6. known \in BOOLEAN
    BY <1>1, <1>p DEF Booleans
  <1> HIDE DEF flags
  <1>7. Stops(native')
    BY <1>2, <1>4, <1>5, <1>6, NativeAddStops
  <1>8. calls' = << >>
    BY DEF Restart
  <1>9. QED
    BY <1>7, <1>8, SafeCalls DEF WillStop

LEMMA StopByLibtorrent == ASSUME TypeOK, StoppedWillStop, Libtorrent PROVE StoppedWillStop'
  <1>p. Booleans /\ Kept /\ NativeOK /\ CallsOK
    BY Parts
  <1>n. native \in Native /\ calls \in Seq(Call)
    BY <1>p DEF NativeOK, CallsOK
  <1>b. native.auto \in BOOLEAN /\ native.stop \in BOOLEAN /\ native.paused \in BOOLEAN
    BY <1>n DEF Native
  <1> SUFFICES ASSUME isStopped', ~maintenance' PROVE WillStop(native', calls')
    BY DEF StoppedWillStop
  <1>u. isStopped /\ ~maintenance /\ (NativeCall \/ calls' = calls)
    <2>1. UNCHANGED torrent /\ (NativeCall \/ UNCHANGED calls)
      BY DEF Libtorrent, NativeCall, NativeQueue, NativeMetadata, NativeChecked,
             NativeFinished, NativeError
    <2>2. QED BY <2>1 DEF torrent
  <1>w. WillStop(native, calls)
    BY <1>u DEF StoppedWillStop
  <1>1. CASE NativeCall
    BY <1>1, <1>n, <1>w, StopTail DEF NativeCall
  <1>2. CASE Libtorrent /\ ~NativeCall
    <2>1. SUFFICES (Stops(native) => Stops(native')) /\ (~native.auto => ~native'.auto)
      BY <1>2, <1>u, <1>w, StopNative
    <2>2. CASE NativeQueue
      <3>1. CASE native.paused
        <4>1. /\ native'.state = native.state /\ native'.stop = native.stop
              /\ native'.auto = native.auto
          BY <1>n, <2>2, <3>1 DEF NativeQueue, Native
        <4>2. native.auto
          BY <2>2 DEF NativeQueue
        <4>3. QED BY <4>1, <4>2 DEF Stops
      <3>2. CASE ~native.paused
        <4>1. native' = Paused(native) /\ native.auto
          BY <2>2, <3>2 DEF NativeQueue
        <4>2. /\ native'.state = native.state /\ native'.auto = native.auto
              /\ native'.stop = (native.stop /\ native.auto)
          BY <1>n, <3>2, <4>1, PausedIs
        <4>3. QED BY <4>1, <4>2 DEF Stops
      <3>3. QED BY <3>1, <3>2
    <2>3. CASE NativeMetadata
      <3>1. native.state = "metadata" /\ ~native.paused
        BY <2>3 DEF NativeMetadata
      <3>2. ~Stops(native)
        BY <3>1 DEF Stops
      <3>3. PICK s \in State :
               native' = StoppedIfReady(OnState([native EXCEPT !.state = s]))
        BY <2>3 DEF NativeMetadata, State
      <3> DEFINE a == OnState([native EXCEPT !.state = s])
      <3>4. a \in Native /\ a.auto = native.auto /\ a.stop /\ a.state = s
        BY <1>n DEF OnState, Native, State
      <3> HIDE DEF a
      <3>5. native' = StoppedIfReady(a)
        BY <3>3 DEF a
      <3>6. ~native.auto => ~native'.auto
        BY <3>4, <3>5, StoppedIs
      <3>7. QED BY <3>2, <3>6
    <2>4. CASE NativeChecked
      <3>1. native.state = "checking" /\ ~native.paused
        BY <2>4 DEF NativeChecked, Checks
      <3>2. PICK s \in {"downloading", "seeding"} :
               native' = StoppedIfReady([native EXCEPT !.state = s])
        BY <2>4 DEF NativeChecked
      <3> DEFINE a == [native EXCEPT !.state = s]
      <3>3. a \in Native /\ a.auto = native.auto /\ a.stop = native.stop /\ a.state = s
        BY <1>n DEF Native
      <3> HIDE DEF a
      <3>4. native' = StoppedIfReady(a)
        BY <3>2 DEF a
      <3>5. ~native.auto => ~native'.auto
        BY <3>3, <3>4, StoppedIs
      <3>6. Stops(native) => native.auto /\ native.stop
        BY <3>1 DEF Stops
      <3>7. native.stop => native'.paused /\ ~native'.auto
        BY <3>3, <3>4, StoppedIs
      <3>8. QED BY <3>5, <3>6, <3>7 DEF Stops
    <2>5. CASE NativeFinished
      <3>1. native.state = "downloading" /\ ~native.paused
        BY <2>5 DEF NativeFinished
      <3>2. ~Stops(native)
        BY <3>1 DEF Stops
      <3>3. native'.auto = native.auto
        BY <1>n, <2>5 DEF NativeFinished, Native
      <3>4. QED BY <3>2, <3>3
    <2>6. CASE NativeError
      <3> DEFINE a == [native EXCEPT !.error = TRUE]
      <3>1. /\ a \in Native /\ a.state = native.state /\ a.stop = native.stop
            /\ a.paused = native.paused /\ a.auto = native.auto
        BY <1>n DEF Native
      <3>2. native' = Paused(a) /\ ~native.paused
        BY <2>6 DEF NativeError
      <3> HIDE DEF a
      <3>3. /\ native'.state = native.state /\ native'.auto = native.auto
            /\ native'.stop = (native.stop /\ native.auto)
        BY <3>1, <3>2, PausedIs
      <3>4. Stops(native) => native.auto /\ native.state = "checking" /\ native.stop
        BY <3>2 DEF Stops
      <3>5. QED BY <3>3, <3>4 DEF Stops
    <2>7. QED
      BY <1>2, <2>2, <2>3, <2>4, <2>5, <2>6 DEF Libtorrent
  <1>3. QED
    BY <1>1, <1>2

\* Once libtorrent has done what it was told, a stopped torrent is paused or is being
\* checked and will be stopped then, in whatever order pauses, resumes, checks,
\* errors, reloads and restarts came.
THEOREM AStoppedTorrentDoesNotRun == Spec => []StoppedDoesNotRun
  <1>1. ASSUME TypeOK, StoppedWillStop, [Next]_vars PROVE StoppedWillStop'
    <2>1. CASE UNCHANGED vars
      BY <1>1, <2>1 DEF StoppedWillStop, vars, torrent
    <2>2. QED
      BY <1>1, <2>1, StopByUser, StopByAlerts, StopBySearch, StopByLibtorrent, StopByRestart
      DEF Next
  <1>2. StoppedWillStop => StoppedDoesNotRun
    <2>1. SUFFICES ASSUME isStopped, ~maintenance, calls = << >>, WillStop(native, calls)
          PROVE  native.paused \/ (native.state = "checking" /\ native.stop /\ native.auto)
      BY DEF StoppedWillStop, StoppedDoesNotRun
    <2>2. Stops(native)
      BY <2>1 DEF WillStop
    <2>3. QED BY <2>2 DEF Stops
  <1>3. QED
    BY <1>1, <1>2, StopInit, TypesHold, PTL DEF Spec

-----------------------------------------------------------------------------
(* A running torrent is let run *)

\* Behind position k there are members of S only.
OnlyAfter(q, k, S) == \A j \in DOMAIN q : j > k => q[j] \in S

\* Calls that neither start a torrent nor stop it
Calm == {"save", "recheck"}

Starting == Call \ {"stopWhenReady"}

RunsAs(n, m) ==
    /\ ~n.stop
    /\ IF m = "auto" THEN n.auto ELSE ~n.auto /\ (~n.paused \/ n.error)

\* The call at k starts it, and no later one changes that.
StartsAt(n, q, k, m) ==
    /\ IF m = "auto" THEN q[k] = "auto"
       ELSE q[k] = "resume" /\ IF k = 1 THEN ~n.auto ELSE q[k - 1] = "manual"
    /\ OnlyAfter(q, k, Calm)

\* stop_when_ready is not set, or will not be in the end.
WillNotStop(n, q, h) ==
    \/ (h \/ ~n.stop) /\ OnlyAfter(q, 0, Starting)
    \/ \E p \in DOMAIN q : q[p] = "runWhenReady" /\ OnlyAfter(q, p, Starting)

WillRun(n, q, m, h) ==
    \/ (h \/ RunsAs(n, m)) /\ OnlyAfter(q, 0, Calm)
    \/ WillNotStop(n, q, h) /\ \E k \in DOMAIN q : StartsAt(n, q, k, m)

Unfinished == {a \in Alert : a.type # "finished"}

\* Files are missing, or it will be told that they are, and no end of a download.
WillMiss(missing, a) ==
    \/ missing /\ OnlyAfter(a, 0, Unfinished)
    \/ \E i \in DOMAIN a : a[i].type = "rejected" /\ OnlyAfter(a, i, Unfinished)

\* The resume data was rejected, and nothing has happened since.
IsRejected ==
    /\ native.paused /\ ~native.auto /\ native.state = "checking" /\ (held \/ ~native.stop)
    /\ OnlyAfter(calls, 0, Calm)
    /\ WillMiss(missingFiles, alerts)

RunningWillRun ==
    ~isStopped /\ ~maintenance /\ ~Tells(alerts, "metadata")
        => WillRun(native, calls, mode, held) \/ IsRejected

LEMMA OnlyEmpty == \A k, S : OnlyAfter(<< >>, k, S)
  BY DEF OnlyAfter

LEMMA OnlyConcat ==
  ASSUME NEW T, NEW q \in Seq(T), NEW r \in Seq(T), NEW S, OnlyAfter(r, 0, S)
  PROVE  /\ \A k : OnlyAfter(q, k, S) => OnlyAfter(q \o r, k, S)
         /\ OnlyAfter(q \o r, Len(q), S)
  <1> DEFINE c == q \o r
  <1>1. /\ DOMAIN q = 1 .. Len(q) /\ DOMAIN r = 1 .. Len(r)
        /\ Len(q) \in Nat /\ Len(r) \in Nat
        /\ DOMAIN c = 1 .. Len(q) + Len(r)
        /\ \A i \in 1 .. Len(q) : c[i] = q[i]
        /\ \A i \in 1 .. Len(r) : c[Len(q) + i] = r[i]
    BY ConcatIn
  <1> HIDE DEF c
  <1>2. ASSUME NEW j \in DOMAIN c, j \notin DOMAIN q PROVE c[j] \in S
    <2> DEFINE i == j - Len(q)
    <2>1. i \in DOMAIN r /\ i > 0 /\ j = Len(q) + i
      BY <1>1, <1>2
    <2> HIDE DEF i
    <2>2. r[i] \in S /\ c[j] = r[i]
      BY <1>1, <2>1 DEF OnlyAfter
    <2>3. QED BY <2>2
  <1>3. ASSUME NEW k, OnlyAfter(q, k, S), NEW j \in DOMAIN c, j > k PROVE c[j] \in S
    <2>1. CASE j \in DOMAIN q
      BY <1>1, <1>3, <2>1 DEF OnlyAfter
    <2>2. QED BY <1>2, <2>1
  <1>4. ASSUME NEW j \in DOMAIN c, j > Len(q) PROVE c[j] \in S
    <2>1. j \notin DOMAIN q
      BY <1>1, <1>4
    <2>2. QED BY <1>2, <2>1
  <1>5. QED BY <1>3, <1>4 DEF OnlyAfter, c

LEMMA OnlyTail ==
  ASSUME NEW T, NEW q \in Seq(T), q # << >>, NEW k \in Nat, NEW S
  PROVE  /\ OnlyAfter(q, k + 1, S) => OnlyAfter(Tail(q), k, S)
         /\ OnlyAfter(q, 0, S) => OnlyAfter(q, k, S) /\ q[1] \in S
  <1> DEFINE t == Tail(q)
  <1>1. /\ Len(q) \in Nat \ {0} /\ DOMAIN q = 1 .. Len(q)
        /\ DOMAIN t = 1 .. Len(q) - 1
        /\ \A i \in DOMAIN t : t[i] = q[i + 1]
    BY TailIn
  <1> HIDE DEF t
  <1>2. ASSUME OnlyAfter(q, k + 1, S), NEW j \in DOMAIN t, j > k PROVE t[j] \in S
    <2>1. j + 1 \in DOMAIN q /\ j + 1 > k + 1
      BY <1>1, <1>2
    <2>2. q[j + 1] \in S
      BY <1>2, <2>1 DEF OnlyAfter
    <2>3. QED BY <1>1, <2>2
  <1>3. ASSUME OnlyAfter(q, 0, S) PROVE OnlyAfter(q, k, S) /\ q[1] \in S
    <2>1. 1 \in DOMAIN q /\ \A j \in DOMAIN q : j > 0
      BY <1>1
    <2>2. QED BY <1>3, <2>1 DEF OnlyAfter
  <1>4. QED BY <1>2, <1>3 DEF OnlyAfter, t

\* Calls that change nothing may follow, of whatever they are part.
LEMMA RunConcat ==
  ASSUME NEW n, NEW q \in Seq(Call), NEW r \in Seq(Call), NEW m, NEW h,
         OnlyAfter(r, 0, Calm), WillRun(n, q, m, h)
  PROVE  WillRun(n, q \o r, m, h)
  <1>1. OnlyAfter(r, 0, Starting)
    <2>1. Calm \subseteq Starting
      BY DEF Calm, Starting, Call
    <2>2. QED BY <2>1 DEF OnlyAfter
  <1>2. CASE (h \/ RunsAs(n, m)) /\ OnlyAfter(q, 0, Calm)
    BY <1>2, OnlyConcat DEF WillRun
  <1>3. CASE WillNotStop(n, q, h) /\ \E k \in DOMAIN q : StartsAt(n, q, k, m)
    <2>1. \A k \in DOMAIN q : k \in DOMAIN (q \o r) /\ (q \o r)[k] = q[k]
      BY ConcatIn
    <2>2. \A k : /\ OnlyAfter(q, k, Calm) => OnlyAfter(q \o r, k, Calm)
                 /\ OnlyAfter(q, k, Starting) => OnlyAfter(q \o r, k, Starting)
      BY <1>1, OnlyConcat
    <2>3. WillNotStop(n, q \o r, h)
      BY <1>3, <2>1, <2>2 DEF WillNotStop
    <2>4. PICK k \in DOMAIN q : StartsAt(n, q, k, m)
      BY <1>3
    <2>5. k # 1 => k - 1 \in DOMAIN q
      BY ConcatIn
    <2>6. StartsAt(n, q \o r, k, m)
      BY <2>1, <2>2, <2>4, <2>5 DEF StartsAt
    <2>7. QED BY <2>1, <2>3, <2>6 DEF WillRun
  <1>4. QED BY <1>2, <1>3 DEF WillRun

\* libtorrent itself does not change it.
LEMMA RunNative ==
  ASSUME NEW n, NEW n2, NEW q, NEW m, NEW h, WillRun(n, q, m, h),
         RunsAs(n, m) => RunsAs(n2, m), ~n.stop => ~n2.stop, ~n.auto => ~n2.auto
  PROVE  WillRun(n2, q, m, h)
  <1>1. CASE (h \/ RunsAs(n, m)) /\ OnlyAfter(q, 0, Calm)
    BY <1>1 DEF WillRun
  <1>2. CASE WillNotStop(n, q, h) /\ \E k \in DOMAIN q : StartsAt(n, q, k, m)
    <2>1. WillNotStop(n2, q, h)
      BY <1>2 DEF WillNotStop
    <2>2. \A k \in DOMAIN q : StartsAt(n, q, k, m) => StartsAt(n2, q, k, m)
      BY DEF StartsAt
    <2>3. QED BY <1>2, <2>1, <2>2 DEF WillRun
  <1>3. QED BY <1>1, <1>2 DEF WillRun

\* What a call makes of it
LEMMA CalledStarting ==
  ASSUME NEW n \in Native, NEW call \in Starting
  PROVE  /\ ~n.stop \/ call = "runWhenReady" => ~Called(n, call).stop
         /\ call = "manual" => ~Called(n, call).auto
         /\ call = "auto" => Called(n, call).auto
         /\ call = "resume" => ~Called(n, call).paused /\ Called(n, call).auto = n.auto
  <1> DEFINE c == Called(n, call)
  <1>1. CASE call = "pause"
    <2>1. c = Paused(n)
      BY <1>1 DEF Called
    <2>2. n.stop \in BOOLEAN /\ n.auto \in BOOLEAN
      BY DEF Native
    <2>3. QED BY <1>1, <2>1, <2>2, PausedIs
  <1>2. CASE call = "auto"
    <2>1. c = [n EXCEPT !.auto = TRUE]
      BY <1>2 DEF Called
    <2>2. c.auto /\ c.stop = n.stop
      BY <2>1 DEF Native
    <2>3. QED BY <1>2, <2>2
  <1>3. CASE call = "manual"
    <2>1. c = [n EXCEPT !.auto = FALSE]
      BY <1>3 DEF Called
    <2>2. ~c.auto /\ c.stop = n.stop
      BY <2>1 DEF Native
    <2>3. QED BY <1>3, <2>2
  <1>4. CASE call = "resume"
    <2>1. c = [n EXCEPT !.paused = FALSE]
      BY <1>4 DEF Called
    <2>2. ~c.paused /\ c.auto = n.auto /\ c.stop = n.stop
      BY <2>1 DEF Native
    <2>3. QED BY <1>4, <2>2
  <1>5. CASE call = "clearError"
    <2>1. c = [n EXCEPT !.error = FALSE]
      BY <1>5 DEF Called
    <2>2. c.stop = n.stop
      BY <2>1 DEF Native
    <2>3. QED BY <1>5, <2>2
  <1>6. CASE call = "recheck"
    <2>1. c = n \/ c = [n EXCEPT !.state = "checking", !.error = FALSE]
      BY <1>6 DEF Called
    <2>2. c.stop = n.stop
      BY <2>1 DEF Native
    <2>3. QED BY <1>6, <2>2
  <1>7. CASE call = "runWhenReady"
    <2>1. c = [n EXCEPT !.stop = FALSE]
      BY <1>7 DEF Called
    <2>2. ~c.stop
      BY <2>1 DEF Native
    <2>3. QED BY <1>7, <2>2
  <1>8. CASE call = "save"
    <2>1. c = n
      BY <1>8 DEF Called
    <2>2. QED BY <1>8, <2>1
  <1>9. \/ call = "pause" \/ call = "auto" \/ call = "manual" \/ call = "resume"
        \/ call = "clearError" \/ call = "recheck" \/ call = "runWhenReady" \/ call = "save"
    BY DEF Starting, Call
  <1>10. QED
    BY <1>1, <1>2, <1>3, <1>4, <1>5, <1>6, <1>7, <1>8, <1>9

\* A calm call leaves it running or rejected, an error apart.
LEMMA CalledCalm ==
  ASSUME NEW n \in Native, NEW call \in Calm
  PROVE  /\ \A m : RunsAs(n, m) /\ ~(call = "recheck" /\ n.error) => RunsAs(Called(n, call), m)
         /\ Called(n, call).paused = n.paused /\ Called(n, call).auto = n.auto
         /\ Called(n, call).stop = n.stop
         /\ n.state = "checking" => Called(n, call).state = "checking"
  <1> DEFINE c == Called(n, call)
  <1>1. CASE call = "save"
    <2>1. c = n
      BY <1>1 DEF Called
    <2>2. QED BY <2>1
  <1>2. CASE call = "recheck"
    <2>1. c = n \/ c = [n EXCEPT !.state = "checking", !.error = FALSE]
      BY <1>2 DEF Called
    <2>2. /\ c.paused = n.paused /\ c.auto = n.auto /\ c.stop = n.stop
          /\ n.state = "checking" => c.state = "checking"
          /\ ~n.error => ~c.error
      BY <2>1 DEF Native
    <2>3. QED BY <1>2, <2>2 DEF RunsAs
  <1>3. QED BY <1>1, <1>2 DEF Calm

LEMMA RunTail ==
  ASSUME NEW n \in Native, NEW q \in Seq(Call), q # << >>, NEW m \in {"auto", "forced"}, NEW h,
         NEW h2, h2 = ((h \/ (Head(q) = "recheck" /\ n.error)) /\ Head(q) # "runWhenReady"),
         WillRun(n, q, m, h)
  PROVE  WillRun(Called(n, Head(q)), Tail(q), m, h2)
  <1> DEFINE t == Tail(q)
             c == Called(n, Head(q))
  <1>1. /\ Len(q) \in Nat \ {0} /\ DOMAIN q = 1 .. Len(q)
        /\ DOMAIN t = 1 .. Len(q) - 1
        /\ \A i \in DOMAIN t : t[i] = q[i + 1]
        /\ Head(q) = q[1] /\ Head(q) \in Call
    BY TailIn
  <1>2. 1 \in DOMAIN q
    BY <1>1
  <1>3. \A k \in Nat : \A S : OnlyAfter(q, k + 1, S) => OnlyAfter(t, k, S)
    BY OnlyTail
  <1>4. \A k \in Nat : \A S : OnlyAfter(q, 0, S) => OnlyAfter(q, k, S) /\ q[1] \in S
    BY OnlyTail
  <1>5. \A S : OnlyAfter(q, 0, S) => OnlyAfter(t, 0, S) /\ q[1] \in S
    <2>1. 0 \in Nat /\ 0 + 1 \in Nat
      OBVIOUS
    <2>2. QED BY <1>3, <1>4, <2>1
  <1>6. q[1] \in Starting =>
          /\ ~n.stop \/ q[1] = "runWhenReady" => ~c.stop
          /\ q[1] = "manual" => ~c.auto
          /\ q[1] = "auto" => c.auto
          /\ q[1] = "resume" => ~c.paused /\ c.auto = n.auto
    BY <1>1, CalledStarting
  <1>7. q[1] \in Calm => (RunsAs(n, m) /\ ~(q[1] = "recheck" /\ n.error) => RunsAs(c, m))
    BY <1>1, CalledCalm
  <1> HIDE DEF t, c
  <1>8. CASE (h \/ RunsAs(n, m)) /\ OnlyAfter(q, 0, Calm)
    <2>1. OnlyAfter(t, 0, Calm) /\ q[1] \in Calm
      BY <1>5, <1>8
    <2>2. q[1] # "runWhenReady"
      BY <2>1 DEF Calm
    <2>3. h2 \/ RunsAs(c, m)
      BY <1>1, <1>7, <1>8, <2>1, <2>2
    <2>4. QED BY <2>1, <2>3 DEF WillRun, t, c
  <1>9. CASE WillNotStop(n, q, h) /\ \E k \in DOMAIN q : StartsAt(n, q, k, m)
    <2>1. PICK k \in DOMAIN q : StartsAt(n, q, k, m)
      BY <1>9
    <2>2. k \in Nat \ {0} /\ k - 1 \in Nat /\ (k - 1) + 1 = k
      <3>1. k \in 1 .. Len(q) /\ Len(q) \in Nat
        BY <1>1
      <3>2. QED BY <3>1
    <2>3. OnlyAfter(t, k - 1, Calm)
      BY <1>3, <2>1, <2>2 DEF StartsAt
    <2>4. CASE k = 1
      <3>1. q[1] = "auto" \/ q[1] = "resume"
        BY <2>1, <2>4 DEF StartsAt
      <3>2. q[1] \in Starting
        BY <3>1 DEF Starting, Call
      <3>3. h \/ ~n.stop
        <4>1. SUFFICES ASSUME NEW p \in DOMAIN q, q[p] = "runWhenReady" PROVE FALSE
          BY <1>9 DEF WillNotStop
        <4>2. p > 1
          BY <1>1, <3>1, <4>1
        <4>3. q[p] \in Calm
          BY <2>1, <2>4, <4>2 DEF StartsAt, OnlyAfter
        <4>4. QED BY <4>1, <4>3 DEF Calm
      <3>4. h => h2
        BY <1>1, <3>1
      <3>5. ~n.stop => RunsAs(c, m)
        BY <1>6, <2>1, <2>4, <3>2 DEF StartsAt, RunsAs
      <3>6. QED
        BY <2>3, <2>4, <3>3, <3>4, <3>5 DEF WillRun, t, c
    <2>5. CASE k > 1
      <3>1. k - 1 \in DOMAIN t /\ t[k - 1] = q[k]
        BY <1>1, <2>2, <2>5
      <3>2. StartsAt(c, t, k - 1, m)
        <4>1. CASE m = "auto"
          BY <2>1, <2>3, <3>1, <4>1 DEF StartsAt
        <4>2. CASE m = "forced"
          <5>1. q[k] = "resume" /\ q[k - 1] = "manual"
            BY <2>1, <2>5, <4>2 DEF StartsAt
          <5>2. CASE k = 2
            <6>1. q[1] = "manual"
              BY <5>1, <5>2
            <6>2. ~c.auto
              BY <1>6, <6>1 DEF Starting, Call
            <6>3. QED BY <2>3, <3>1, <4>2, <5>1, <5>2, <6>2 DEF StartsAt
          <5>3. CASE k > 2
            <6>1. (k - 1) - 1 \in DOMAIN t /\ ((k - 1) - 1) + 1 = k - 1 /\ k - 1 # 1
              BY <1>1, <2>2, <5>3
            <6>2. t[(k - 1) - 1] = "manual"
              BY <1>1, <5>1, <6>1
            <6>3. QED BY <2>3, <3>1, <4>2, <5>1, <6>1, <6>2 DEF StartsAt
          <5>4. QED BY <2>2, <2>5, <5>2, <5>3
        <4>3. QED BY <4>1, <4>2
      <3>3. WillNotStop(c, t, h2)
        <4>1. CASE (h \/ ~n.stop) /\ OnlyAfter(q, 0, Starting)
          <5>1. OnlyAfter(t, 0, Starting) /\ q[1] \in Starting
            BY <1>5, <4>1
          <5>2. h2 \/ ~c.stop
            BY <1>1, <1>6, <4>1, <5>1
          <5>3. QED BY <5>1, <5>2 DEF WillNotStop
        <4>2. CASE \E p \in DOMAIN q : q[p] = "runWhenReady" /\ OnlyAfter(q, p, Starting)
          <5>1. PICK p \in DOMAIN q : q[p] = "runWhenReady" /\ OnlyAfter(q, p, Starting)
            BY <4>2
          <5>2. p \in Nat \ {0} /\ p - 1 \in Nat /\ (p - 1) + 1 = p
            <6>1. p \in 1 .. Len(q) /\ Len(q) \in Nat
              BY <1>1
            <6>2. QED BY <6>1
          <5>3. OnlyAfter(t, p - 1, Starting)
            BY <1>3, <5>1, <5>2
          <5>4. CASE p = 1
            <6>1. q[1] = "runWhenReady" /\ OnlyAfter(t, 0, Starting)
              BY <5>1, <5>3, <5>4
            <6>2. ~c.stop
              BY <1>6, <6>1 DEF Starting, Call
            <6>3. QED BY <6>1, <6>2 DEF WillNotStop
          <5>5. CASE p # 1
            <6>1. p - 1 \in DOMAIN t /\ t[p - 1] = q[p]
              BY <1>1, <5>2, <5>5
            <6>2. QED BY <5>1, <5>3, <6>1 DEF WillNotStop
          <5>6. QED BY <5>4, <5>5
        <4>3. QED BY <1>9, <4>1, <4>2 DEF WillNotStop
      <3>4. QED BY <3>1, <3>2, <3>3 DEF WillRun, t, c
    <2>6. QED BY <2>2, <2>4, <2>5
  <1>10. QED BY <1>8, <1>9 DEF WillRun

LEMMA NotStopConcat ==
  ASSUME NEW n, NEW q \in Seq(Call), NEW r \in Seq(Call), NEW h,
         OnlyAfter(r, 0, Starting), WillNotStop(n, q, h)
  PROVE  WillNotStop(n, q \o r, h)
  <1>1. \A k \in DOMAIN q : k \in DOMAIN (q \o r) /\ (q \o r)[k] = q[k]
    BY ConcatIn
  <1>2. \A k : OnlyAfter(q, k, Starting) => OnlyAfter(q \o r, k, Starting)
    BY OnlyConcat
  <1>3. QED BY <1>1, <1>2 DEF WillNotStop

LEMMA RunDoesNotStop ==
  ASSUME NEW n, NEW q, NEW m, NEW h, WillRun(n, q, m, h)
  PROVE  WillNotStop(n, q, h)
  <1>1. Calm \subseteq Starting
    BY DEF Calm, Starting, Call
  <1>2. QED BY <1>1 DEF WillRun, WillNotStop, RunsAs, OnlyAfter

\* The end of resume starts it.
LEMMA StartConcat ==
  ASSUME NEW n, NEW q \in Seq(Call), NEW m \in {"auto", "forced"}, NEW h, WillNotStop(n, q, h)
  PROVE  WillRun(n, q \o (IF m = "auto" THEN <<"auto">> ELSE <<"manual", "resume">>), m, h)
  <1> DEFINE a == <<"auto">>
             f == <<"manual", "resume">>
  <1>1. a \in Seq(Call) /\ f \in Seq(Call)
    BY CallSequences DEF Call
  <1>2. OnlyAfter(a, 0, Starting) /\ OnlyAfter(f, 0, Starting)
    BY DEF OnlyAfter, Starting, Call
  <1>3. CASE m = "auto"
    <2>1. Len(a) = 1 /\ a[1] = "auto" /\ 1 \in 1 .. Len(a)
      OBVIOUS
    <2> HIDE DEF a
    <2>2. /\ Len(q) \in Nat /\ DOMAIN (q \o a) = 1 .. Len(q) + Len(a)
          /\ \A i \in 1 .. Len(a) : (q \o a)[Len(q) + i] = a[i]
      BY <1>1, ConcatIn
    <2>3. Len(q) + 1 \in DOMAIN (q \o a) /\ (q \o a)[Len(q) + 1] = "auto"
      BY <2>1, <2>2
    <2>4. OnlyAfter(q \o a, Len(q) + 1, Calm)
      BY <2>1, <2>2 DEF OnlyAfter
    <2>5. StartsAt(n, q \o a, Len(q) + 1, m)
      BY <1>3, <2>3, <2>4 DEF StartsAt
    <2>6. WillNotStop(n, q \o a, h)
      BY <1>1, <1>2, NotStopConcat
    <2>7. WillRun(n, q \o a, m, h)
      BY <2>3, <2>5, <2>6 DEF WillRun
    <2>8. QED BY <1>3, <2>7 DEF a
  <1>4. CASE m = "forced"
    <2>1. Len(f) = 2 /\ f[1] = "manual" /\ f[2] = "resume" /\ 1 \in 1 .. Len(f) /\ 2 \in 1 .. Len(f)
      OBVIOUS
    <2> HIDE DEF f
    <2>2. /\ Len(q) \in Nat /\ DOMAIN (q \o f) = 1 .. Len(q) + Len(f)
          /\ \A i \in 1 .. Len(f) : (q \o f)[Len(q) + i] = f[i]
      BY <1>1, ConcatIn
    <2> DEFINE k == Len(q) + 2
    <2>3. k \in DOMAIN (q \o f) /\ (q \o f)[k] = "resume" /\ (q \o f)[Len(q) + 1] = "manual"
      BY <2>1, <2>2
    <2>4. OnlyAfter(q \o f, k, Calm)
      BY <2>1, <2>2 DEF OnlyAfter
    <2>5. k # 1 /\ k - 1 = Len(q) + 1
      BY <2>2
    <2> HIDE DEF k
    <2>6. StartsAt(n, q \o f, k, m)
      BY <1>4, <2>3, <2>4, <2>5 DEF StartsAt
    <2>7. WillNotStop(n, q \o f, h)
      BY <1>1, <1>2, NotStopConcat
    <2>8. WillRun(n, q \o f, m, h)
      BY <2>3, <2>6, <2>7 DEF WillRun
    <2>9. QED BY <1>4, <2>8 DEF f
  <1>5. QED BY <1>3, <1>4

\* A torrent that was stopped is told not to stop any more.
LEMMA ReadyConcat ==
  ASSUME NEW n, NEW q \in Seq(Call), NEW h
  PROVE  WillNotStop(n, q \o <<"runWhenReady", "save">>, h)
  <1> DEFINE r == <<"runWhenReady", "save">>
  <1>1. r \in Seq(Call)
    BY CallSequences DEF Call
  <1>2. Len(r) = 2 /\ r[1] = "runWhenReady" /\ r[2] = "save" /\ 1 \in 1 .. Len(r)
    OBVIOUS
  <1>3. OnlyAfter(r, 0, Starting)
    BY DEF OnlyAfter, Starting, Call
  <1> HIDE DEF r
  <1>4. /\ Len(q) \in Nat /\ DOMAIN (q \o r) = 1 .. Len(q) + Len(r)
        /\ \A i \in 1 .. Len(r) : (q \o r)[Len(q) + i] = r[i]
    BY <1>1, ConcatIn
  <1>5. Len(q) + 1 \in DOMAIN (q \o r) /\ (q \o r)[Len(q) + 1] = "runWhenReady"
    BY <1>2, <1>4
  <1>6. OnlyAfter(q \o r, Len(q), Starting)
    BY <1>1, <1>3, OnlyConcat
  <1>7. OnlyAfter(q \o r, Len(q) + 1, Starting)
    BY <1>4, <1>6 DEF OnlyAfter
  <1>8. QED BY <1>5, <1>7 DEF WillNotStop, r

LEMMA Regroup ==
  ASSUME NEW q \in Seq(Call), NEW r \in Seq(Call), NEW s \in Seq(Call)
  PROVE  q \o (r \o s) = (q \o r) \o s
  OBVIOUS

LEMMA ResumeRuns ==
  ASSUME NEW n, NEW q \in Seq(Call), NEW m \in {"auto", "forced"}, NEW h, NEW error,
         ~maintenance, ~isStopped => WillNotStop(n, q, h)
  PROVE  WillRun(n, q \o ResumeCalls(m, error), m, h)
  <1> DEFINE a == IF error THEN <<"clearError">> ELSE << >>
             b == IF isStopped THEN <<"runWhenReady", "save">> ELSE << >>
             c == IF m = "auto" THEN <<"auto">> ELSE <<"manual", "resume">>
  <1>1. a \in Seq(Call) /\ b \in Seq(Call) /\ c \in Seq(Call)
    BY CallSequences DEF Call
  <1>2. ResumeCalls(m, error) = (a \o b) \o c
    BY DEF ResumeCalls
  <1>3. OnlyAfter(a, 0, Starting)
    BY DEF OnlyAfter, Starting, Call
  <1>4. isStopped => b = <<"runWhenReady", "save">>
    OBVIOUS
  <1>5. ~isStopped => OnlyAfter(b, 0, Starting)
    BY OnlyEmpty
  <1> HIDE DEF a, b, c
  <1>6. a \o b \in Seq(Call) /\ q \o a \in Seq(Call) /\ q \o (a \o b) \in Seq(Call)
    BY <1>1, ConcatProperties
  <1>7. /\ q \o ((a \o b) \o c) = (q \o (a \o b)) \o c
        /\ q \o (a \o b) = (q \o a) \o b
    <2>1. \A s \in Seq(Call) : q \o (s \o c) = (q \o s) \o c
      BY <1>1, Regroup
    <2>2. q \o (a \o b) = (q \o a) \o b
      BY <1>1, Regroup
    <2>3. QED BY <1>6, <2>1, <2>2
  <1>8. WillNotStop(n, q \o (a \o b), h)
    <2>1. CASE isStopped
      BY <1>4, <1>6, <1>7, <2>1, ReadyConcat
    <2>2. CASE ~isStopped
      <3>1. WillNotStop(n, q \o a, h)
        BY <1>1, <1>3, <2>2, NotStopConcat
      <3>2. QED BY <1>1, <1>5, <1>6, <1>7, <2>2, <3>1, NotStopConcat
    <2>3. QED BY <2>1, <2>2
  <1>9. WillRun(n, (q \o (a \o b)) \o c, m, h)
    BY <1>6, <1>8, StartConcat DEF c
  <1>10. QED BY <1>2, <1>7, <1>9

\* A torrent enters libtorrent with what is wanted.
LEMMA NativeAddRuns ==
  ASSUME NEW flags, NEW known \in BOOLEAN, NEW q \in Seq(Alert), NativeAdd(flags, known, q),
         flags.paused \in BOOLEAN, flags.auto \in BOOLEAN, flags.stop \in BOOLEAN,
         NEW m \in {"auto", "forced"},
         IF m = "auto" THEN flags.auto ELSE ~flags.auto /\ ~flags.paused
  PROVE  \/ flags.stop \/ RunsAs(native', m)
         \/ /\ native'.paused /\ ~native'.auto /\ native'.state = "checking" /\ ~native'.stop
            /\ \E i \in DOMAIN alerts' :
                  alerts'[i].type = "rejected" /\ OnlyAfter(alerts', i, Unfinished)
  <1> DEFINE added(s) == [state |-> s, paused |-> flags.paused, auto |-> flags.auto,
                          stop |-> flags.stop, error |-> FALSE]
  <1>1. ASSUME NEW s \in State, native' = StoppedIfReady(added(s)), ~flags.stop
        PROVE  RunsAs(native', m)
    <2> DEFINE a == added(s)
    <2>1. /\ a \in Native /\ a.paused = flags.paused /\ a.auto = flags.auto
          /\ a.stop = flags.stop /\ a.state = s
      BY <1>1 DEF State, Native
    <2> HIDE DEF a
    <2>2. native' = StoppedIfReady(a)
      BY <1>1 DEF a
    <2>3. native' = a
      BY <1>1, <2>1, <2>2, StoppedIs
    <2>4. QED BY <1>1, <2>1, <2>3 DEF RunsAs
  <1>2. ASSUME native' = Paused([added("checking") EXCEPT !.auto = FALSE]),
               alerts' = Append(q, Told("rejected")), ~flags.stop
        PROVE  /\ native'.paused /\ ~native'.auto /\ native'.state = "checking" /\ ~native'.stop
               /\ \E i \in DOMAIN alerts' :
                     alerts'[i].type = "rejected" /\ OnlyAfter(alerts', i, Unfinished)
    <2> DEFINE a == [added("checking") EXCEPT !.auto = FALSE]
    <2>1. a \in Native /\ a.state = "checking" /\ ~a.auto /\ ~a.stop
      BY <1>2 DEF Native
    <2> HIDE DEF a
    <2>2. native' = Paused(a)
      BY <1>2 DEF a
    <2>3. native'.paused /\ ~native'.auto /\ native'.state = "checking" /\ ~native'.stop
      BY <2>1, <2>2, PausedIs
    <2>4. Told("rejected") \in Alert /\ Told("rejected").type = "rejected"
      BY AlertTypes DEF Told
    <2>5. /\ Len(q) \in Nat /\ DOMAIN alerts' = 1 .. Len(q) + 1
          /\ alerts'[Len(q) + 1].type = "rejected"
      BY <1>2, <2>4, AppendIn
    <2>6. Len(q) + 1 \in DOMAIN alerts' /\ OnlyAfter(alerts', Len(q) + 1, Unfinished)
      BY <2>5 DEF OnlyAfter
    <2>7. QED BY <2>3, <2>5, <2>6
  <1>3. CASE \E s \in State : native' = StoppedIfReady(added(s))
    BY <1>1, <1>3
  <1>4. CASE native' = Paused([added("checking") EXCEPT !.auto = FALSE])
                /\ alerts' = Append(q, Told("rejected"))
    BY <1>2, <1>4
  <1>5. QED BY <1>3, <1>4 DEF NativeAdd, State

LEMMA RunLoaded ==
  ASSUME NEW flags, NEW known \in BOOLEAN, NEW q \in Seq(Alert), NativeAdd(flags, known, q),
         flags.paused \in BOOLEAN, flags.auto \in BOOLEAN, flags.stop \in BOOLEAN,
         mode' \in {"auto", "forced"},
         IF mode' = "auto" THEN flags.auto ELSE ~flags.auto /\ ~flags.paused,
         calls' = << >>, flags.stop => held'
  PROVE  RunningWillRun'
  <1>1. OnlyAfter(calls', 0, Calm)
    BY OnlyEmpty
  <1>2. CASE held' \/ RunsAs(native', mode')
    BY <1>1, <1>2 DEF RunningWillRun, WillRun
  <1>3. CASE ~(held' \/ RunsAs(native', mode'))
    <2>1. /\ native'.paused /\ ~native'.auto /\ native'.state = "checking" /\ ~native'.stop
          /\ \E i \in DOMAIN alerts' :
                alerts'[i].type = "rejected" /\ OnlyAfter(alerts', i, Unfinished)
      BY <1>3, NativeAddRuns
    <2>2. IsRejected'
      BY <1>1, <2>1 DEF IsRejected, WillMiss
    <2>3. QED BY <2>2 DEF RunningWillRun
  <1>4. QED BY <1>2, <1>3

LEMMA MissTail ==
  ASSUME NEW a \in Seq(Alert), a # << >>, NEW missing, NEW missing2, WillMiss(missing, a),
         Head(a).type = "rejected" => missing2,
         missing /\ Head(a).type # "finished" => missing2
  PROVE  WillMiss(missing2, Tail(a))
  <1> DEFINE t == Tail(a)
  <1>1. /\ Len(a) \in Nat \ {0} /\ DOMAIN a = 1 .. Len(a)
        /\ DOMAIN t = 1 .. Len(a) - 1
        /\ \A i \in DOMAIN t : t[i] = a[i + 1]
        /\ Head(a) = a[1]
    BY TailIn
  <1>2. \A k \in Nat : OnlyAfter(a, k + 1, Unfinished) => OnlyAfter(t, k, Unfinished)
    BY OnlyTail
  <1>3. OnlyAfter(a, 0, Unfinished) => OnlyAfter(a, 0 + 1, Unfinished) /\ a[1] \in Unfinished
    <2>1. 0 + 1 \in Nat
      OBVIOUS
    <2>2. QED BY <2>1, OnlyTail
  <1> HIDE DEF t
  <1>4. CASE missing /\ OnlyAfter(a, 0, Unfinished)
    <2>1. a[1].type # "finished" /\ OnlyAfter(a, 0 + 1, Unfinished)
      BY <1>3, <1>4 DEF Unfinished
    <2>2. missing2 /\ OnlyAfter(t, 0, Unfinished)
      BY <1>1, <1>2, <1>4, <2>1
    <2>3. QED BY <2>2 DEF WillMiss, t
  <1>5. CASE \E i \in DOMAIN a : a[i].type = "rejected" /\ OnlyAfter(a, i, Unfinished)
    <2>1. PICK i \in DOMAIN a : a[i].type = "rejected" /\ OnlyAfter(a, i, Unfinished)
      BY <1>5
    <2>2. i - 1 \in Nat /\ (i - 1) + 1 = i
      <3>1. i \in 1 .. Len(a) /\ Len(a) \in Nat
        BY <1>1
      <3>2. QED BY <3>1
    <2>3. OnlyAfter(t, i - 1, Unfinished)
      BY <1>2, <2>1, <2>2
    <2>4. CASE i = 1
      <3>1. missing2 /\ OnlyAfter(t, 0, Unfinished)
        BY <1>1, <2>1, <2>3, <2>4
      <3>2. QED BY <3>1 DEF WillMiss, t
    <2>5. CASE i # 1
      <3>1. i - 1 \in DOMAIN t /\ t[i - 1] = a[i]
        BY <1>1, <2>2, <2>5
      <3>2. QED BY <2>1, <2>3, <3>1 DEF WillMiss, t
    <2>6. QED BY <2>4, <2>5
  <1>6. QED BY <1>4, <1>5 DEF WillMiss

LEMMA MissConcat ==
  ASSUME NEW a \in Seq(Alert), NEW r \in Seq(Alert), NEW missing, WillMiss(missing, a),
         OnlyAfter(r, 0, Unfinished)
  PROVE  WillMiss(missing, a \o r)
  <1>1. \A i \in DOMAIN a : i \in DOMAIN (a \o r) /\ (a \o r)[i] = a[i]
    BY ConcatIn
  <1>2. \A k : OnlyAfter(a, k, Unfinished) => OnlyAfter(a \o r, k, Unfinished)
    BY OnlyConcat
  <1>3. QED BY <1>1, <1>2 DEF WillMiss

\* An answer with resume data is not about it.
LEMMA MissAppend ==
  ASSUME NEW a \in Seq(Alert), NEW n \in Native, NEW missing, WillMiss(missing, a)
  PROVE  WillMiss(missing, Append(a, ResumeData(n)))
  <1>1. ResumeData(n) \in Unfinished
    BY AlertTypes DEF ResumeData, Unfinished
  <1>2. <<ResumeData(n)>> \in Seq(Alert) /\ OnlyAfter(<<ResumeData(n)>>, 0, Unfinished)
    BY <1>1, AlertTypes DEF OnlyAfter
  <1>3. Append(a, ResumeData(n)) = a \o <<ResumeData(n)>>
    BY <1>2, AlertTypes, AppendIsConcat
  <1>4. QED BY <1>2, <1>3, MissConcat

LEMMA RunReloaded ==
  ASSUME TypeOK, NEW m \in {"auto", "forced"}, Reload(FALSE, m), mode' = m
  PROVE  RunningWillRun'
  <1>p. Kept /\ NativeOK
    BY Parts
  <1> DEFINE flags == ReloadFlags(FALSE, m)
  <1>1. flags.paused = (m = "auto") /\ flags.auto = (m = "auto") /\ flags.stop = saved.stop
    BY DEF ReloadFlags
  <1>2. flags.stop \in BOOLEAN
    BY <1>p, <1>1 DEF Kept, Flags
  <1>3. PICK old \in {<< >>} \cup (IF Quiet THEN {alerts} ELSE {}) : NativeAdd(flags, TRUE, old)
    BY DEF Reload
  <1>4. old \in Seq(Alert)
    <2>1. << >> \in Seq(Alert)
      OBVIOUS
    <2>2. alerts \in Seq(Alert)
      BY <1>p DEF NativeOK
    <2>3. old = << >> \/ old = alerts
      BY <1>3
    <2>4. QED BY <2>1, <2>2, <2>3
  <1>5. calls' = << >> /\ (flags.stop => held')
    BY <1>1 DEF Reload
  <1> HIDE DEF flags
  <1>6. QED BY <1>1, <1>2, <1>3, <1>4, <1>5, RunLoaded

LEMMA RunInit == Init => RunningWillRun
  <1> SUFFICES ASSUME Init, ~isStopped PROVE WillRun(native, calls, mode, held)
    BY DEF RunningWillRun
  <1>1. /\ native.paused = isStopped /\ native.auto = (~isStopped /\ mode = "auto")
        /\ native.stop = FALSE
    BY DEF Init, SavedWhen
  <1>2. RunsAs(native, mode)
    BY <1>1 DEF RunsAs
  <1>3. QED BY <1>2, OnlyEmpty DEF WillRun, Init

LEMMA RunByUser == ASSUME TypeOK, RunningWillRun, User PROVE RunningWillRun'
  <1>p. Booleans /\ Kept /\ NativeOK /\ CallsOK
    BY Parts
  <1>c. calls \in Seq(Call)
    BY <1>p DEF CallsOK
  <1>1. CASE Pause
    BY <1>1 DEF Pause, RunningWillRun
  <1>2. ASSUME NEW m \in {"auto", "forced"}, ResumeMissing(m) PROVE RunningWillRun'
    BY <1>2, RunReloaded DEF ResumeMissing
  <1>3. ASSUME NEW m \in {"auto", "forced"}, Resume(m) PROVE RunningWillRun'
    <2> SUFFICES ASSUME ~maintenance', ~Tells(alerts', "metadata")
                 PROVE  WillRun(native', calls', mode', held')
      BY DEF RunningWillRun
    <2>1. /\ ~maintenance /\ ~Tells(alerts, "metadata")
          /\ native' = native /\ held' = held /\ mode' = m
      BY <1>3 DEF Resume
    <2>2. PICK error \in BOOLEAN : calls' = calls \o ResumeCalls(m, error)
      BY <1>3 DEF Resume
    <2>3. ~isStopped => WillNotStop(native, calls, held)
      <3>1. CASE WillRun(native, calls, mode, held)
        BY <3>1, RunDoesNotStop
      <3>2. CASE IsRejected
        <4>1. Calm \subseteq Starting
          BY DEF Calm, Starting, Call
        <4>2. QED BY <3>2, <4>1 DEF IsRejected, WillNotStop, OnlyAfter
      <3>3. QED BY <2>1, <3>1, <3>2 DEF RunningWillRun
    <2>4. WillRun(native, calls \o ResumeCalls(m, error), m, held)
      BY <1>c, <2>1, <2>3, ResumeRuns
    <2>5. QED BY <2>1, <2>2, <2>4
  <1>4. CASE ForceRecheck \/ GenerateResumeData
    <2> SUFFICES ASSUME ~isStopped', ~maintenance', ~Tells(alerts', "metadata")
                 PROVE  WillRun(native', calls', mode', held') \/ IsRejected'
      BY DEF RunningWillRun
    <2>1. /\ ~isStopped /\ ~maintenance /\ ~Tells(alerts, "metadata")
          /\ native' = native /\ alerts' = alerts /\ mode' = mode
      BY <1>4, <1>p DEF ForceRecheck, GenerateResumeData, torrent, Booleans
    <2>2. PICK r : r \in {<<"recheck">>, <<"save">>} /\ calls' = calls \o r
      <3>1. CASE ForceRecheck
        BY <2>1, <3>1 DEF ForceRecheck, RecheckCalls
      <3>2. CASE GenerateResumeData
        <4>1. "save" \in Call
          BY DEF Call
        <4>2. Append(calls, "save") = calls \o <<"save">>
          BY <1>c, <4>1, AppendIsConcat
        <4>3. QED BY <3>2, <4>2 DEF GenerateResumeData
      <3>3. QED BY <1>4, <3>1, <3>2
    <2>3. r \in Seq(Call) /\ OnlyAfter(r, 0, Calm)
      <3>1. <<"recheck">> \in Seq(Call) /\ <<"save">> \in Seq(Call)
        BY CallSequences DEF Call
      <3>2. OnlyAfter(<<"recheck">>, 0, Calm) /\ OnlyAfter(<<"save">>, 0, Calm)
        BY DEF OnlyAfter, Calm
      <3>3. QED BY <2>2, <3>1, <3>2
    <2>4. \A k : OnlyAfter(calls, k, Calm) => OnlyAfter(calls', k, Calm)
      BY <1>c, <2>2, <2>3, OnlyConcat
    <2>5. CASE WillRun(native, calls, mode, held)
      <3>1. WillRun(native, calls', mode, held)
        BY <1>c, <2>2, <2>3, <2>5, RunConcat
      <3>2. held => held'
        BY <1>4 DEF ForceRecheck, GenerateResumeData
      <3>3. QED BY <2>1, <3>1, <3>2 DEF WillRun, WillNotStop
    <2>6. CASE IsRejected
      <3>1. CASE GenerateResumeData
        BY <2>1, <2>4, <2>6, <3>1 DEF IsRejected, GenerateResumeData, torrent
      <3>2. CASE ForceRecheck /\ ~missingFiles
        BY <2>1, <2>4, <2>6, <3>2 DEF IsRejected, WillMiss, ForceRecheck
      <3>3. CASE ForceRecheck /\ missingFiles
        BY <2>4, <2>6, <3>3 DEF IsRejected, WillRun, ForceRecheck
      <3>4. QED BY <1>4, <3>1, <3>2, <3>3
    <2>7. QED BY <2>1, <2>5, <2>6 DEF RunningWillRun
  <1>5. QED BY <1>1, <1>2, <1>3, <1>4 DEF User

LEMMA RunByAlerts == ASSUME TypeOK, RunningWillRun, HandleAlert PROVE RunningWillRun'
  <1>p. Booleans /\ Kept /\ NativeOK /\ CallsOK
    BY Parts
  <1>a. alerts \in Seq(Alert) /\ native \in Native
    BY <1>p DEF NativeOK
  <1>1. CASE HandleMetadataReceived
    BY <1>1 DEF HandleMetadataReceived, RunningWillRun
  <1>2. CASE ~HandleMetadataReceived
    <2> SUFFICES ASSUME ~isStopped', ~maintenance', ~Tells(alerts', "metadata")
                 PROVE  WillRun(native', calls', mode', held') \/ IsRejected'
      BY DEF RunningWillRun
    <2>1. /\ alerts # << >> /\ Head(alerts).type # "metadata"
          /\ isStopped' = isStopped /\ maintenance' = maintenance /\ mode' = mode
          /\ native' = native /\ held' = held
      BY <1>2 DEF HandleAlert, HandleSaveResumeData, HandleTorrentChecked, HandleTorrentFinished,
                  HandleFastResumeRejected, Handles, history
    <2>2. Tail(alerts) \in Seq(Alert)
      BY <1>a, <2>1, TailIn
    <2>3. alerts' = Tail(alerts) \/ alerts' = Append(Tail(alerts), ResumeData(native))
      BY <1>2 DEF HandleAlert, HandleSaveResumeData, HandleTorrentChecked, HandleTorrentFinished,
                  HandleFastResumeRejected
    <2>4. ~Tells(alerts, "metadata")
      <3>1. Tells(alerts, "metadata") => Tells(Tail(alerts), "metadata")
        BY <1>a, <2>1, TailHas
      <3>2. Tells(Tail(alerts), "metadata") =>
               Tells(Append(Tail(alerts), ResumeData(native)), "metadata")
        BY <1>a, <2>2, AlertTypes, AppendHas
      <3>3. QED BY <2>3, <3>1, <3>2
    <2>5. calls' = calls \/ (calls = << >> /\ OnlyAfter(calls', 0, Calm))
      <3>1. CASE HandleTorrentFinished
        <4>1. \/ calls' = calls
              \/ calls = << >> /\ calls' = SaveIf(~native.error)
              \/ calls = << >> /\ calls' = RecheckCalls \o SaveIf(~native.error)
          BY <3>1 DEF HandleTorrentFinished
        <4>2. OnlyAfter(SaveIf(~native.error), 0, Calm)
          <5>1. OnlyAfter(<<"save">>, 0, Calm)
            BY DEF OnlyAfter, Calm
          <5>2. QED BY <5>1, OnlyEmpty DEF SaveIf
        <4>3. OnlyAfter(RecheckCalls, 0, Calm)
          <5>1. OnlyAfter(<<"recheck">>, 0, Calm)
            BY DEF OnlyAfter, Calm
          <5>2. QED BY <2>1, <5>1 DEF RecheckCalls
        <4>4. OnlyAfter(RecheckCalls \o SaveIf(~native.error), 0, Calm)
          BY <4>2, <4>3, CallSequences, OnlyConcat
        <4>5. QED BY <4>1, <4>2, <4>4
      <3>2. CASE ~HandleTorrentFinished
        BY <1>2, <3>2 DEF HandleAlert, HandleSaveResumeData, HandleTorrentChecked,
                          HandleFastResumeRejected
      <3>3. QED BY <3>1, <3>2
    <2>6. CASE WillRun(native, calls, mode, held)
      <3>1. CASE calls' = calls
        BY <2>1, <2>6, <3>1
      <3>2. CASE calls = << >> /\ OnlyAfter(calls', 0, Calm)
        <4>1. held \/ RunsAs(native, mode)
          BY <2>6, <3>2 DEF WillRun
        <4>2. QED BY <2>1, <3>2, <4>1 DEF WillRun
      <3>3. QED BY <2>5, <3>1, <3>2
    <2>7. CASE IsRejected
      <3>1. /\ Head(alerts).type = "rejected" => missingFiles'
            /\ missingFiles /\ Head(alerts).type # "finished" => missingFiles'
        BY <1>2 DEF HandleAlert, HandleSaveResumeData, HandleTorrentChecked,
                    HandleTorrentFinished, HandleFastResumeRejected, Handles
      <3>2. WillMiss(missingFiles', Tail(alerts))
        BY <1>a, <2>1, <2>7, <3>1, MissTail DEF IsRejected
      <3>3. WillMiss(missingFiles', alerts')
        BY <1>a, <2>2, <2>3, <3>2, MissAppend
      <3>4. OnlyAfter(calls', 0, Calm)
        BY <2>5, <2>7 DEF IsRejected
      <3>5. QED BY <2>1, <2>7, <3>3, <3>4 DEF IsRejected
    <2>8. QED BY <2>1, <2>4, <2>6, <2>7 DEF RunningWillRun
  <1>3. QED BY <1>1, <1>2

LEMMA RunBySearch == ASSUME TypeOK, FileSearchFinished PROVE RunningWillRun'
  <1>p. Booleans /\ Kept
    BY Parts
  <1>1. mode \in {"auto", "forced"} /\ mode' = mode /\ isStopped' = isStopped
    BY <1>p DEF FileSearchFinished, Kept
  <1>2. CASE isStopped
    BY <1>1, <1>2 DEF RunningWillRun
  <1>3. CASE ~isStopped
    <2>1. isStopped = FALSE
      BY <1>3, <1>p DEF Booleans
    <2>2. Reload(FALSE, mode)
      BY <2>1 DEF FileSearchFinished
    <2>3. QED BY <1>1, <2>2, RunReloaded
  <1>4. QED BY <1>2, <1>3

LEMMA RunByRestart == ASSUME TypeOK, Restart PROVE RunningWillRun'
  <1>p. Booleans /\ Kept
    BY Parts
  <1> SUFFICES ASSUME ~isStopped' PROVE RunningWillRun'
    BY DEF RunningWillRun
  <1> DEFINE flags == RestoredFlags(saved)
  <1>1. /\ saved.known \in BOOLEAN /\ saved.stop \in BOOLEAN /\ saved.paused \in BOOLEAN
        /\ saved.auto \in BOOLEAN
    BY <1>p DEF Kept, Flags
  <1>2. ~Restored(saved).stopped /\ mode' = Restored(saved).mode
    BY DEF Restart
  <1>3. ~saved.stop
    BY <1>2 DEF Restored
  <1>4. flags = saved
    BY <1>3 DEF RestoredFlags
  <1>5. /\ ~(saved.paused /\ ~saved.auto)
        /\ mode' = IF ~saved.paused /\ ~saved.auto THEN "forced" ELSE "auto"
    BY <1>2, <1>3 DEF Restored
  <1>6. /\ mode' \in {"auto", "forced"}
        /\ IF mode' = "auto" THEN flags.auto ELSE ~flags.auto /\ ~flags.paused
    BY <1>1, <1>4, <1>5
  <1>7. PICK known \in {hasMetadata, hasMetadata \/ saved.known} :
           NativeAdd(flags, known, << >>)
    BY DEF Restart
  <1>8. known \in BOOLEAN
    BY <1>1, <1>p DEF Booleans
  <1>9. calls' = << >> /\ << >> \in Seq(Alert)
    BY DEF Restart
  <1> HIDE DEF flags
  <1>10. QED BY <1>1, <1>3, <1>4, <1>6, <1>7, <1>8, <1>9, RunLoaded

\* What libtorrent does on its own
LEMMA RunOnItsOwn ==
  ASSUME TypeOK, Libtorrent, ~NativeCall, ~NativeMetadata, NEW m \in {"auto", "forced"}
  PROVE  /\ RunsAs(native, m) => RunsAs(native', m)
         /\ ~native.stop => ~native'.stop
         /\ ~native.auto => ~native'.auto
         /\ native.auto \/ ~native.paused
  <1>p. NativeOK
    BY Parts
  <1>n. native \in Native
    BY <1>p DEF NativeOK
  <1>b. native.auto \in BOOLEAN /\ native.stop \in BOOLEAN /\ native.paused \in BOOLEAN
    BY <1>n DEF Native
  <1>1. CASE NativeQueue
    <2>1. CASE native.paused
      <3>1. native' = [native EXCEPT !.paused = FALSE] /\ native.auto
        BY <1>1, <2>1 DEF NativeQueue
      <3>2. ~native'.paused /\ native'.stop = native.stop /\ native'.auto = native.auto
        BY <1>n, <3>1 DEF Native
      <3>3. QED BY <3>1, <3>2 DEF RunsAs
    <2>2. CASE ~native.paused
      <3>1. native' = Paused(native) /\ native.auto
        BY <1>1, <2>2 DEF NativeQueue
      <3>2. native'.auto = native.auto /\ native'.stop = (native.stop /\ native.auto)
        BY <1>n, <2>2, <3>1, PausedIs
      <3>3. QED BY <3>1, <3>2 DEF RunsAs
    <2>3. QED BY <2>1, <2>2
  <1>2. CASE NativeChecked
    <2>1. ~native.paused
      BY <1>2 DEF NativeChecked, Checks
    <2>2. PICK s \in {"downloading", "seeding"} :
             native' = StoppedIfReady([native EXCEPT !.state = s])
      BY <1>2 DEF NativeChecked
    <2> DEFINE a == [native EXCEPT !.state = s]
    <2>3. /\ a \in Native /\ a.auto = native.auto /\ a.stop = native.stop
          /\ a.paused = native.paused /\ a.error = native.error /\ a.state # "checking"
      BY <1>n DEF Native
    <2>4. native' = StoppedIfReady(a)
      BY <2>2
    <2> HIDE DEF a
    <2>5. CASE native.stop
      BY <2>1, <2>3, <2>4, <2>5, StoppedIs DEF RunsAs
    <2>6. CASE ~native.stop
      <3>1. native' = a
        BY <2>3, <2>4, <2>6, StoppedIs
      <3>2. QED BY <2>1, <2>3, <3>1 DEF RunsAs
    <2>7. QED BY <2>5, <2>6
  <1>3. CASE NativeFinished
    <2>1. native' = [native EXCEPT !.state = "seeding"] /\ ~native.paused
      BY <1>3 DEF NativeFinished
    <2>2. /\ native'.auto = native.auto /\ native'.stop = native.stop
          /\ native'.paused = native.paused /\ native'.error = native.error
      BY <1>n, <2>1 DEF Native
    <2>3. QED BY <2>1, <2>2 DEF RunsAs
  <1>4. CASE NativeError
    <2> DEFINE a == [native EXCEPT !.error = TRUE]
    <2>1. /\ a \in Native /\ a.stop = native.stop /\ a.error
          /\ a.paused = native.paused /\ a.auto = native.auto
      BY <1>n DEF Native
    <2>2. native' = Paused(a) /\ ~native.paused
      BY <1>4 DEF NativeError
    <2> HIDE DEF a
    <2>3. /\ native'.auto = native.auto /\ native'.stop = (native.stop /\ native.auto)
          /\ native'.error
      BY <2>1, <2>2, PausedIs
    <2>4. QED BY <2>2, <2>3 DEF RunsAs
  <1>5. QED BY <1>1, <1>2, <1>3, <1>4 DEF Libtorrent

LEMMA RunByLibtorrent == ASSUME TypeOK, RunningWillRun, Libtorrent PROVE RunningWillRun'
  <1>p. Kept /\ NativeOK /\ CallsOK
    BY Parts
  <1>n. /\ native \in Native /\ calls \in Seq(Call) /\ alerts \in Seq(Alert)
        /\ mode \in {"auto", "forced"}
    BY <1>p DEF NativeOK, CallsOK, Kept
  <1> SUFFICES ASSUME ~isStopped', ~maintenance', ~Tells(alerts', "metadata")
               PROVE  WillRun(native', calls', mode', held') \/ IsRejected'
    BY DEF RunningWillRun
  <1>u. UNCHANGED torrent
    BY DEF Libtorrent, NativeCall, NativeQueue, NativeMetadata, NativeChecked, NativeFinished,
           NativeError
  <1>v. /\ ~isStopped /\ ~maintenance /\ isStopped' = isStopped /\ maintenance' = maintenance
        /\ mode' = mode /\ missingFiles' = missingFiles
    BY <1>u DEF torrent
  <1>1. CASE NativeCall
    <2>1. /\ calls # << >> /\ calls' = Tail(calls) /\ native' = Called(native, Head(calls))
          /\ alerts' = alerts \/ alerts' = Append(alerts, ResumeData(native))
          /\ held' = ((held \/ (Head(calls) = "recheck" /\ native.error))
                         /\ Head(calls) # "runWhenReady")
      BY <1>1 DEF NativeCall
    <2>2. ~Tells(alerts, "metadata")
      <3>1. ResumeData(native) \in Alert
        BY <1>n, AlertTypes
      <3>2. Tells(alerts, "metadata") => Tells(Append(alerts, ResumeData(native)), "metadata")
        BY <1>n, <3>1, AppendHas
      <3>3. QED BY <2>1, <3>2
    <2>3. CASE WillRun(native, calls, mode, held)
      BY <1>n, <1>v, <2>1, <2>3, RunTail
    <2>4. CASE IsRejected
      <3>1. OnlyAfter(Tail(calls), 0, Calm) /\ calls[1] \in Calm
        <4>1. 0 \in Nat /\ 0 + 1 \in Nat
          OBVIOUS
        <4>2. OnlyAfter(calls, 0 + 1, Calm) /\ calls[1] \in Calm
          BY <1>n, <2>1, <2>4, <4>1, OnlyTail DEF IsRejected
        <4>3. QED BY <1>n, <2>1, <4>1, <4>2, OnlyTail
      <3>2. Head(calls) \in Calm
        BY <1>n, <2>1, <3>1, TailIn
      <3>3. /\ native'.paused = native.paused /\ native'.auto = native.auto
            /\ native'.stop = native.stop
            /\ native.state = "checking" => native'.state = "checking"
        BY <1>n, <2>1, <3>2, CalledCalm
      <3>4. held => held'
        BY <2>1, <3>2 DEF Calm
      <3>5. WillMiss(missingFiles', alerts')
        BY <1>n, <1>v, <2>1, <2>4, MissAppend DEF IsRejected
      <3>6. QED BY <2>1, <2>4, <3>1, <3>3, <3>4, <3>5 DEF IsRejected
    <2>5. QED BY <1>v, <2>2, <2>3, <2>4 DEF RunningWillRun
  <1>2. CASE NativeMetadata
    <2>1. PICK s \in State : alerts' = Append(alerts, Told("metadata")) \o EndOfCheck(s)
      BY <1>2 DEF NativeMetadata, State
    <2>2. /\ Told("metadata") \in Alert /\ Told("metadata").type = "metadata"
          /\ EndOfCheck(s) \in Seq(Alert)
      BY AlertTypes DEF Told
    <2>3. Append(alerts, Told("metadata")) \in Seq(Alert)
      BY <1>n, <2>2, AppendProperties
    <2>4. Tells(Append(alerts, Told("metadata")), "metadata")
      BY <1>n, <2>2, AppendHas
    <2>5. Tells(alerts', "metadata")
      BY <2>1, <2>2, <2>3, <2>4, ConcatHas
    <2>6. QED BY <2>5
  <1>3. CASE ~NativeCall /\ ~NativeMetadata
    <2>1. calls' = calls /\ held' = held
      BY <1>3 DEF Libtorrent, NativeQueue, NativeChecked, NativeFinished, NativeError, history
    <2>2. ~Tells(alerts, "metadata")
      <3>1. PICK r \in Seq(Alert) : alerts' = alerts \/ alerts' = alerts \o r
        <4>1. CASE NativeChecked
          <5>1. PICK s \in State : alerts' = alerts \o EndOfCheck(s)
            BY <4>1 DEF NativeChecked, State
          <5>2. EndOfCheck(s) \in Seq(Alert)
            BY AlertTypes
          <5>3. QED BY <5>1, <5>2
        <4>2. CASE NativeFinished
          <5>1. Told("finished") \in Alert
            BY AlertTypes
          <5>2. <<Told("finished")>> \in Seq(Alert)
            BY <5>1
          <5>3. alerts' = alerts \o <<Told("finished")>>
            BY <1>n, <4>2, <5>1, AppendIsConcat DEF NativeFinished
          <5>4. QED BY <5>2, <5>3
        <4>3. CASE NativeQueue \/ NativeError
          <5>1. alerts' = alerts
            BY <4>3 DEF NativeQueue, NativeError
          <5>2. QED BY <1>n, <5>1
        <4>4. QED BY <1>3, <4>1, <4>2, <4>3 DEF Libtorrent
      <3>2. Tells(alerts, "metadata") => Tells(alerts \o r, "metadata")
        BY <1>n, ConcatHas
      <3>3. QED BY <3>1, <3>2
    <2>3. /\ RunsAs(native, mode) => RunsAs(native', mode)
          /\ ~native.stop => ~native'.stop
          /\ ~native.auto => ~native'.auto
          /\ native.auto \/ ~native.paused
      BY <1>3, <1>n, RunOnItsOwn
    <2>4. ~IsRejected
      BY <2>3 DEF IsRejected
    <2>5. WillRun(native, calls, mode, held)
      BY <1>v, <2>2, <2>4 DEF RunningWillRun
    <2>6. WillRun(native', calls, mode, held)
      BY <2>3, <2>5, RunNative
    <2>7. QED BY <1>v, <2>1, <2>6
  <1>4. QED BY <1>1, <1>2, <1>3

\* A torrent that is to run is not stopped behind the application's back: once
\* libtorrent has done what it was told it is left to the queue, or runs.
THEOREM ARunningTorrentIsLetRun == Spec => []RunningIsLetRun
  <1>1. ASSUME TypeOK, RunningWillRun, [Next]_vars PROVE RunningWillRun'
    <2>1. CASE UNCHANGED vars
      BY <1>1, <2>1 DEF RunningWillRun, IsRejected, vars, torrent, history
    <2>2. QED
      BY <1>1, <2>1, RunByUser, RunByAlerts, RunBySearch, RunByLibtorrent, RunByRestart DEF Next
  <1>2. ASSUME TypeOK, RunningWillRun PROVE RunningIsLetRun
    <2> SUFFICES ASSUME Settled, ~isStopped, ~missingFiles, ~held
                 PROVE  /\ ~native.stop
                        /\ mode = "auto" => native.auto
                        /\ mode = "forced" => ~native.auto /\ (~native.paused \/ native.error)
      BY DEF RunningIsLetRun
    <2>1. /\ calls = << >> /\ ~maintenance
          /\ ~Tells(alerts, "metadata") /\ ~Tells(alerts, "rejected")
      BY DEF Settled, Pending, Tells
    <2>2. ~IsRejected
      BY <2>1 DEF IsRejected, WillMiss, Tells
    <2>3. WillRun(native, calls, mode, held)
      BY <1>2, <2>1, <2>2 DEF RunningWillRun
    <2>4. RunsAs(native, mode)
      BY <2>1, <2>3 DEF WillRun
    <2>5. QED BY <2>4 DEF RunsAs
  <1>3. QED
    BY <1>1, <1>2, RunInit, TypesHold, PTL DEF Spec

=============================================================================
