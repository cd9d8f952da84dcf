------------------------------ MODULE SyncData ------------------------------
(***************************************************************************)
(* The synchronisation of the pages of the Web UI: SyncController answers     *)
(* with the difference to the response that the page has, if it is the last    *)
(* one or the one before that was acknowledged, and with everything otherwise.  *)
(* The pages are tabs of one browser: its cookie names one WebSession, in        *)
(* which the two responses are kept.                                          *)
(*                                                                         *)
(* Torrents stand for all hashes of maps (categories, peers) and for the map   *)
(* of the server's state, tags for the lists, trackers for hashes of lists.     *)
(***************************************************************************)
EXTENDS Integers, FiniteSets

CONSTANTS
    Tab,
    Torrent, Field, Value,  \* what the map of a torrent has
    Tag, Tracker,
    Snapshot,     \* what the data may be when a response is made
    MaxId,        \* response ids are 1..MaxId; 1000000 in the code
    MaxLosses,    \* bound: responses to a tab that are lost in a row
    MaxSessions   \* bound: sessions that are started

Maps(S, T) == UNION {[D -> T] : D \in SUBSET S}

Data == [torrents: Maps(Torrent, [Field -> Value]),
         tags: SUBSET Tag,
         trackers: Maps(Tracker, SUBSET Torrent)]

ASSUME SyncAssumption ==
    /\ Snapshot \subseteq Data
    /\ MaxId \in Nat \ {0}
    /\ MaxLosses \in Nat /\ MaxLosses < MaxId
    /\ MaxSessions \in Nat \ {0}

VARIABLES
    data,       \* torrents, tags and trackers of the BitTorrent session
    live,       \* the session that the cookie names exists
    sessions,   \* sessions so far
    last,       \* its syncMainDataLastResponse
    accepted,   \* its syncMainDataLastAcceptedResponse
    users,      \* history: tabs that it has answered
    tab,        \* what each tab shows
    answer,     \* a response on its way to each tab
    losses      \* history: responses to each tab lost in a row

vars == <<data, live, sessions, last, accepted, users, tab, answer, losses>>

NoRows == [k \in {} |-> {}]

Empty == [torrents |-> NoRows, tags |-> {}, trackers |-> NoRows]

NoResponse == [rid |-> 0, data |-> Empty]

NoAnswer == [rid |-> 0, told |-> Empty, body |-> NoRows]

\* A tab as it is loaded. It keeps, as history, the data that it was last told
\* of and the session that has answered its first request.
Loaded == [rid |-> 0, shown |-> Empty, told |-> Empty, session |-> 0]

-----------------------------------------------------------------------------
(* Differences *)

\* processMap, for values
ProcessMap(prev, now) == [f \in {g \in DOMAIN now : prev[g] # now[g]} |-> now[f]]

Changed(prev, now) == {k \in DOMAIN now : k \notin DOMAIN prev \/ prev[k] # now[k]}

\* processHash, for maps
ProcessHash(prev, now) ==
    [k \in Changed(prev, now) |->
        IF k \in DOMAIN prev THEN ProcessMap(prev[k], now[k]) ELSE now[k]]

\* processHash, for lists, which it gives whole
ProcessLists(prev, now) == [k \in Changed(prev, now) |-> now[k]]

\* Mutated form: what has gone is not named.
DifferenceKept(prev, now) ==
    [full |-> FALSE,
     torrents |-> ProcessHash(prev.torrents, now.torrents), torrentsRemoved |-> {},
     tags |-> now.tags \ prev.tags, tagsRemoved |-> {},
     trackers |-> ProcessLists(prev.trackers, now.trackers), trackersRemoved |-> {}]

\* processMap, for everything
Difference(prev, now) ==
    [full |-> FALSE,
     torrents |-> ProcessHash(prev.torrents, now.torrents),
     torrentsRemoved |-> DOMAIN prev.torrents \ DOMAIN now.torrents,
     tags |-> now.tags \ prev.tags,
     tagsRemoved |-> prev.tags \ now.tags,
     trackers |-> ProcessLists(prev.trackers, now.trackers),
     trackersRemoved |-> DOMAIN prev.trackers \ DOMAIN now.trackers]

\* A full update
Whole(now) ==
    [full |-> TRUE,
     torrents |-> now.torrents, torrentsRemoved |-> {},
     tags |-> now.tags, tagsRemoved |-> {},
     trackers |-> now.trackers, trackersRemoved |-> {}]

Merged(old, new) ==
    [k \in DOMAIN old \cup DOMAIN new |-> IF k \in DOMAIN new THEN new[k] ELSE old[k]]

\* Mutated form: a row has only the fields that are given.
UpdateRowsAnew(rows, changed, removed) ==
    [k \in (DOMAIN rows \cup DOMAIN changed) \ removed |->
        IF k \in DOMAIN changed THEN changed[k] ELSE rows[k]]

\* updateRowData: the fields that are given replace those of the row.
UpdateRows(rows, changed, removed) ==
    [k \in (DOMAIN rows \cup DOMAIN changed) \ removed |->
        IF k \notin DOMAIN changed THEN rows[k]
        ELSE IF k \notin DOMAIN rows THEN changed[k]
        ELSE Merged(rows[k], changed[k])]

UpdateLists(lists, changed, removed) ==
    [k \in (DOMAIN lists \cup DOMAIN changed) \ removed |->
        IF k \in DOMAIN changed THEN changed[k] ELSE lists[k]]

(* What a tab that shows v shows after response r. A full update clears the
   torrents and the tags, and not the trackers. *)
Shown(v, r) ==
    [torrents |-> UpdateRows(IF r.full THEN NoRows ELSE v.torrents, r.torrents, r.torrentsRemoved),
     tags     |-> ((IF r.full THEN {} ELSE v.tags) \cup r.tags) \ r.tagsRemoved,
     trackers |-> UpdateLists(v.trackers, r.trackers, r.trackersRemoved)]

-----------------------------------------------------------------------------
(* Actions *)

\* What the session shows of torrents changes.
Change ==
    /\ data' \in Snapshot \ {data}
    /\ UNCHANGED <<live, sessions, last, accepted, users, tab, answer, losses>>

\* Mutated form: the ids do not begin anew.
NextIdGrows(i) == i + 1

\* The response that follows response i
NextId(i) == IF i = MaxId THEN 1 ELSE i + 1

\* Mutated form: the response that was accepted before is not looked at.
LastAcceptedForgotten(rid) ==
    IF rid > 0 /\ last.rid = rid THEN last ELSE NoResponse

\* generateSyncData: the response that a tab with response rid has accepted
LastAccepted(rid) ==
    IF rid = 0 THEN NoResponse
    ELSE IF last.rid = rid THEN last ELSE accepted

\* maindataAction, and generateSyncData. Without a session it is refused.
Maindata(c) ==
    /\ answer[c] = NoAnswer
    /\ live
    /\ LET rid     == tab[c].rid
           base    == LastAccepted(rid)
           matches == rid > 0 /\ base.rid = rid
           id      == NextId(IF rid > 0 THEN last.rid ELSE 0)
           body    == IF matches THEN Difference(base.data, data) ELSE Whole(data)
       IN  /\ last' = [rid |-> id, data |-> data]
           /\ accepted' = IF matches THEN base ELSE NoResponse
           /\ answer' = [answer EXCEPT ![c] = [rid |-> id, told |-> data, body |-> body]]
           /\ tab' = [tab EXCEPT ![c].session = IF rid = 0 THEN sessions ELSE @]
    /\ users' = users \cup {c}
    /\ UNCHANGED <<data, live, sessions, losses>>

\* onSuccess
Success(c) ==
    /\ answer[c] # NoAnswer
    /\ tab' = [tab EXCEPT ![c].rid = answer[c].rid,
                          ![c].shown = Shown(tab[c].shown, answer[c].body),
                          ![c].told = answer[c].told]
    /\ answer' = [answer EXCEPT ![c] = NoAnswer]
    /\ losses' = [losses EXCEPT ![c] = 0]
    /\ UNCHANGED <<data, live, sessions, last, accepted, users>>

\* onFailure: the response is lost.
Failure(c) ==
    /\ answer[c] # NoAnswer
    /\ losses[c] < MaxLosses
    /\ losses' = [losses EXCEPT ![c] = @ + 1]
    /\ answer' = [answer EXCEPT ![c] = NoAnswer]
    /\ UNCHANGED <<data, live, sessions, last, accepted, users, tab>>

\* The user loads the page in tab c, for the first time or again.
Load(c) ==
    /\ tab[c] # Loaded
    /\ tab' = [tab EXCEPT ![c] = Loaded]
    /\ answer' = [answer EXCEPT ![c] = NoAnswer]
    /\ losses' = [losses EXCEPT ![c] = 0]
    /\ UNCHANGED <<data, live, sessions, last, accepted, users>>

\* sessionEnd, or sessionInitialize of a session that has expired, or the end of
\* the application
SessionEnd ==
    /\ live
    /\ live' = FALSE
    /\ UNCHANGED <<data, sessions, last, accepted, users, tab, answer, losses>>

\* sessionStart, after a login or where none is needed
SessionStart ==
    /\ ~live
    /\ sessions < MaxSessions
    /\ live' = TRUE
    /\ sessions' = sessions + 1
    /\ last' = NoResponse
    /\ accepted' = NoResponse
    /\ users' = {}
    /\ UNCHANGED <<data, tab, answer, losses>>

-----------------------------------------------------------------------------

Init ==
    /\ data \in Snapshot
    /\ live = FALSE
    /\ sessions = 0
    /\ last = NoResponse
    /\ accepted = NoResponse
    /\ users = {}
    /\ tab = [c \in Tab |-> Loaded]
    /\ answer = [c \in Tab |-> NoAnswer]
    /\ losses = [c \in Tab |-> 0]

Next ==
    \/ Change \/ SessionEnd \/ SessionStart
    \/ \E c \in Tab : Maindata(c) \/ Success(c) \/ Failure(c) \/ Load(c)

(* The page asks again after each response and each failure, and a response
   arrives in the end. *)
Fairness == \A c \in Tab : WF_vars(Maindata(c)) /\ SF_vars(Success(c))

Spec == Init /\ [][Next]_vars

FairSpec == Spec /\ Fairness

-----------------------------------------------------------------------------
(* Properties *)

Stamped == [rid: 0..MaxId, data: Snapshot \cup {Empty}]

\* Types.
TypeOK ==
    /\ data \in Snapshot
    /\ live \in BOOLEAN
    /\ sessions \in 0..MaxSessions
    /\ last \in Stamped /\ accepted \in Stamped
    /\ users \subseteq Tab
    /\ DOMAIN tab = Tab
    /\ \A c \in Tab :
          /\ tab[c].rid \in 0..MaxId
          /\ tab[c].told \in Snapshot \cup {Empty}
          /\ tab[c].session \in 0..sessions
    /\ DOMAIN answer = Tab
    /\ \A c \in Tab : answer[c] # NoAnswer =>
          answer[c].rid \in 1..MaxId /\ answer[c].told \in Snapshot
    /\ losses \in [Tab -> 0..MaxLosses]

(* Tab c is the only one that the session has answered, and it was loaded since
   the session was started. *)
Alone(c) == users = {c} /\ tab[c].session = sessions

(* A tab that is alone shows what it was last told of, whatever was lost, changed
   and came back in between: the function of synccontroller.cpp:388 "returns the
   changed data from the server to synchronize with the web client". *)
InStep == \A c \in Tab : Alone(c) => tab[c].shown = tab[c].told

(* A tab that is alone gets everything once, and differences from then on. *)
OneFullUpdate == \A c \in Tab : Alone(c) /\ tab[c].rid > 0 =>
    tab[c].rid \in {last.rid, accepted.rid} /\ (answer[c] # NoAnswer => ~answer[c].body.full)

\* A tab that is alone comes to show data that stays.
CatchesUp ==
    \A c \in Tab, d \in Snapshot :
        (live /\ Alone(c) /\ data = d) ~>
            (tab[c].shown = d \/ data # d \/ ~live \/ ~Alone(c) \/ tab[c].rid = 0)

=============================================================================
