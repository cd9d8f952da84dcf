--------------------------- MODULE SyncDataProofs ---------------------------
(* Proofs about SyncData, for any number of tabs, data, ids and losses: a    *)
(* difference that is applied to what it was made from gives the new data,   *)
(* and a tab that is alone is never given another one.                       *)
EXTENDS SyncData, TLAPS

-----------------------------------------------------------------------------
(* Differences *)

Row == [Field -> Value]

LEMMA MergedIsNew ==
  ASSUME NEW prev \in Row, NEW now \in Row
  PROVE  Merged(prev, ProcessMap(prev, now)) = now
  BY DEF Merged, ProcessMap, Row

\* A map of maps is put in step by the difference to it.
LEMMA RowsInStep ==
  ASSUME NEW prev \in Maps(Torrent, Row), NEW now \in Maps(Torrent, Row)
  PROVE  UpdateRows(prev, ProcessHash(prev, now), DOMAIN prev \ DOMAIN now) = now
  <1> DEFINE changed == ProcessHash(prev, now)
             rows == UpdateRows(prev, changed, DOMAIN prev \ DOMAIN now)
  <1>1. /\ prev \in [DOMAIN prev -> Row]
        /\ now \in [DOMAIN now -> Row]
    BY DEF Maps
  <1>2. DOMAIN changed = Changed(prev, now)
    BY DEF ProcessHash
  <1>3. (DOMAIN prev \cup DOMAIN changed) \ (DOMAIN prev \ DOMAIN now) = DOMAIN now
    BY <1>2 DEF Changed
  <1>4. rows = [k \in DOMAIN now |->
                  IF k \notin DOMAIN changed THEN prev[k]
                  ELSE IF k \notin DOMAIN prev THEN changed[k]
                  ELSE Merged(prev[k], changed[k])]
    BY <1>3 DEF UpdateRows
  <1>5. ASSUME NEW k \in DOMAIN now PROVE rows[k] = now[k]
    <2>1. CASE k \notin DOMAIN changed
      BY <1>2, <1>4, <2>1 DEF Changed
    <2>2. CASE k \in DOMAIN changed /\ k \notin DOMAIN prev
      <3>1. changed[k] = now[k]
        BY <1>2, <2>2 DEF ProcessHash
      <3>2. QED BY <1>4, <2>2, <3>1
    <2>3. CASE k \in DOMAIN changed /\ k \in DOMAIN prev
      <3>1. changed[k] = ProcessMap(prev[k], now[k])
        BY <1>2, <2>3 DEF ProcessHash
      <3>2. prev[k] \in Row /\ now[k] \in Row
        BY <1>1, <2>3
      <3>3. Merged(prev[k], changed[k]) = now[k]
        BY <3>1, <3>2, MergedIsNew
      <3>4. QED BY <1>4, <2>3, <3>3
    <2>4. QED BY <2>1, <2>2, <2>3
  <1>6. QED
    BY <1>1, <1>4, <1>5

\* A map of lists too
LEMMA ListsInStep ==
  ASSUME NEW K, NEW L, NEW prev \in Maps(K, L), NEW now \in Maps(K, L)
  PROVE  UpdateLists(prev, ProcessLists(prev, now), DOMAIN prev \ DOMAIN now) = now
  <1> DEFINE changed == ProcessLists(prev, now)
             lists == UpdateLists(prev, changed, DOMAIN prev \ DOMAIN now)
  <1>1. now \in [DOMAIN now -> L]
    BY DEF Maps
  <1>2. DOMAIN changed = Changed(prev, now)
    BY DEF ProcessLists
  <1>3. (DOMAIN prev \cup DOMAIN changed) \ (DOMAIN prev \ DOMAIN now) = DOMAIN now
    BY <1>2 DEF Changed
  <1>4. lists = [k \in DOMAIN now |-> IF k \in DOMAIN changed THEN changed[k] ELSE prev[k]]
    BY <1>3 DEF UpdateLists
  <1>5. ASSUME NEW k \in DOMAIN now PROVE lists[k] = now[k]
    <2>1. CASE k \in DOMAIN changed
      <3>1. changed[k] = now[k]
        BY <1>2, <2>1 DEF ProcessLists
      <3>2. QED BY <1>4, <2>1, <3>1
    <2>2. CASE k \notin DOMAIN changed
      BY <1>2, <1>4, <2>2 DEF Changed
    <2>3. QED BY <2>1, <2>2
  <1>6. QED
    BY <1>1, <1>4, <1>5

\* The difference of processMap, applied by the page to the data that it was made
\* from, gives the data that it was made for, for all data.
THEOREM DifferenceIsExact ==
  ASSUME NEW prev \in Data, NEW now \in Data
  PROVE  Shown(prev, Difference(prev, now)) = now
  <1> DEFINE r == Difference(prev, now)
  <1>1. UpdateRows(prev.torrents, r.torrents, r.torrentsRemoved) = now.torrents
    <2>1. prev.torrents \in Maps(Torrent, Row) /\ now.torrents \in Maps(Torrent, Row)
      BY DEF Data, Row
    <2>2. QED BY <2>1, RowsInStep DEF Difference
  <1>2. (prev.tags \cup r.tags) \ r.tagsRemoved = now.tags
    BY DEF Difference
  <1>3. UpdateLists(prev.trackers, r.trackers, r.trackersRemoved) = now.trackers
    <2>1. prev.trackers \in Maps(Tracker, SUBSET Torrent)
          /\ now.trackers \in Maps(Tracker, SUBSET Torrent)
      BY DEF Data
    <2>2. QED BY <2>1, ListsInStep DEF Difference
  <1>4. now = [torrents |-> now.torrents, tags |-> now.tags, trackers |-> now.trackers]
    BY DEF Data
  <1>5. ~r.full
    BY DEF Difference
  <1>6. QED
    BY <1>1, <1>2, <1>3, <1>4, <1>5 DEF Shown

\* A full update gives a page without data all of it.
LEMMA WholeIsExact ==
  ASSUME NEW now \in Data
  PROVE  Shown(Empty, Whole(now)) = now
  <1>1. UpdateRows(NoRows, now.torrents, {}) = now.torrents
    <2>1. now.torrents \in Maps(Torrent, Row)
      BY DEF Data, Row
    <2>2. now.torrents \in [DOMAIN now.torrents -> Row]
      BY <2>1 DEF Maps
    <2>3. QED BY <2>2 DEF UpdateRows, NoRows
  <1>2. UpdateLists(NoRows, now.trackers, {}) = now.trackers
    <2>1. now.trackers \in Maps(Tracker, SUBSET Torrent)
      BY DEF Data
    <2>2. now.trackers \in [DOMAIN now.trackers -> SUBSET Torrent]
      BY <2>1 DEF Maps
    <2>3. QED BY <2>2 DEF UpdateLists, NoRows
  <1>3. now = [torrents |-> now.torrents, tags |-> now.tags, trackers |-> now.trackers]
    BY DEF Data
  <1>4. QED
    BY <1>1, <1>2, <1>3 DEF Shown, Whole, Empty

LEMMA EmptyIsData == Empty \in Data
  <1>1. \A K, L : NoRows \in Maps(K, L)
    BY DEF NoRows, Maps
  <1>2. QED
    BY <1>1 DEF Empty, Data

-----------------------------------------------------------------------------
(* The invariant *)

\* The records that tabs and answers are
Shaped ==
    /\ tab = [c \in Tab |-> [rid |-> tab[c].rid, shown |-> tab[c].shown,
                             told |-> tab[c].told, session |-> tab[c].session]]
    /\ answer = [c \in Tab |-> [rid |-> answer[c].rid, told |-> answer[c].told,
                                body |-> answer[c].body]]

\* A tab that has no response shows nothing.
LoadedIsEmpty == \A c \in Tab : tab[c].rid = 0 =>
    tab[c].shown = Empty /\ tab[c].told = Empty

\* Who has been answered by the session
Served ==
    /\ live \/ users # {} => sessions > 0
    /\ \A c \in Tab : sessions > 0 /\ tab[c].session = sessions => c \in users

\* The responses that were made since the one that tab c has
Ahead(c) == losses[c] + (IF answer[c] = NoAnswer THEN 0 ELSE 1)

\* The last response is that many after the tab's, and what the tab was told is
\* in one of the two that are kept.
Follows(c) ==
    /\ last.rid \in {tab[c].rid + Ahead(c), tab[c].rid + Ahead(c) - MaxId}
    /\ Ahead(c) = 0 => last.data = tab[c].told
    /\ Ahead(c) > 0 => accepted = [rid |-> tab[c].rid, data |-> tab[c].told]
    /\ answer[c] # NoAnswer => answer[c].body = Difference(tab[c].told, answer[c].told)

\* What holds of a tab that is alone
Aligned(c) ==
    /\ last.rid > 0
    /\ tab[c].shown = tab[c].told
    /\ answer[c] # NoAnswer => answer[c].rid = last.rid /\ answer[c].told = last.data
    /\ tab[c].rid = 0 /\ answer[c] # NoAnswer => answer[c].body = Whole(answer[c].told)
    /\ tab[c].rid > 0 => Follows(c)

AloneIsAligned == \A c \in Tab : Alone(c) => Aligned(c)

IInv == TypeOK /\ Shaped /\ LoadedIsEmpty /\ Served /\ AloneIsAligned

LEMMA IInvImplies == IInv => InStep /\ OneFullUpdate
  <1> SUFFICES ASSUME IInv, NEW c \in Tab, Alone(c)
               PROVE  /\ tab[c].shown = tab[c].told
                      /\ tab[c].rid > 0 =>
                            /\ tab[c].rid \in {last.rid, accepted.rid}
                            /\ answer[c] # NoAnswer => ~answer[c].body.full
    BY DEF InStep, OneFullUpdate
  <1>1. Aligned(c)
    BY DEF IInv, AloneIsAligned
  <1>2. ASSUME tab[c].rid > 0 PROVE tab[c].rid \in {last.rid, accepted.rid}
    <2>1. Follows(c) /\ losses[c] \in Nat
      BY <1>1, <1>2, SyncAssumption DEF Aligned, IInv, TypeOK
    <2>2. Ahead(c) \in Nat
      BY <2>1 DEF Ahead
    <2>3. CASE Ahead(c) = 0
      <3>1. tab[c].rid \in 1..MaxId /\ last.rid \in 0..MaxId
        BY <1>2, SyncAssumption DEF IInv, TypeOK, Stamped
      <3>2. last.rid = tab[c].rid
        BY <1>1, <2>1, <2>3, <3>1, SyncAssumption DEF Follows, Aligned
      <3>3. QED BY <3>2
    <2>4. CASE Ahead(c) > 0
      BY <2>1, <2>4 DEF Follows
    <2>5. QED BY <2>2, <2>3, <2>4
  <1>3. ASSUME tab[c].rid > 0, answer[c] # NoAnswer PROVE ~answer[c].body.full
    BY <1>1, <1>3 DEF Aligned, Follows, Difference
  <1>4. QED
    BY <1>1, <1>2, <1>3 DEF Aligned

LEMMA InitIInv == Init => IInv
  <1> SUFFICES ASSUME Init PROVE IInv
    OBVIOUS
  <1>1. TypeOK
    <2>1. NoResponse \in Stamped
      BY SyncAssumption DEF NoResponse, Stamped
    <2>2. sessions \in 0..MaxSessions
      BY SyncAssumption DEF Init
    <2>3. losses \in [Tab -> 0..MaxLosses]
      BY SyncAssumption DEF Init
    <2>4. \A c \in Tab : tab[c].rid \in 0..MaxId /\ tab[c].told = Empty
                          /\ tab[c].session \in 0..sessions
      BY SyncAssumption DEF Init, Loaded
    <2>5. DOMAIN tab = Tab /\ DOMAIN answer = Tab /\ \A c \in Tab : answer[c] = NoAnswer
      BY DEF Init
    <2>6. data \in Snapshot /\ live \in BOOLEAN /\ users \subseteq Tab
          /\ last = NoResponse /\ accepted = NoResponse
      BY DEF Init
    <2>7. QED
      BY <2>1, <2>2, <2>3, <2>4, <2>5, <2>6, Zenon DEF TypeOK
  <1>2. Shaped
    BY DEF Init, Shaped, Loaded, NoAnswer
  <1>3. LoadedIsEmpty
    BY DEF Init, LoadedIsEmpty, Loaded
  <1>4. Served /\ AloneIsAligned
    BY DEF Init, Served, AloneIsAligned, Alone
  <1>5. QED
    BY <1>1, <1>2, <1>3, <1>4 DEF IInv

-----------------------------------------------------------------------------
(* The steps *)

LEMMA ChangeKeeps == IInv /\ Change => IInv'
  <1> SUFFICES ASSUME IInv, Change PROVE IInv'
    OBVIOUS
  <1>1. data' \in Snapshot
    BY DEF Change
  <1>2. TypeOK'
    BY <1>1 DEF IInv, Change, TypeOK
  <1>3. Shaped' /\ LoadedIsEmpty' /\ Served'
    BY DEF IInv, Change, Shaped, LoadedIsEmpty, Served
  <1>4. AloneIsAligned'
    BY DEF IInv, Change, AloneIsAligned, Alone, Aligned, Follows, Ahead
  <1>5. QED
    BY <1>2, <1>3, <1>4 DEF IInv

LEMMA SessionEndKeeps == IInv /\ SessionEnd => IInv'
  BY DEF IInv, SessionEnd, TypeOK, Shaped, LoadedIsEmpty, Served, AloneIsAligned, Alone, Aligned,
         Follows, Ahead

LEMMA SessionStartKeeps == IInv /\ SessionStart => IInv'
  <1> SUFFICES ASSUME IInv, SessionStart PROVE IInv'
    OBVIOUS
  <1> USE DEF IInv, SessionStart
  <1>1. sessions \in Nat /\ sessions' = sessions + 1 /\ sessions' \in 0..MaxSessions
    BY SyncAssumption DEF TypeOK
  <1>2. \A c \in Tab : tab[c].session \in 0..sessions
    BY DEF TypeOK
  <1>3. TypeOK'
    <2>1. NoResponse \in Stamped
      BY SyncAssumption DEF NoResponse, Stamped
    <2>2. \A c \in Tab : tab[c].session \in 0..sessions'
      BY <1>1, <1>2
    <2>3. live' \in BOOLEAN /\ users' = {}
      OBVIOUS
    <2>4. QED
      BY <1>1, <2>1, <2>2, <2>3 DEF TypeOK
  <1>4. Served'
    BY <1>1, <1>2 DEF Served
  <1>5. AloneIsAligned'
    BY DEF AloneIsAligned, Alone
  <1>6. Shaped' /\ LoadedIsEmpty'
    BY DEF Shaped, LoadedIsEmpty
  <1>7. QED
    BY <1>3, <1>4, <1>5, <1>6

\* What is not about the tab of a step stays as it was.
LEMMA OthersAligned ==
  ASSUME NEW c \in Tab, Aligned(c), tab'[c] = tab[c], answer'[c] = answer[c],
         losses'[c] = losses[c], last' = last, accepted' = accepted
  PROVE  Aligned(c)'
  BY DEF Aligned, Follows, Ahead

LEMMA FailureKeeps == ASSUME IInv, NEW c \in Tab, Failure(c) PROVE IInv'
  <1> USE DEF IInv, Failure
  <1>1. losses[c] \in Nat /\ losses'[c] = losses[c] + 1 /\ losses' \in [Tab -> 0..MaxLosses]
    BY SyncAssumption DEF TypeOK
  <1>2. answer'[c] = NoAnswer /\ answer[c] # NoAnswer
    BY DEF TypeOK
  <1>3. \A d \in Tab : d # c => answer'[d] = answer[d] /\ losses'[d] = losses[d]
    BY DEF TypeOK
  <1>4. TypeOK'
    BY <1>1, <1>2, <1>3 DEF TypeOK
  <1>5. Shaped'
    BY <1>2, <1>3 DEF Shaped, NoAnswer
  <1>6. LoadedIsEmpty' /\ Served'
    BY DEF LoadedIsEmpty, Served
  <1>7. ASSUME NEW d \in Tab, Alone(d)' PROVE Aligned(d)'
    <2>1. Alone(d) /\ Aligned(d)
      BY <1>7 DEF Alone, AloneIsAligned
    <2>2. CASE d # c
      BY <1>3, <2>1, <2>2, OthersAligned
    <2>3. CASE d = c
      <3>1. Ahead(c)' = Ahead(c) /\ Ahead(c) > 0
        BY <1>1, <1>2 DEF Ahead
      <3>2. tab[c].rid > 0 => Follows(c)'
        BY <1>2, <2>1, <2>3, <3>1 DEF Aligned, Follows
      <3>3. QED
        BY <1>2, <2>1, <2>3, <3>2 DEF Aligned
    <2>4. QED BY <2>2, <2>3
  <1>8. QED
    BY <1>4, <1>5, <1>6, <1>7 DEF AloneIsAligned

LEMMA LoadKeeps == ASSUME IInv, NEW c \in Tab, Load(c) PROVE IInv'
  <1> USE DEF IInv, Load
  <1>1. tab'[c] = Loaded /\ answer'[c] = NoAnswer /\ losses'[c] = 0
    BY DEF TypeOK
  <1>2. \A d \in Tab : d # c =>
           tab'[d] = tab[d] /\ answer'[d] = answer[d] /\ losses'[d] = losses[d]
    BY DEF TypeOK
  <1>3. TypeOK'
    <2>1. losses' \in [Tab -> 0..MaxLosses]
      BY SyncAssumption DEF TypeOK
    <2>2. tab'[c].rid \in 0..MaxId /\ tab'[c].told = Empty /\ tab'[c].session \in 0..sessions
      BY <1>1, SyncAssumption DEF Loaded, TypeOK
    <2>3. \A d \in Tab :
             /\ tab'[d].rid \in 0..MaxId
             /\ tab'[d].told \in Snapshot \cup {Empty}
             /\ tab'[d].session \in 0..sessions'
      BY <1>2, <2>2 DEF TypeOK
    <2>4. \A d \in Tab : answer'[d] # NoAnswer =>
             answer'[d].rid \in 1..MaxId /\ answer'[d].told \in Snapshot
      BY <1>1, <1>2 DEF TypeOK
    <2>5. QED
      BY <2>1, <2>3, <2>4 DEF TypeOK
  <1>4. Shaped'
    BY <1>1, <1>2 DEF Shaped, Loaded, NoAnswer
  <1>5. LoadedIsEmpty'
    BY <1>1, <1>2 DEF LoadedIsEmpty, Loaded
  <1>6. Served'
    BY <1>1, <1>2 DEF Served, Loaded
  <1>7. ASSUME NEW d \in Tab, Alone(d)' PROVE Aligned(d)'
    <2>1. d # c
      <3>1. sessions > 0
        BY <1>7 DEF Alone, Served
      <3>2. tab'[c].session = 0
        BY <1>1 DEF Loaded
      <3>3. QED BY <1>7, <3>1, <3>2 DEF Alone
    <2>2. Aligned(d)
      BY <1>2, <1>7, <2>1 DEF Alone, AloneIsAligned
    <2>3. QED
      BY <1>2, <2>1, <2>2, OthersAligned
  <1>8. QED
    BY <1>3, <1>4, <1>5, <1>6, <1>7 DEF AloneIsAligned

LEMMA SuccessKeeps == ASSUME IInv, NEW c \in Tab, Success(c) PROVE IInv'
  <1> USE DEF IInv, Success
  <1>1. /\ tab'[c] = [rid |-> answer[c].rid, shown |-> Shown(tab[c].shown, answer[c].body),
                      told |-> answer[c].told, session |-> tab[c].session]
        /\ answer'[c] = NoAnswer /\ losses'[c] = 0
    <2>1. tab[c] = [rid |-> tab[c].rid, shown |-> tab[c].shown,
                    told |-> tab[c].told, session |-> tab[c].session]
      BY DEF Shaped
    <2>2. QED
      BY <2>1 DEF TypeOK
  <1>2. \A d \in Tab : d # c =>
           tab'[d] = tab[d] /\ answer'[d] = answer[d] /\ losses'[d] = losses[d]
    BY DEF TypeOK
  <1>3. answer[c].rid \in 1..MaxId /\ answer[c].rid # 0 /\ answer[c].told \in Snapshot
    BY SyncAssumption DEF TypeOK
  <1>a. /\ tab'[c].rid = answer[c].rid /\ tab'[c].session = tab[c].session
        /\ tab'[c].told = answer[c].told
        /\ tab'[c].shown = Shown(tab[c].shown, answer[c].body)
    BY <1>1
  <1>4. TypeOK'
    <2>1. losses' \in [Tab -> 0..MaxLosses]
      BY SyncAssumption DEF TypeOK
    <2>2. /\ tab'[c].rid \in 0..MaxId
          /\ tab'[c].told \in Snapshot
          /\ tab'[c].session \in 0..sessions
      BY <1>1, <1>3, SyncAssumption DEF TypeOK
    <2>3. \A d \in Tab :
             /\ tab'[d].rid \in 0..MaxId
             /\ tab'[d].told \in Snapshot \cup {Empty}
             /\ tab'[d].session \in 0..sessions'
      BY <1>2, <2>2 DEF TypeOK
    <2>4. \A d \in Tab : answer'[d] # NoAnswer =>
             answer'[d].rid \in 1..MaxId /\ answer'[d].told \in Snapshot
      BY <1>1, <1>2 DEF TypeOK
    <2>5. QED
      BY <2>1, <2>3, <2>4 DEF TypeOK
  <1>5. Shaped'
    BY <1>1, <1>2 DEF Shaped, NoAnswer
  <1>6. LoadedIsEmpty'
    BY <1>a, <1>2, <1>3 DEF LoadedIsEmpty
  <1>7. Served'
    BY <1>a, <1>2 DEF Served
  <1>8. ASSUME NEW d \in Tab, Alone(d)' PROVE Aligned(d)'
    <2>1. Alone(d) /\ Aligned(d)
      <3>1. tab'[d].session = tab[d].session
        BY <1>a, <1>2
      <3>2. Alone(d)
        BY <1>8, <3>1 DEF Alone
      <3>3. QED BY <3>2 DEF AloneIsAligned
    <2>2. CASE d # c
      BY <1>2, <2>1, <2>2, OthersAligned
    <2>3. CASE d = c
      <3>1. answer[c].rid = last.rid /\ answer[c].told = last.data
        BY <2>1, <2>3 DEF Aligned
      <3>2. tab[c].shown \in Data /\ answer[c].told \in Data /\ tab[c].shown = tab[c].told
        BY <1>3, <2>1, <2>3, EmptyIsData, SyncAssumption DEF Aligned, TypeOK
      <3>3. Shown(tab[c].shown, answer[c].body) = answer[c].told
        <4>1. CASE tab[c].rid = 0
          <5>1. tab[c].shown = Empty /\ answer[c].body = Whole(answer[c].told)
            BY <2>1, <2>3, <4>1 DEF Aligned, LoadedIsEmpty
          <5>2. QED BY <3>2, <5>1, WholeIsExact
        <4>2. CASE tab[c].rid > 0
          <5>1. answer[c].body = Difference(tab[c].shown, answer[c].told)
            BY <2>1, <2>3, <3>2, <4>2 DEF Aligned, Follows
          <5>2. QED BY <3>2, <5>1, DifferenceIsExact
        <4>3. tab[c].rid \in 0..MaxId
          BY DEF TypeOK
        <4>4. QED BY <4>1, <4>2, <4>3, SyncAssumption
      <3>4. Ahead(c)' = 0 /\ answer'[c] = NoAnswer
        BY <1>1 DEF Ahead
      <3>5. Follows(c)'
        <4>1. last'.rid = tab'[c].rid /\ last'.data = tab'[c].told
          BY <1>a, <3>1
        <4>2. last'.rid = tab'[c].rid + Ahead(c)'
          <5>1. tab'[c].rid \in Int
            BY <1>a, <1>3
          <5>2. tab'[c].rid = tab'[c].rid + 0
            BY <5>1
          <5>3. QED BY <3>4, <4>1, <5>2
        <4>3. QED BY <3>4, <4>1, <4>2, SyncAssumption DEF Follows
      <3>6. last'.rid > 0
        BY <1>3, <3>1, SyncAssumption
      <3>7. tab'[c].shown = tab'[c].told
        BY <1>a, <3>3
      <3>8. QED
        BY <2>3, <3>4, <3>5, <3>6, <3>7 DEF Aligned
    <2>4. QED BY <2>2, <2>3
  <1>9. QED
    BY <1>4, <1>5, <1>6, <1>7, <1>8 DEF AloneIsAligned

\* A request is answered with the difference to what the tab has, if the responses
\* were made for it alone.
LEMMA MaindataFollows ==
  ASSUME IInv, NEW c \in Tab, Maindata(c), tab[c].rid > 0, Alone(c)
  PROVE  /\ last'.rid \in {tab[c].rid + losses[c] + 1, tab[c].rid + losses[c] + 1 - MaxId}
         /\ accepted' = [rid |-> tab[c].rid, data |-> tab[c].told]
         /\ answer'[c].body = Difference(tab[c].told, data)
         /\ answer'[c].rid = last'.rid
         /\ answer'[c].told = data /\ last'.data = data
  <1> DEFINE rid == tab[c].rid
             base == LastAccepted(rid)
  <1> USE DEF IInv, Maindata
  <1>1. rid \in 1..MaxId /\ last \in Stamped /\ accepted \in Stamped
        /\ losses[c] \in 0..MaxLosses
    BY SyncAssumption DEF TypeOK
  <1>2. Ahead(c) = losses[c] /\ Follows(c)
    BY <1>1, SyncAssumption DEF Ahead, AloneIsAligned, Aligned
  <1>3. last.rid \in 0..MaxId /\ last.rid \in {rid + losses[c], rid + losses[c] - MaxId}
    BY <1>1, <1>2 DEF Follows, Stamped
  <1>4. last.rid = rid <=> losses[c] = 0
    <2>1. /\ MaxId \in Nat /\ MaxLosses \in Nat /\ MaxLosses < MaxId
          /\ rid \in Int /\ 1 <= rid /\ rid <= MaxId
          /\ losses[c] \in Int /\ 0 <= losses[c] /\ losses[c] <= MaxLosses
          /\ last.rid \in Int /\ 1 <= last.rid
          /\ (last.rid = rid + losses[c] \/ last.rid = rid + losses[c] - MaxId)
      BY <1>1, <1>2, <1>3, SyncAssumption DEF Aligned, AloneIsAligned
    <2>2. QED BY <2>1
  <1>5. base = [rid |-> rid, data |-> tab[c].told]
    <2>1. CASE losses[c] = 0
      <3>1. base = last /\ last.rid = rid /\ last.data = tab[c].told
        BY <1>1, <1>2, <1>4, <2>1, SyncAssumption DEF LastAccepted, Follows
      <3>2. last = [rid |-> last.rid, data |-> last.data]
        BY <1>1 DEF Stamped
      <3>3. QED BY <3>1, <3>2
    <2>2. CASE losses[c] > 0
      BY <1>1, <1>2, <1>4, <2>2, SyncAssumption DEF LastAccepted, Follows
    <2>3. QED BY <1>1, <2>1, <2>2, SyncAssumption
  <1>6. rid > 0 /\ base.rid = rid /\ base.data = tab[c].told
    BY <1>1, <1>5, SyncAssumption
  <1>7. /\ last' = [rid |-> NextId(last.rid), data |-> data]
        /\ accepted' = base
        /\ answer'[c] = [rid |-> NextId(last.rid), told |-> data,
                         body |-> Difference(tab[c].told, data)]
    BY <1>6 DEF TypeOK
  <1>8. NextId(last.rid) \in {rid + losses[c] + 1, rid + losses[c] + 1 - MaxId}
    BY <1>1, <1>3, SyncAssumption DEF NextId
  <1>9. QED
    BY <1>5, <1>7, <1>8

\* The first request of a tab is answered with everything.
LEMMA MaindataBegins ==
  ASSUME IInv, NEW c \in Tab, Maindata(c), tab[c].rid = 0
  PROVE  /\ last' = [rid |-> 1, data |-> data]
         /\ accepted' = NoResponse
         /\ answer'[c] = [rid |-> 1, told |-> data, body |-> Whole(data)]
         /\ tab'[c].session = sessions
  <1>1. NextId(0) = 1
    BY SyncAssumption DEF NextId
  <1>2. /\ last' = [rid |-> 1, data |-> data]
        /\ accepted' = NoResponse
        /\ answer'[c] = [rid |-> 1, told |-> data, body |-> Whole(data)]
    BY <1>1 DEF Maindata, IInv, TypeOK
  <1>3. tab[c] = [rid |-> tab[c].rid, shown |-> tab[c].shown,
                  told |-> tab[c].told, session |-> tab[c].session]
    BY DEF IInv, Shaped
  <1>4. tab'[c].session = sessions
    BY <1>3 DEF Maindata, IInv, TypeOK
  <1>5. QED
    BY <1>2, <1>4

LEMMA MaindataTypes ==
  ASSUME IInv, NEW c \in Tab, Maindata(c)
  PROVE  /\ last' \in Stamped /\ accepted' \in Stamped
         /\ answer'[c].rid \in 1..MaxId /\ answer'[c].told \in Snapshot
         /\ answer'[c] = [rid |-> answer'[c].rid, told |-> answer'[c].told,
                          body |-> answer'[c].body]
         /\ tab'[c] = [rid |-> tab[c].rid, shown |-> tab[c].shown, told |-> tab[c].told,
                       session |-> IF tab[c].rid = 0 THEN sessions ELSE tab[c].session]
  <1> DEFINE base == LastAccepted(tab[c].rid)
             id == NextId(IF tab[c].rid > 0 THEN last.rid ELSE 0)
  <1>1. last \in Stamped /\ accepted \in Stamped /\ NoResponse \in Stamped /\ data \in Snapshot
    BY SyncAssumption DEF IInv, TypeOK, NoResponse, Stamped
  <1>2. base \in Stamped
    BY <1>1 DEF LastAccepted
  <1>3. id \in 1..MaxId
    <2>1. \A i \in 0..MaxId : NextId(i) \in 1..MaxId
      BY SyncAssumption DEF NextId
    <2>2. last.rid \in 0..MaxId /\ 0 \in 0..MaxId
      BY <1>1, SyncAssumption DEF Stamped
    <2>3. QED BY <2>1, <2>2
  <1>4. last' \in Stamped
    <2>1. last' = [rid |-> id, data |-> data]
      BY DEF Maindata
    <2>2. id \in 0..MaxId
      BY <1>3, SyncAssumption
    <2>3. QED BY <1>1, <2>1, <2>2 DEF Stamped
  <1>5. accepted' \in Stamped
    <2>1. accepted' = base \/ accepted' = NoResponse
      BY DEF Maindata
    <2>2. QED BY <1>1, <1>2, <2>1
  <1>6. /\ answer'[c].rid = id /\ answer'[c].told = data
        /\ answer'[c] = [rid |-> answer'[c].rid, told |-> answer'[c].told,
                         body |-> answer'[c].body]
    BY DEF Maindata, IInv, TypeOK
  <1>7. tab'[c] = [rid |-> tab[c].rid, shown |-> tab[c].shown, told |-> tab[c].told,
                   session |-> IF tab[c].rid = 0 THEN sessions ELSE tab[c].session]
    <2>1. tab[c] = [rid |-> tab[c].rid, shown |-> tab[c].shown,
                    told |-> tab[c].told, session |-> tab[c].session]
      BY DEF IInv, Shaped
    <2>2. QED
      BY <2>1 DEF Maindata, IInv, TypeOK
  <1>8. QED
    BY <1>1, <1>3, <1>4, <1>5, <1>6, <1>7

LEMMA MaindataKeeps == ASSUME IInv, NEW c \in Tab, Maindata(c) PROVE IInv'
  <1>1. /\ answer[c] = NoAnswer /\ live
        /\ users' = users \cup {c}
        /\ UNCHANGED <<data, live, sessions, losses>>
    BY DEF Maindata
  <1>2. \A d \in Tab : d # c => tab'[d] = tab[d] /\ answer'[d] = answer[d]
    BY DEF Maindata, IInv, TypeOK
  <1>3. DOMAIN tab' = Tab /\ DOMAIN answer' = Tab
        /\ tab' = [d \in Tab |-> tab'[d]] /\ answer' = [d \in Tab |-> answer'[d]]
    BY DEF Maindata, IInv, TypeOK, Shaped
  <1>4. /\ last' \in Stamped /\ accepted' \in Stamped
        /\ answer'[c].rid \in 1..MaxId /\ answer'[c].told \in Snapshot
        /\ answer'[c] = [rid |-> answer'[c].rid, told |-> answer'[c].told,
                         body |-> answer'[c].body]
        /\ tab'[c] = [rid |-> tab[c].rid, shown |-> tab[c].shown, told |-> tab[c].told,
                      session |-> IF tab[c].rid = 0 THEN sessions ELSE tab[c].session]
    BY MaindataTypes
  <1>5. /\ tab'[c].rid = tab[c].rid /\ tab'[c].shown = tab[c].shown
        /\ tab'[c].told = tab[c].told
        /\ tab'[c].session = IF tab[c].rid = 0 THEN sessions ELSE tab[c].session
    BY <1>4
  <1>6. sessions \in Nat /\ sessions > 0 /\ sessions \in 0..sessions
    BY <1>1, SyncAssumption DEF IInv, TypeOK, Served
  <1>7. TypeOK'
    <2>1. \A d \in Tab :
             /\ tab'[d].rid \in 0..MaxId
             /\ tab'[d].told \in Snapshot \cup {Empty}
             /\ tab'[d].session \in 0..sessions'
      BY <1>1, <1>2, <1>5, <1>6 DEF IInv, TypeOK
    <2>2. \A d \in Tab : answer'[d] # NoAnswer =>
             answer'[d].rid \in 1..MaxId /\ answer'[d].told \in Snapshot
      BY <1>2, <1>4 DEF IInv, TypeOK
    <2>3. data' \in Snapshot /\ live' \in BOOLEAN /\ sessions' \in 0..MaxSessions
          /\ users' \subseteq Tab /\ losses' \in [Tab -> 0..MaxLosses]
      BY <1>1 DEF IInv, TypeOK
    <2>4. QED
      BY <1>3, <1>4, <2>1, <2>2, <2>3 DEF TypeOK
  <1>8. Shaped'
    <2>1. \A d \in Tab :
             /\ tab'[d] = [rid |-> tab'[d].rid, shown |-> tab'[d].shown,
                           told |-> tab'[d].told, session |-> tab'[d].session]
             /\ answer'[d] = [rid |-> answer'[d].rid, told |-> answer'[d].told,
                              body |-> answer'[d].body]
      BY <1>2, <1>4, <1>5 DEF IInv, Shaped
    <2>2. QED
      BY <1>3, <2>1 DEF Shaped
  <1>9. LoadedIsEmpty'
    BY <1>2, <1>5 DEF IInv, LoadedIsEmpty
  <1>10. Served'
    BY <1>1, <1>2, <1>6 DEF IInv, Served
  <1>11. ASSUME NEW d \in Tab, Alone(d)' PROVE Aligned(d)'
    <2>1. d = c
      BY <1>1, <1>11 DEF Alone
    <2>2. CASE tab[c].rid = 0
      <3>1. /\ last' = [rid |-> 1, data |-> data]
            /\ answer'[c] = [rid |-> 1, told |-> data, body |-> Whole(data)]
        BY <2>2, MaindataBegins
      <3>2. last'.rid = 1 /\ last'.data = data
            /\ answer'[c].rid = 1 /\ answer'[c].told = data /\ answer'[c].body = Whole(data)
        BY <3>1
      <3>3. tab'[c].rid = 0 /\ tab'[c].shown = tab'[c].told
        BY <1>5, <2>2 DEF IInv, LoadedIsEmpty
      <3>4. QED
        BY <2>1, <3>2, <3>3 DEF Aligned
    <2>3. CASE tab[c].rid > 0
      <3>1. tab'[c].session = tab[c].session
        BY <1>5, <2>3
      <3>2. tab[c].session = sessions
        BY <1>1, <1>11, <2>1, <3>1 DEF Alone
      <3>3. Alone(c)
        <4>1. c \in users
          BY <1>6, <3>2 DEF IInv, Served
        <4>2. users = {c}
          BY <1>1, <1>11, <2>1, <4>1 DEF Alone
        <4>3. QED BY <3>2, <4>2 DEF Alone
      <3>4. /\ last'.rid \in {tab[c].rid + losses[c] + 1, tab[c].rid + losses[c] + 1 - MaxId}
            /\ accepted' = [rid |-> tab[c].rid, data |-> tab[c].told]
            /\ answer'[c].body = Difference(tab[c].told, data)
            /\ answer'[c].rid = last'.rid
            /\ answer'[c].told = data /\ last'.data = data
        BY <2>3, <3>3, MaindataFollows
      <3>5. answer'[c] # NoAnswer
        BY <1>4, SyncAssumption DEF NoAnswer
      <3>6. losses[c] \in Nat /\ losses'[c] = losses[c] /\ tab[c].rid \in Nat
        BY <1>1, SyncAssumption DEF IInv, TypeOK
      <3>7. Ahead(c)' = losses[c] + 1
        BY <3>5, <3>6 DEF Ahead
      <3>8. last'.rid \in {tab'[c].rid + Ahead(c)', tab'[c].rid + Ahead(c)' - MaxId}
        <4>1. tab[c].rid + (losses[c] + 1) = tab[c].rid + losses[c] + 1
          BY <3>6
        <4>2. tab[c].rid + (losses[c] + 1) - MaxId = tab[c].rid + losses[c] + 1 - MaxId
          BY <3>6, SyncAssumption
        <4>3. QED BY <1>5, <3>4, <3>7, <4>1, <4>2
      <3>9. Follows(c)'
        <4>1. Ahead(c)' # 0
          BY <3>6, <3>7
        <4>2. accepted' = [rid |-> tab'[c].rid, data |-> tab'[c].told]
          BY <1>5, <3>4
        <4>3. answer'[c].body = Difference(tab'[c].told, answer'[c].told)
          BY <1>5, <3>4
        <4>4. QED BY <3>8, <4>1, <4>2, <4>3 DEF Follows
      <3>10. last'.rid > 0
        BY <1>4, <3>4, SyncAssumption
      <3>11. tab'[c].shown = tab'[c].told /\ tab'[c].rid # 0
        BY <1>5, <2>3, <3>3, <3>6 DEF IInv, AloneIsAligned, Aligned
      <3>12. QED
        BY <2>1, <3>4, <3>9, <3>10, <3>11 DEF Aligned
    <2>4. tab[c].rid \in 0..MaxId
      BY DEF IInv, TypeOK
    <2>5. QED BY <2>2, <2>3, <2>4, SyncAssumption
  <1>12. QED
    BY <1>7, <1>8, <1>9, <1>10, <1>11 DEF IInv, AloneIsAligned

LEMMA StutterKeeps == IInv /\ UNCHANGED vars => IInv'
  <1> SUFFICES ASSUME IInv, UNCHANGED vars PROVE IInv'
    OBVIOUS
  <1>1. TypeOK'
    BY DEF IInv, vars, TypeOK
  <1>2. Shaped' /\ LoadedIsEmpty' /\ Served'
    BY DEF IInv, vars, Shaped, LoadedIsEmpty, Served
  <1>3. AloneIsAligned'
    BY DEF IInv, vars, AloneIsAligned, Alone, Aligned, Follows, Ahead
  <1>4. QED
    BY <1>1, <1>2, <1>3 DEF IInv

LEMMA NextKeeps == IInv /\ [Next]_vars => IInv'
  <1> SUFFICES ASSUME IInv, [Next]_vars PROVE IInv'
    OBVIOUS
  <1>1. CASE Change
    BY <1>1, ChangeKeeps
  <1>2. CASE SessionEnd
    BY <1>2, SessionEndKeeps
  <1>3. CASE SessionStart
    BY <1>3, SessionStartKeeps
  <1>4. ASSUME NEW c \in Tab, Maindata(c) PROVE IInv'
    BY <1>4, MaindataKeeps
  <1>5. ASSUME NEW c \in Tab, Success(c) PROVE IInv'
    BY <1>5, SuccessKeeps
  <1>6. ASSUME NEW c \in Tab, Failure(c) PROVE IInv'
    BY <1>6, FailureKeeps
  <1>7. ASSUME NEW c \in Tab, Load(c) PROVE IInv'
    BY <1>7, LoadKeeps
  <1>8. CASE UNCHANGED vars
    BY <1>8, StutterKeeps
  <1>9. QED
    BY <1>1, <1>2, <1>3, <1>4, <1>5, <1>6, <1>7, <1>8 DEF Next

-----------------------------------------------------------------------------
(* What is proved *)

LEMMA IInvHolds == Spec => []IInv
  BY InitIInv, NextKeeps, PTL DEF Spec

\* The types of the responses, of the tabs and of what is on its way to them are
\* kept by every handler, for any numbers of ids and losses.
THEOREM TypesHold == Spec => []TypeOK
  BY IInvHolds, PTL DEF IInv

\* A tab that is alone in its session shows what generateSyncData last told it of,
\* whatever the data, however many of the ids there are and however many answers
\* are lost, as long as those lost in a row are fewer than the ids.
THEOREM TabsStayInStep == Spec => []InStep
  BY IInvHolds, IInvImplies, PTL

\* Such a tab is sent everything once only: one of the two responses that the
\* session keeps is the one that it has.
THEOREM FullUpdatesAreFirst == Spec => []OneFullUpdate
  BY IInvHolds, IInvImplies, PTL

=============================================================================
