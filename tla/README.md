# Torrente in TLA+

Torrente is a BitTorrent client made from qBittorrent. What it adds is a payment layer: a
local daemon, *Payfluxo*, pays for the blocks that are downloaded and receives payments for
those that are uploaded. This directory has models of the parts of the program whose
correctness depends on the order of events, the TLC configurations that check them, and
proofs of what matters most about each of them.

Paths below are relative to the root of the repository. `PROJECT.json` maps every definition to
the lines it translates, and lists components, runs, hazards and theorems in machine-readable
form. In `src/src/base/bittorrent/session.cpp:4033` the first `src/` is the root.

The program is C++; its Web UI is JavaScript. The files that end in `.ts` are no TypeScript: they
are the translations of Qt Linguist (XML), so no definition maps to one.

| module | models | lines |
|---|---|---|
| `Payfluxo` | payment layer, its daemon, dialogs, bans, gates of torrents | `payfluxo/*`, parts of `session.cpp`, `torrentimpl.cpp`, `mainwindow.cpp`, dialogs |
| `MoveStorage` | queue of storage moves, save paths, removal during a move | `session.cpp`, `torrentimpl.cpp` |
| `SettingsStorage` | settings in memory and in two files, crashes between steps | `settingsstorage.cpp` |
| `DurableSettings` | what the settings storage promises (abstract) | — |
| `TorrentLifecycle` | adding, saving, deleting and restoring torrents, exit, crash | `session.cpp`, `torrentimpl.cpp`, `resumedatasavingmanager.cpp` |
| `TorrentControl` | pause, resume, forced start, checks, maintenance, saved flags | `torrentimpl.cpp`, `session.cpp`, the native extensions |
| `DownloadManager` | downloads over HTTP, one at a time for some hosts | `net/downloadmanager.cpp`, `net/downloadhandlerimpl.cpp` |
| `RssDownloader` | feeds, the automatic downloader, torrents added by URL | `rss/*`, part of `session.cpp` |
| `SyncData` | differences that the Web UI's pages are sent | `synccontroller.cpp`, `client.js`, `dynamicTable.js` |
| `PayfluxoProofs`, `MoveStorageProofs`, `SettingsStorageProofs`, `TorrentLifecycleProofs`, `TorrentControlProofs`, `RssDownloaderProofs`, `SyncDataProofs` | theorems | — |
| `QueueFacts` | lemmas about queues and loops that several proofs cite | — |
| `MC*` | small instances for TLC | — |

To check a run: `tlc -config Payfluxo.cfg MCPayfluxo`; to check proofs:
`tlapm PayfluxoProofs.tla`.

## 1. The system

One thread, Qt's event loop, runs nearly everything: slots, timers, clicks, requests of the Web
UI and the alerts that libtorrent has queued. A handler runs to its end, or to the nested event
loop of a modal dialog, in which other handlers run. Around it work libtorrent (its own network
and disk threads, which answer by alerts), one I/O thread of the session (resume data,
`.torrent` files, file searches), other small threads (IP filter parser, RSS parser and storage,
torrent creator), the Payfluxo daemon behind a web socket, the power supply and the user.
What is hard is therefore not locking. It is that an answer comes when the state that asked for
it is gone: a torrent was deleted, added again, reloaded with another native handle, a user has
logged out, a connection was replaced, the process died between two file operations.

### Inventory

| component | state | operations, and whom it talks to | hard behaviour | what makes it correct | model |
|---|---|---|---|---|---|
| **Payment layer** (`base/payfluxo`, `authdialog`, `paychoicedialog`, `balancedialog`, `mainwindow`) | logged in or not, coins, debts per peer, web socket, open dialog | login, logout, declarations, notifications of payments and wallets; pauses, resumes and bans through the session | late answers, reconnection, lost messages, modal dialogs | bans follow debts, the gate of paid torrents, answers find their torrent, wallet and login agree with the daemon | `Payfluxo` |
| **Storage moves** (`Session`, `TorrentImpl`) | queue of moves, save path, moving flag, deferred work, torrents being removed | `move`, `setTempPathEnabled`, rename, delete; alerts of libtorrent | a queue whose head is matched by position; handles that are gone; work that waits for moves and renames | one move at a time, the queue goes on, data where the settings say, removed torrents leave | `MoveStorage` |
| **Settings storage** | map in memory, dirty flag, timer, two files | store, remove, save, read at start | power failure or failing file operation between any two steps | what was saved is read again | `SettingsStorage` |
| **Torrent lifecycle** (`Session`, `TorrentImpl`, `ResumeDataSavingManager`, `FileSearcher`) | loaded, loading and previewed torrents, outstanding requests, I/O queue, files on disk | add, delete, edit, metadata, periodic save, start, exit | three actors, alerts of native torrents that are gone, same id deleted and added again, crash | nothing changed is forgotten, nothing deleted comes back, exit saves | `TorrentLifecycle` |
| **Torrent control** (`TorrentImpl`, `NativeTorrentExtension`, `NativeSessionExtension`) | stopped, forced, maintenance, missing files, saved flags | pause, resume, recheck, alerts, reload, restart | calls that libtorrent takes later, its queue, checks of stopped torrents, metadata before the main thread knows | a stopped torrent does not run, a running one is let run, what is saved is what was wanted | `TorrentControl` |
| Share limits | ratio, time, action | timer, then `deleteTorrent` or `pause` | torrents removed in the loop | action at most once, seeds only | ends in calls of modelled parts |
| Categories, tags, automatic management | category to path map, per-torrent flag | add, edit, remove, set; causes moves | one edit moves many torrents | automatic torrents are where their category says | planned |
| Session settings | some hundred values | setters, one deferred `configure()` | coalescing | last value is applied | not modelled |
| Alternative speed limits | last value seen | timer of 30 s, clock | intervals over midnight | — | planned (pure) |
| IP filter, bans | parser thread, filter, banned addresses | enable, disable, ban, parsed, failed | queued results of an earlier parse | filter = file + bans, always | planned |
| Refresh loop, statistics | refresh flag, totals | timer, `state_update_alert` | the next request is sent by the answer | updates never stop | planned |
| Embedded tracker | torrents, peers, seeders | announce, stopped | tables at their limits | counter = number of seeders, limits kept | planned |
| Torrent creator, formats | — | one thread | — | — | not modelled |
| libtorrent plug-ins, custom storage | — | hooks in libtorrent's threads | — | — | external actions |
| **Download manager** (`base/net`) | sequential services, busy set, queues, redirects | `download`, `cancel`, reply finished | cancelled while queued; redirect while busy; two ends; deferred deletion | a service that is busy has a reply to come | `DownloadManager` |
| **RSS feeds and automatic downloader** (`base/rss`) | articles, rules, processing queue, waiting jobs | refresh, parse, process, download finished | overlapping refreshes, one URL in several articles | no job waits for nothing, no article is forgotten, loading ends | `RssDownloader` |
| Asynchronous file storage | write queue | `store` | failures only logged | last write wins | not modelled |
| Search engine | process, timeout, partial line | start, cancel, output, end | cancel, crash and timeout in any order | one end per search | planned |
| DNS, GeoIP, proxy, SMTP | one service each | — | — | — | not modelled |
| HTTP server | connections | parse, respond | — | — | not modelled |
| Web UI sessions | session table, failed logins | login, request, logout | expiry | no request without live session | in part in `SyncData` |
| **Web UI synchronisation** (`synccontroller`, `client.js`) | last and last acknowledged response | `sync/maindata` | lost responses, new sessions, ids that begin anew | page shows what it was told | `SyncData` |
| Other Web UI controllers, pages | — | translate requests | — | — | not modelled |
| Preferences, profile | — | names of settings | — | — | see `SettingsStorage` |
| Watched folders | partial files and retries | directory change, timer | half-written files, double reports | each file added once or rejected | planned |
| Application, instances, upgrade | — | start, exit | — | — | exit is in `TorrentLifecycle` |
| Certificate encryption | — | crypto library | — | — | not modelled |
| GUI, utilities, translations, packaging | — | views, helpers, data | — | — | not modelled |

The repository has no tests of this code. Its comments, messages and assertions are what
the models were compared with.

### Interactions

`Payfluxo` touches the others at three places only: `Session::createTorrent` pauses and
declares a torrent that is added or restored while somebody is logged in, `TorrentImpl::resume` refuses a paid one, and block and request alerts of
a paid torrent count debts and ban. It does not read save paths or files, so it is a module of
its own. `MoveStorage` and `TorrentLifecycle` are two views of the same torrent: the first knows
where the data is and which native torrent an answer is about; the second which files describe
the torrent and which answers are outstanding. What couples them is stated as assumptions:
`TorrentLifecycle` removes a native torrent at once (that it may stay until its moves end is the
subject of `MoveStorage`), and no torrent is added again while an earlier one with its id waits
for a move; `MoveStorage` merges the arrival of metadata with the search that follows (the steps
between them are in `TorrentLifecycle`) and does not restart. `TorrentControl` is a third view of a
torrent: whether it runs. It has the same maintenance and `reload()`, with the flags that the second view
calls "settings", and leaves out files. `RssDownloader` EXTENDS `DownloadManager`, whose steps are
functions on a record because one event runs several of them, and ends where a torrent is added
(`TorrentLifecycle`). `SyncData` reads the session and changes nothing. `SettingsStorage` is used by
all and uses none.

## 2. Payfluxo

**State.** `authenticated`, `redeemable`, `uploaded`, `paidFor` are the members of
`Payfluxo::Session`; `socket`, `handlers` the web socket and the number of times its signal is
connected; `loaded`, `paid`, `stopped`, `complete`, `banned` the part of the BitTorrent session that
matters; `dialog`, `authBefore`, `choices`, `dangling` the modal dialog and what it remembers;
`toDaemon`, `toApp`, `daemon*` the connection and the external daemon. The history variables
(`carried`, `walletKnown`, `clean`, `orphaned`) only say in which situations a property is claimed.

**Actions.** One per slot, alert or click. `SubmitCredentials`/`CancelAuthDialog`, `SelectPaid`,
`ClosePanel`/`Logout` are the code after the nested event loop of a dialog; messages and torrents
go on between opening and closing. A message is handled `handlers` times: all handlers but that of
payments do the same thing again, so the only trace is in `Credited`. Daemon death, lost messages, a
closing handshake that stops the retries, restart of the application and the null pointer of
`handleIntentionDeclaredNotification` (`NullTorrent`) are actions.

**Abstractions.** Coins are integers. DownloadedBlock messages and NAT notifications are left out:
they change no state here. What the daemon does is read off the messages that the
application expects; it may accept or refuse anything.

**Runs.**

| run | instance | properties |
|---|---|---|
| `payfluxo` | 1 torrent, 1 peer, both limits 1, 2 blocks, 2 coins, 1 message each way, 1 failure, fair; 886,769 states | `TypeOK`, `AnswersFindTheirTorrent`, `BansAreOwed`, `PaidRunsNeedLogin`, `AcceptedIntentionsRun` |
| `payfluxo_agreement` | no torrent, 1 peer, 3 messages each way, 3 blocks, 2 coins, 1 failure; 1,581,578 states | `AgreesWithDaemon` |

* `BansAreOwed`: who was banned in this run of the application still owes what lifts a ban, in every order of uploads, requests, payments and
  logins.
* `AnswersFindTheirTorrent`: an answer that is still to come is about a torrent that is there, or that was deleted while its declaration, the answer or
  the dialog that would declare it was pending.
* `PaidRunsNeedLogin`: no step makes a paid torrent run while the user is logged out. Two kinds of steps could: one that starts a paid torrent
  (a click, a late answer: the gate in `resume()`), and one that makes a running torrent paid (the choice dialog, which looks at no login: it was opened
  because of one, and a user cannot log out while it is open, since all dialogs are modal).
* `AcceptedIntentionsRun`: an accepted intention is acted upon, unless the user has logged out, the torrent is gone or the connection broke.
* `AgreesWithDaemon`: what will be believed when all messages under way are read is what the daemon has: the wallet, with one connected slot
  (`WalletSettles`), and who is logged in (`LoginsAgree`).

Debts of different peers never meet, and the gates, answers and bans of a torrent depend on no other torrent, so one of each is
enough for the first run: what matters there is in which order the user, the peer, the daemon and the dialogs act upon it, and for this one message in each
direction is enough (the theorems below hold for any number). The agreement is about messages that overtake one another, and nothing that a torrent or a ban
does touches coins or logins: that run has no torrent, but three messages in each direction, so that a payment, the answer to a refresh and
that to a redemption are under way together, as are a logout, a login and a refresh. One failure gives the second connection,
the second slot and the second run of the application.

**Fairness.** Weak for `MessageStep` and `LinkStep`: Qt delivers what a socket has received and its
state changes. The daemon is not fair (it may never answer) and neither is the user.

**What the code does that no property forbids.** All of it is in the model; the history variables keep the properties from claiming otherwise.

* A torrent deleted while its declaration is pending makes the answer use a null pointer, and the application dies
  (`payfluxoservice.cpp:72`; `NullTorrent`, `orphaned`).
* Every reconnection connects the slot once more, and each payment is credited as often (`payfluxoservice.cpp:48`); a socket that was closed without an error is
  never opened again (`:40`); what is written while it is not open is lost, declarations included (`:243`): `AcceptedIntentionsRun` begins with an
  answer that has been sent.
* Bans are kept over the end of the application and debts are not, so nothing lifts the bans of an earlier run (`payfluxo.h:63`; `carried`).
* The coins are not initialised, and are zeroed by a login before the wallet is told (`walletKnown`). A login sent over another one, from a dialog that was
  open when the first was answered, may be answered after a logout (`payfluxo.cpp:154`; `clean`, which also ends with the daemon's death).
* A logout pauses nothing: `on_actionBalance_triggered` pauses the paid torrents only if the user is still logged in when the panel closes, so paid torrents that run
  go on. `PaidRunsNeedLogin` is therefore about steps and not about states.

**Proved** (`PayfluxoProofs`, for any torrents, peers and limits, from `PayfluxoAssumption`):
`Typing`, `DebtsJustifyBans`, `AnswersFind`, `PaidRunsAreGated`, `Agrees`. `TypeOK` is not
inductive: a torrent chosen in the dialog becomes `paid`, so `ChoicesKnown` (what the dialog offers
exists, or was deleted since) is needed with it. `BansAreOwed` is inductive over the ledger alone:
lemma `LedgerSteps` reduces every step to the few that touch it, and `Recovery <= Tolerance` is what
makes the two limits agree. `AnswersFind` goes through each step with lemmas on membership in
sequences (what is under way after an append, a tail, a prefix, a concatenation). `PaidRunsAreGated` is an action property whose
invariant relates the dialogs to the login (`ChosenByUser`): while the choice dialog is open somebody is logged in, and the login dialog was opened
while nobody was.

`Agrees` (`AgreesWithDaemon`) has two invariants. For the wallet: `WalletSettles` itself, with the fact that nothing was
received before the first connection (`Unconnected`). What the messages under way will make of the coins is a
recursive function of their number (`Heard`), and three lemmas say how it changes: the last
message comes last (`HeardAppend`), the first comes first (`HeardTail`), and once a wallet is told, what was believed before does not
matter (`HeardWallet`; this is why zeroing the coins at a login does no harm). For the login: `LoginPart`, which lists what may be under
way between an application that takes its user to be logged in or not and a daemon that does: at most one login or
one answer, no answer while a logout is on its way, every logout before the login that follows it, and an answer
that says what the daemon did. The two history variables are its hypotheses: `clean` excepts
a login sent over another one and everything after the daemon has died; nothing is claimed there because the code
does not keep it.

The liveness property (`AcceptedIntentionsRun`) is checked by TLC only.

## 3. MoveStorage

**State.** `queue` is `m_moveStorageQueue`: its head is the move that libtorrent was given. A job has
the native handle it was made with, as in the code; `handle[t]` counts the native torrents that
id had. `removing` is `m_removingTorrents`. `savePath`, `location`, `moving`, `renames`, `triggers`,
`seedStatus`, `seed` are members of `TorrentImpl`. `place`, `moves`, `alerts` are libtorrent's.

**Actions.** Helpers of the code that call one another (`moveStorage`, `adjustActualSavePath`,
`updateStatus`, the triggers) are functions on a record of the state they change, so a handler with
all its calls is one step. `MoveJobFinished` has three outcomes: normal; the finished job's native
torrent is gone (an expired handle may read as the zero id, or throw); the next job's is gone, and
libtorrent throws after the finished job has left the queue (`session.cpp:4033-4035`). `handleAlert`
swallows exceptions, so `stalled` records that the head was not started.

**External assumptions.** libtorrent answers each move with one alert, executes moves of a torrent in order,
deletes files after the torrent's moves, and may throw for a native torrent that is gone.

**Renames.** `handleFileRenameFailedAlert` exists, but `Session::handleAlert` (`session.cpp:4469-4488`) has no case for its alert, so it never runs: a rename
that fails leaves `m_renameCount` above zero, and what waits for moves and renames waits for good. `HandleFileRenamed` has that.

**Abstractions.** Missing files and the reload of resume data after them, automatic torrent
management as a flag and restarts are left out; the search for the files of a new torrent is part of
its creation, that after metadata is two steps.

**Runs.**

| run | instance | properties |
|---|---|---|
| `movestorage_queue` | 2 torrents, 2 places, 1 failing move, 1 deferred action, fair; 16,451 states | `QueueHolds` (types; `AnswersAreForTheHead`, the assertions of `handleStorageMovedAlert` that a release build does not check; `QueueIsServed`; `OneWaitingMove`), `KeptUntilMoved`, `RemovedTorrentsLeave`: a torrent removed during its move is removed from libtorrent in the end |
| `movestorage_one` | 1 torrent as magnet or file, 2 native handles, folder for incomplete torrents, check, rename, 2 deferred actions; 647,291 states | `QueueHolds` with native torrents that are gone, `MovesAreShown`, `IdleIsSettled`: when nothing is under way data is where the settings say |
| `movestorage_stall` | violation | `QueueIsAlwaysServed` |

Two torrents give an active move and one that waits behind it, for the same or another torrent; two
places are where it is and where it goes. What one torrent can do with its paths, handles and
deferred work does not depend on the others except through the queue, so it is checked with one.
Fairness is weak for the alerts (the event loop) and for the ends of moves (libtorrent's disk threads).
`CHECK_DEADLOCK FALSE`: with all bounds used up nothing need happen.

Several properties are claimed for torrents that have entered libtorrent once (`handle[t] = 1`), or
unless `stalled`, because the code breaks them after `reload()`; the last paragraph of this section and the hazards say how.

**What the code does that no property forbids.** A waiting move is cancelled before the new one is
looked at; if that is refused, the torrent is shown as moving until it is removed
(`session.cpp:3979`). `useTempPath()` is asked again at the end of a move, so a torrent that finishes
during its move into the folder for incomplete torrents keeps that folder as save path
(`torrentimpl.cpp:1604`). A request to go back is compared with the save path from before the move
and dropped. A torrent removed while a job with a newer handle waits leaves libtorrent before that
job (`session.cpp:4040`). The loop that runs the deferred work at the end of a move does not test for a
move that its own first action has started (`torrentimpl.cpp:1624`, although `torrentimpl.h` documents that such
work waits for moves and renames). All five are in the model.

**Proved** (`MoveStorageProofs`, for any torrents, folders and bounds, from `MoveStorageAssumption`): `InvHolds`, and from it
`QueueHoldsAlways`, `KeptUntilMovedAlways`, `MovesAreShownAlways`. The queue is matched with libtorrent's answers by position, so the
inductive invariant has to say of every alert and every move to come which job it is about:

* `AlertsPart`: there is at most one native move or answer to one, and it is that of the head; a queue with jobs and neither has stalled, which
  needs a native torrent that was replaced or a move that failed;
* `OnePart`: behind the head no native torrent waits twice (a second request cancels the first);
* `JobsPart`: the native torrent of every job exists or existed; if it was never replaced, the torrent is shown as moving while it is
  alive, is kept in libtorrent once it is removed, and is in libtorrent when its job waits (so starting it does not throw);
* `PathsPart` and `RestPart`: types, and what the sets of torrents have to do with one another.

`KeptUntilMoved` and `MovesAreShown` are not inductive for one torrent's flag alone: `deleteTorrent`, the cancellation of a waiting
job and the end of the head each change the queue and the flag together, and another torrent's job may come between.
The helpers of the code are functions on a record here, so each has a lemma (`...Good`) that says what it
keeps of such a record, and the proof of a handler follows the calls of the code. The two loops (`RunAll`, the deferred work at the end of a move or a
rename; `AdjustAll`, `setTempPathEnabled` for every torrent) are recursive functions, about which the lemmas `Iterated` and `UpTo` of
`QueueFacts` give an induction over the rounds.

`SettleHolds` and from it `IdleIsSettledAlways`: that data ends up where the settings say needs an invariant (`SettleInv`) for all the times
when something is still under way. For a torrent that has entered libtorrent once, while no move has failed, it says:

* `AlertsTell`: of the alerts about the end of its download or its check the last one is true when it says "finished", and an answer "moved"
  still to be handled names the place where the data is;
* `Shown`: when it is not being moved its `save_path` is that place, and when no such alert waits its stored state is libtorrent's;
* `Placed`: when it is not being moved it is where it belongs, unless such an alert or the deferred action `adjust` waits;
* `Going`: when it is being moved and belongs into the folder for incomplete torrents, the last of its queued moves leads there (`LastIs`),
  unless one of these waits. Towards the save path there is nothing to say: the end of a move to anywhere else makes that place the save path.

Each clause survives a step only with the help of the others: the end of a move makes `Placed` out of `Going`, an alert about a check makes `Shown`
and then `Placed` by the adjustment it causes, a new request cancels the waiting move that `Going` was about. A helper gets two lemmas here,
one for the torrent that it is given (`...Own`) and one that says that it leaves the others alone (`...Apart`; the queue is shared, so theirs is
that their last move stays).

`RemovedTorrentsLeave` is a liveness property and stays with TLC.

## 4. SettingsStorage

**State.** `data`, `dirty`, `timer` in memory; `newFile` and `file` are `Torrente_new` and `Torrente`;
`pc` says between which file operations the program is. Every file operation may fail (at most
`MaxFailures` times) and power may fail between any two of them, and during the read at the start.

**QSettings** is external, and does what the comment in `write()` says of it (`settingsstorage.cpp:266-268`): it deletes the file before it writes it. So the write
of `Torrente_new` is two steps, `BeginSave` (the file is gone; `deleted` is what QSettings has read of it) and `Written`. In between power may fail, or the disk be full, and what is
there then is one of `Broken`: nothing, or the part of the settings whose keys `Parts` allows. QSettings keeps the keys which the file had (`Merged`):
that is what `setValue` without `clear` does. Values are opaque. `write()` means to remove a file that could not be written, but the name that it removes is empty then
(`settingsstorage.cpp:272-274`), so `Written` leaves what is there.

`DurableSettings` is the promise: one disk that changes in one step. `SettingsStorage` implements
it with `disk <- Disk` (what `read()` would return), `opened <- (pc # "off")`, `incomplete <- LeftOver`, `taken <- deleted`. What it does not promise is what the
code does not keep:

* after a failed rename `Torrente_new` may be the only copy, and the next save takes it away before it writes (`Take`): a crash between the two loses every setting. The promise
  allows this only where an operation has failed before (`incomplete` needs `failures > 0`); without one, no crash at any moment loses what was saved, except
* that a write which is broken off may leave half a file (`BreakOff`), which the next start prefers to the old one; with `Parts = {{}}`, a QSettings that puts the file in
  its place as a whole, that too is excluded.

In all other cases the end of the write is the step that changes `disk`; removing, renaming, restoring, and every failure of them are stutters.

**Runs.** `settings`: 2 keys, 2 values, parts of none or one key, 2 failures, any number of crashes and restarts (crashes need
no bound), fair; 9,612 states: `StorageOK` (types, and `DirtyIsScheduled`: what is not saved has its timer), `CleanIsSaved`, `ImplementsDurable`, `ChangesAreSaved`.
Two keys are needed for a file that has one and not the other, two failures for a failing retry and for a rename that failed before a write that does.
Weak fairness of `Saving`: a single-shot timer that is not started again fires. `SetValue` starts it
anew in the code, which is why `ChangesAreSaved` excepts changes that never end. It also excepts the end of the application: what the destructor fails to save
(`settingsstorage.cpp:194`) is not tried again.
`settings_exact` is a violation run.

**Proved** (`SettingsStorageProofs`, any keys, values, parts, number of failures): `Typing`, `UnsavedIsScheduled`
(`StorageOK`), `SavedIsOnDisk`, `Implements`. `CleanIsSaved` alone is not inductive: while `read()` restores, its
truth depends on `Torrente_new` being what is in memory, and while `write()` replaces the file, on
`Torrente_new` having all of it. `StepsAreSound` says both, and
`IInv == TypeOK /\ StepsAreSound /\ DirtyIsScheduled /\ CleanIsSaved` is preserved by each action (one
lemma per action). `Implements` maps each step to one of `DurableSettings` or to a stutter under
`IInv`, which says also that `deleted` is empty but in the middle of a write. `ChangesAreSaved` is liveness and stays with TLC.

## 5. TorrentLifecycle

**State.** `torrents`, `loading`, `params`, `preview`, `numResumeData` are members of `Session`;
`hasMetadata`, `maintenance` of `TorrentImpl`. `jobs` is what was posted to the I/O thread and
`results` what it has posted back. `resume[t]` says whether `<id>.fastresume` exists and whether it has the last
settings ("stale" means an earlier state of them); `resumeMeta` whether it was written for a torrent
with metadata; `torrentFile` whether `<id>.torrent` exists. An alert is `old` once its native torrent is
gone; an old alert is dropped, unless something in libtorrent still holds the torrent and it is taken
for the one that has this id now (`found`). `current` says whether an answer has the last
settings.

**Actions.** Adding (file, magnet link, skip checking), metadata preview and its cancellation, deletion,
editing, the periodic save, the alerts, the result of a search (creation of a waiting torrent, or
`endReceivedMetadataHandling` with `reload()`), one job of the I/O thread, and exit: request, wait with
time-out, stop of the thread; crash at any moment; start from what is on disk. `EditTorrent`
stands for every setting whose change calls `saveResumeData()`, and for the trackers merged
when a torrent is added again.

**External assumptions.** Alerts come in order; an added torrent may be refused; when the I/O thread is
told to quit the jobs posted to it are done (the native session is deleted in between). Failing writes
of resume data are not modelled: the code logs them and nothing else.

**Runs.** `lifecycle`: 1 torrent, at most 2 alerts, 3 jobs and results and 2 requests when the user or a
peer adds something; 253,301 states, deadlock checked.

* `ChangesWillBeSaved`: whatever changed is on disk, posted, or an answer that will bring it there is to come.
* `DeletedStayDeleted`: late resume data does not bring a deleted torrent back.
* `BackedUp`: resume data with metadata has its `.torrent` file, whenever power fails.
* `ExitSaves`: when the exit ends everything is saved or posted, although `m_numResumeData` may be wrong.
* `WaitingEnds`: maintenance, in which a torrent can be neither paused nor resumed, ends (`MetadataIsHandled`), and
  a torrent being added is added, unless libtorrent refuses it (`AddedTorrentsLoad`).

Torrents share only the order of the queues and the counter, both of which one torrent exercises by being
deleted and added again; with two torrents the state space is out of reach. Bounds on what is under way
are guards (`Room`) of what the user and the peers do, never of handlers.
Weak fairness of alerts, search results, I/O thread and exit: each is a loop that does not stop by itself.
`mixed` and `reloaded` name the torrents for which the code does not keep the properties: a torrent
deleted and added again during a search takes the earlier search's result, and `reload()` makes the
answers to come unusable, so its edits wait for the next check (`session.cpp:4555`: of the alerts that are lost with a native torrent, only its own
torrent is excused, until that check). `failed` names those that libtorrent refused, for which `WaitingEnds` claims nothing.

`lifecycle_backup` is a violation run: with `SkipChecking` no search orders the removal and the new backup.

Also in the model, with no property against it: a refused torrent stays in `m_loadingTorrents` and cannot be
added until the next start (`session.cpp:4666`); deleting a torrent with a request outstanding leaves the counter too high and
exit waits its 30 seconds (`:2005`); during the exit the alerts of checks are dropped, and with them the resume data they would have asked for (`:2351`); the result of a search is matched by id, so a torrent deleted and added again takes the
earlier one's (`session.cpp:1732`); `reload()` adds the torrent again from the last resume data
handled (`torrentimpl.cpp:1493`).

**Proved** (for any finite set of torrents, any of them added without checking, and any bounds, from `TorrentAssumption`,
`SkipCheckingAssumption` and `BoundsAssumption`, in `TorrentLifecycleProofs`): `TypeCorrect`, and all the safety properties of the run: `DeletedStayDeletedAlways`, `ChangesWillBeSavedAlways`,
`ExitSavesAlways`, `CheckedTorrentsAreBackedUp` and, where nobody skips the check, `BackedUpAlways`. The run has one
torrent; the theorems say that torrents do not disturb one another through the queues and the counter they share.

`TypeOK` needs to know in addition what each alert and job carries, and that what the session knows of a torrent it knows
of one that is there (`TypeInv`). The safety invariant is one formula for each torrent, `SafeFor(t)`, and
is about positions in the queues, so that no count or fold has to be computed:

* the last job that writes or removes the resume data of `t` decides what stays (`LastIs`), and removes it when `t` is deleted (`Deleted`);
* the removal of `<id>.torrent` comes right after that of the resume data (`InPairs`), no removal is
  posted before a write of resume data with metadata (`WritesFirst`) or after a search for the torrent's files (`RemovesFirst`):
  it is this order that `lifecycle_backup` breaks;
* an answer that is out of date or from a native torrent that is gone is followed by a good one (`EndsWell`), or the torrent is
  known to be `reloaded` and its check, which asks again, is still to come (`WillBeSaved`);
* for the exit, the answers under way are never more than `numResumeData`: when it is zero, none is left.

A step is about one torrent, or about none: for the others the sets stay, the jobs and alerts about them stay in their order
(`Kept`), and one lemma (`KeptSafe`) covers them all. What is left is one lemma per action for the
torrent it is about. `WaitingEnds` is liveness and stays with TLC.

## 6. TorrentControl

**State.** `isStopped`, `mode` (forced or managed by libtorrent's queue), `maintenance`, `hasMetadata`, `missingFiles` and the
number of file searches of `TorrentImpl`; `saved` the flags in the resume data; `native` what libtorrent has of the torrent;
`calls` what libtorrent was told and has not done; `alerts` what it tells and nobody has handled.

**Actions.** `Pause`, `Resume`, `ResumeMissing`, `ForceRecheck` and the alerts append to `calls` what the code calls, in the
code's order; `NativeCall` takes one call, and between any two of them libtorrent's queue, a check, an error of a
file or the arrival of metadata may come. `FileSearchFinished` is the end of maintenance, with `reload()`. A handler that
asks libtorrent for a status waits until the calls before have been taken: these have `calls = << >>` as a guard. `OnState`
and `Paused` are the hooks of `NativeTorrentExtension`, the third outcome of `NativeAdd` that of `NativeSessionExtension`.
`Restart` loads what was saved last.

**External assumptions.** libtorrent takes calls in order, a torrent with `stop_when_ready` is paused when its check has ended,
`recheck` does nothing without metadata or during a check that runs, and resume data has the flags of the moment it was made.

**Run.** `control`: three acts (user, periodic save, error, restart), of which each begins when less than three calls and alerts
wait; 751,370 states. Three acts are needed for the shortest stories that go wrong: check a stopped torrent, resume, pause.

* `ControlOK`: types, and `SearchIsToCome`: the maintenance, in which a torrent is neither paused nor resumed, has the search that ends it, or the answer
  that starts it, still to come, whatever calls and alerts a reload or a restart drops.
* `StoppedDoesNotRun`: after all calls a stopped torrent is paused, or is checked and will be stopped then.
* `RunningIsLetRun`: a torrent that runs will not be stopped behind the application's back.
* `DownloadsAfterReload`: nothing is downloaded between metadata and the search for the files that are there, unless the torrent was told to run (`early`).
* `KeptAsWanted`: what the resume data restores is what was wanted.
* `RechecksEnd`: the check of a stopped torrent ends.

**Fairness.** Weak for the alerts, for the calls and for the queue that lets a torrent run; strong for the end of a check, since
libtorrent's queue interrupts a check, goes on with it, and gets further each time.

**History variables** name where the code does not keep a property; each is set by the step that does it.
`misled`: the answer to a request for resume data still has `stop_when_ready` although the torrent was resumed
meanwhile, or although it runs and the metadata have just arrived (libtorrent stops it behind the application's back then), and `torrentimpl.cpp:1761` keeps it: the next start finds the torrent stopped. `unsaved`: a change between managed and forced
asks for no resume data (`torrentimpl.cpp:1557`), and `reload()` drops the answers under way. `early`: libtorrent was told to run the torrent, or not to stop it, while it had
the metadata and the application had not handled them: by calls that had not reached it (`torrentimpl.cpp:1569`), by a resume before the alert was handled, and by the resume of a torrent that was
paused during the maintenance, which takes its stop away (`torrentimpl.cpp:1561` is outside the guard at 1567). In the last case the code itself lets the download begin before the files are found; no property forbids it.
`held`: a forced torrent that is checked after an error, or whose files were missing, stays paused (`torrentimpl.cpp:1384`: nothing resumes it); and a torrent
that was saved with `stop_when_ready`, as `misled` has it, is loaded so by a restart or by `reload()`, and libtorrent stops it after its check although it is to
run: `RunningIsLetRun` claims nothing for either until the next resume. Also in the model: two saves during maintenance start two
searches, the second of which reloads the torrent again and abandons a check of the user (`session.cpp:1732`).

**Proved** (`TorrentControlProofs`, for any number of acts and of what waits, from `TorrentControlAssumption`): `TypesHold`,
`TheSearchIsToCome`, `SavedIsWanted`, `NothingIsDownloadedEarly`, `AStoppedTorrentDoesNotRun`, `ARunningTorrentIsLetRun`. `ControlOK` needs that the arrival of the metadata is told once
and before they are known (`Arrival`), so that no torrent enters the maintenance a second time without a search (`SearchFollows`). `KeptAsWanted` needs nothing but types: each step either has a
request under way afterwards or restores what was wanted. `DownloadsAfterReload` is about a thread that overtakes another, so the invariant says
in addition that a torrent without metadata has none of its later states (`NotYet`) and that missing files are reported for
known torrents only (`RejectedIsKnown`). `StoppedDoesNotRun` speaks of the moment when no call waits; it is
inductive once said of every moment: *whatever position of `calls` libtorrent is at, what is still to be taken will leave the torrent
safe* (`StoppedWillStop`). That is stated by positions and not by folding the calls: there is a pause, or a check that will be
stopped, after which nothing lets it run (`PausesAt`, `SafeAfter`). `RunningIsLetRun` is its counterpart (`RunningWillRun`): unless maintenance or
the metadata are pending, either libtorrent already runs the torrent as wanted (or it is `held`) and only calls that do not stop it
wait, or a position of `calls` starts it (`StartsAt`) and what stops it after its check is unset or will be taken back
(`WillNotStop`), or its resume data were rejected because files are missing (`IsRejected`), and then it cannot have finished (`WillMiss`).
The strengthenings were checked as invariants of the same instance first. `RechecksEnd`, a liveness property, is only checked.

## 7. DownloadManager and RssDownloader

**State.** `handler` has the downloads that exist, `waiting`, `busy` and `sequential` are members of `DownloadManager`. The rest belongs to
`RSS::Session`, `Feed`, `AutoDownloader` and `BitTorrent::Session`. A handler is one with those that its redirections
create. `cancel` does nothing once the first reply has ended, and a handler that ended while it waited stays in the queue until
the event loop destroys it.

**Links.** An article may name any link as its torrent. A valid magnet link is added at once (`Magnet`); a link of a scheme that the download manager supports is downloaded
(`Downloadable`); anything else (`Unsupported`: another scheme, a relative link, a broken magnet link) is taken for a file name (`session.cpp:2022-2043`), nothing is downloaded, and `addTorrent` returns
false. `processJob` does not look at that and puts the job among those that wait (`rss_autodownloader.cpp:402-416`), where no download will ever remove it.

**Actions.** `Refresh`, `AddFeed`, `RemoveFeed`, the refresh timer, the switches of processing and of the rules, reading an article,
adding a torrent by URL; the ends of replies (data, error, redirection), deferred deletion, the parser's answer, and the
processing timer. A redirected or cancelled download starts the next one inside the same event, so steps are functions on a
record (and the refresh of all feeds a recursive function of the number of those done).

**Run.** `rss`: one host for a feed, its icon and a torrent file; four articles: two that share the file's URL and its episode, one with a magnet link, one with a link that cannot be
downloaded; one article is kept; three handlers at a time; three acts of users and timers; one redirection; 121,392 states. Three handlers are a download that runs, one
that waits and one that is cancelled; with fewer nothing is queued. Since one article is kept, later ones push earlier ones out of the feed while their jobs wait.

* `DownloadsHold`: types, and a service that is busy has a reply to come (`WaitersAreServed`).
* `FeedHandlersLive`: the handler a feed keeps is its own and has not ended.
* `JobsSettle`: a job waits for a URL that can be downloaded only while it is being downloaded (otherwise its articles would be refused for
  good), and an article is read by the downloader only when its data was received.
* `UnreadAreQueued`: while the downloader is enabled no unread article falls between the queue and its resets; one that was refused because a job for its URL waits has been looked at.
* `AddedAsAsked`: parameters are lost only to a URL that is downloaded twice at once (`overlapped`; two such requests do share them, `session.cpp:2028`).
* `AllEnds`: downloads, loading of feeds and queued articles come to an end.

**Fairness.** Weak for each reply (the network answers or times out), for deferred deletion and the timer (event loop) and for
the parser (its thread). Users and the refresh timer have none.

**Proved** (`RssDownloaderProofs`, for any feeds, articles, hosts and bounds, from `DownloadManagerAssumption` and `RssAssumption`): `InvHolds`,
and all safety properties of the run: `DownloadsHoldAlways`, `FeedHandlersLiveAlways`, `JobsSettleAlways`, `UnreadAreQueuedAlways`,
`AddedAsAskedAlways`. The invariant has a part for each thing that may disagree with another:

* the manager is `Sound`: a sequential host that is busy, or has a download waiting, has a reply to come, nobody waits twice, and what waits exists or
  existed;
* a feed's handler is one that works for this feed and has not ended (`FeedsPart`);
* a job of the downloader waits for a download that is at work, unless its URL cannot be downloaded, and that is of its article's URL; a URL that was never downloaded twice at once
  (`overlapped`) has one download at most, for which there are parameters (`JobsPart`);
* the URL of an article that was marked as read was obtained (`ArticlesPart`);
* while the downloader is enabled an unread article is in its queue or was looked at, and a queue that is not empty has its
  timer (`QueuePart`).

The hard steps are those in which one event runs several of the manager's: an end of a reply destroys a handler, starts the next download of
that host and calls the owner, whose slot may ask for another. In between the manager is sound but for one host
(`SoundBut`), and `Keeps` says that the other owners' handlers stay theirs. The refresh of all feeds is a recursive function, with the induction over
its rounds of `QueueFacts`. `AllEnds`, a liveness property, is only checked.

**What the code does that no property forbids.** A download cancelled while it waits, and dequeued before its object is
destroyed, takes its reply with it and the service stays busy (`downloadmanager.cpp:286`, variable `orphaned`, which `DownloadsHold` and `AllEnds` except). A redirected download
is not cancelled by the next refresh and answers too (`rss_feed.cpp:131`), so the handler of the second is cleared too early and it can be cancelled no more; `FeedHandlersLive` is about handlers that are kept, and does not see that.
The job of a link that cannot be downloaded waits until the program ends, and the articles with that link are refused as long (`rss_autodownloader.cpp:415`, `373`). `matches()` leaves episodes in the rule for articles that
are only listed (`rss_autodownloadrule.cpp:400`). A torrent file that could not be downloaded is not tried again
(`rss_autodownloader.cpp:355`, a TODO there).

## 8. SyncData

**State.** `data` is what the session has to show; `live`, `last`, `accepted` the session that the cookie names and its two responses;
`tab` what a page has (its `syncMainDataLastResponseId`, tables and lists) and, as history, what it was last told; `answer` a response
under way.

**Actions.** `Maindata` is the request with all of `generateSyncData`; `Success` all of `syncMainData`'s handler; `Failure` a lost
response; `Load`, `SessionEnd`, `SessionStart`, `Change`. Differences are functions on maps: `processMap`, `processHash`, `processList` on one side,
`updateRowData` and the page's loops on the other. Torrents stand for every hash of maps, tags for lists, trackers for
hashes of lists.

**Run.** `websync`: one tab, three snapshots (a torrent changes in part, appears, goes; tags and trackers with it), ids 1 to 4
instead of a million, three losses in a row, three sessions. `MaxLosses < MaxId` is an assumption: a page
that loses a million responses in a row could meet its own id again. Fairness is weak for the request (the page asks again
after each answer) and strong for its success (a response arrives in the end).

* `InStep`: a tab alone in its session shows what it was last told of.
* `OneFullUpdate`: it is sent everything once.
* `CatchesUp`: it comes to show data that stays.

**What the code does that no property forbids.** Responses are kept once per session. A second tab of the browser begins with a
first request, which makes the ids begin anew (`synccontroller.cpp:334`): the first tab's id names other data and it is sent a difference to what
it does not have. A full update clears torrents and tags and not trackers (`client.js:567`), so trackers that have gone stay after a new
session. The properties are stated for a tab that is alone.

**Proved** (`SyncDataProofs`, any data, ids, losses and sessions, from `SyncAssumption`): `DifferenceIsExact` (what `processMap` makes of
two states, applied to the first, gives the second), `TypesHold`, `FullUpdatesAreFirst`, `TabsStayInStep`. `InStep` needs that
a tab's id names, in `last` or in `accepted`, the data it was told of, and that the responses on their way are differences to
what it shows.

## 9. Findings

Each is a run in which TLC finds the violation.

1. `movestorage_stall` (`session.cpp:4033-4035`): when the next job's native torrent is gone, starting it throws
   after the finished one has left the queue, and all moves of all torrents wait for good.
2. `settings_exact` (`settingsstorage.cpp:308-310`): `Torrente_new` is not cleared before it is written; after a
   failed rename a key that was removed since comes back.
3. `lifecycle_backup` (`session.cpp:1873` and `4608`): the `.torrent` file is written by one thread and removed by
   another; delete and add again without checking, and the late removal takes the new file.

## 10. What is proved, what is only checked, what is neither

* Proved for all values of the constants: the theorems named above (thirty-seven, in seven modules; `QueueFacts` has lemmas only). They rest on the
  assumptions of the modules about their constants (`PayfluxoAssumption`, `MoveStorageAssumption`, `SettingsStorageAssumption`, `TorrentControlAssumption`,
  `DownloadManagerAssumption`, `RssAssumption`, `SyncAssumption`; `TorrentAssumption`, `SkipCheckingAssumption`, `BoundsAssumption`), which TLC evaluates in the runs, and on nothing
  else, except `BackedUpAlways`, which states `SkipChecking = {}` itself.
* Checked on small instances only: the liveness properties (`AcceptedIntentionsRun`,
  `RemovedTorrentsLeave`, `ChangesAreSaved`, `WaitingEnds`, `RechecksEnd`, `AllEnds`, `CatchesUp`): liveness under fairness is beyond the prover.
* Neither: what the history variables except (`carried`, `clean`, `walletKnown`, `orphaned`, `mixed`, `reloaded`, `failed`, `misled`, `unsaved`, `early`, `held`, `overlapped`). Each names, in the step of
  the code that causes it, a situation in which the code does not keep the property; the sections above say which, and the hazards of `PROJECT.json` at which line.
* Every property of a passing run was also checked against a mutated form of the code's own definition
  (a dropped guard, a swapped order, a forgotten reset; the definitions with the comment "Mutated form"):
  TLC finds the property violated, so the instance is large enough for the bug to show.
* Not modelled: the components without a module in section 1, for the reasons in `PROJECT.json`.

## 11. Plan

1. `TorrentStore`: an abstract store of torrents (added, saved, deleted, restored) that `TorrentLifecycle` implements,
   outside the situations `mixed` and `reloaded`.
2. `IpFilter`, `Tracker` (the answer to a `stopped` announce puts the torrent back, empty: `tracker.cpp:408`), `WatchedFolders`,
   `SearchJob`, refresh loop (`session.cpp:4402`, `5040`): one small module each. `Categories` over the interface of `MoveStorage`.
