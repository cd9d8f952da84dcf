------------------------------ MODULE Payfluxo ------------------------------
(***************************************************************************)
(* The payment layer of Torrente: Payfluxo::Session, PayfluxoService, the   *)
(* dialogs that drive them and the torrents they gate, together with the    *)
(* external Payfluxo daemon at the other end of the web socket.             *)
(*                                                                          *)
(* The application is single threaded: every action below is one event of   *)
(* the Qt main loop (a slot, an alert or a click), run to its end or to the *)
(* nested event loop of a modal dialog.                                     *)
(***************************************************************************)
EXTENDS Integers, Sequences, FiniteSets, SequencesExt

CONSTANTS
    Torrent,      \* torrents, by id
    Peer,         \* remote peers, by IP address
    Tolerance,    \* PENDENCE_TOLERANCE: a peer that owes as much is banned
    Recovery,     \* RECOVERY_FROM_BLACK_LIST_TOLERANCE: one that owes less is not
    MaxBlocks,    \* bound: blocks counted or paid per peer
    MaxCoins,     \* bound: payments that the daemon receives
    MaxInFlight,  \* bound: messages that travel in one direction
    MaxFailures   \* bound: deaths of the daemon and ends of the application

ASSUME PayfluxoAssumption ==
    /\ IsFiniteSet(Torrent)
    /\ Tolerance \in Nat
    /\ Recovery \in Nat
    /\ Recovery <= Tolerance
    /\ {MaxBlocks, MaxCoins, MaxInFlight, MaxFailures} \subseteq Nat

VARIABLES
    \* Payfluxo::Session
    authenticated,  \* m_authenticated
    redeemable,     \* m_redeemableCoins
    uploaded,       \* m_ipBlocksDownloaded: what each peer took from us
    paidFor,        \* m_ipPaymentsMade: what each peer paid
    \* PayfluxoService
    socket,         \* state of m_webSocket
    handlers,       \* connections of textMessageReceived to the service
    \* BitTorrent::Session and its torrents
    loaded,         \* m_torrents
    paid,           \* those with m_paidTorrent
    stopped,        \* those with m_isStopped
    complete,       \* those that have all their data
    banned,         \* m_bannedIPs
    \* MainWindow
    dialog,         \* the modal dialog that is open
    authBefore,     \* authStateBefore of on_actionAuth_triggered
    choices,        \* torrentOptions of PayChoiceDialog
    dangling,       \* those of them deleted since the dialog opened
    \* the web socket and the daemon (external)
    toDaemon, toApp,
    daemonUp, daemonUser, daemonPaid, daemonCoins,
    \* history
    carried,        \* bans older than this run, or made by the user
    walletKnown,    \* a wallet was received since the coins were zeroed
    clean,          \* one connection, and no login over another one so far
    orphaned,       \* torrents deleted while a declaration concerned them
    failures

session  == <<authenticated, redeemable, uploaded, paidFor>>
link     == <<socket, handlers, toDaemon, toApp>>
torrents == <<loaded, paid, stopped, complete>>
gui      == <<dialog, authBefore, choices, dangling>>
daemon   == <<daemonUp, daemonUser, daemonPaid, daemonCoins>>
history  == <<carried, walletKnown, clean, orphaned, failures>>
vars     == <<session, link, torrents, banned, gui, daemon, history>>

-----------------------------------------------------------------------------
(* Messages *)

Plain(kind)        == [type |-> kind]
Intention(t)       == [type |-> "DownloadIntention", torrent |-> t]
Declared(t, ok)    == [type |-> "IntentionDeclared", torrent |-> t, success |-> ok]
Payment(ip, n)     == [type |-> "Payment", payer |-> ip, blocks |-> n]
Wallet(n)          == [type |-> "Wallet", coins |-> n]

Request ==
    [type : {"Authentication", "Logout", "RefreshWallet", "RedeemValues"}]
        \cup [type : {"DownloadIntention"}, torrent : Torrent]

Notification ==
    [type : {"Authenticated", "AuthenticationFailed"}]
        \cup [type : {"IntentionDeclared"}, torrent : Torrent, success : BOOLEAN]
        \cup [type : {"Payment"}, payer : Peer, blocks : Nat]
        \cup [type : {"Wallet"}, coins : Nat]

Linked == socket = "open" /\ daemonUp

\* sendMessage: what is written to a socket that is not connected is lost.
Sent(ms) == IF Linked THEN toDaemon \o ms ELSE toDaemon

\* What the daemon writes while nobody is connected to it is lost too.
Notified(m) == IF Linked THEN Append(toApp, m) ELSE toApp

\* declareDownloadIntention for each torrent of S, in the order of the loop.
Declarations(S) ==
    {[i \in DOMAIN order |-> Intention(order[i])] : order \in SetToSeqs(S)}

\* Bound on what the application sends.
CanSend == Len(toDaemon) < MaxInFlight

-----------------------------------------------------------------------------
(* The ledger of Payfluxo::Session *)

\* getIpPendentPayment
Pendent(up, pd, ip) == up[ip] - pd[ip]

\* Mutated form: off by one.
ExceededEarly(ip) == Pendent(uploaded, paidFor, ip) >= Tolerance - 1

\* ipExceededPendentPayment
Exceeded(ip) == Pendent(uploaded, paidFor, ip) >= Tolerance

\* The test of handlePaymentNotification that lifts a ban.
Recovered(up, pd, ip) == Pendent(up, pd, ip) < Recovery

\* Mutated form: the coin is forgotten.
CreditedNothing == redeemable

\* setRedeemableCoins(getRedeemableCoins() + 1), once per connected slot.
Credited == redeemable + handlers

-----------------------------------------------------------------------------
NoDebts == [ip \in Peer |-> 0]

\* The coins are not initialised by the constructor of Payfluxo::Session.
Garbage == 0..1

Init ==
    /\ authenticated = FALSE
    /\ redeemable \in Garbage
    /\ uploaded = NoDebts
    /\ paidFor = NoDebts
    /\ socket = "connecting"
    /\ handlers = 0
    /\ dialog = "none"
    /\ authBefore = FALSE
    /\ choices = {}
    /\ dangling = {}
    /\ toDaemon = <<>>
    /\ toApp = <<>>
    /\ loaded = {}
    /\ paid = {}
    /\ stopped = {}
    /\ complete = {}
    /\ banned = {}
    /\ daemonUp = TRUE
    /\ daemonUser = FALSE
    /\ daemonPaid = NoDebts
    /\ daemonCoins = 0
    /\ carried = {}
    /\ walletKnown = FALSE
    /\ clean = TRUE
    /\ orphaned = {}
    /\ failures = 0

-----------------------------------------------------------------------------
(* Authentication: AuthDialog and MainWindow::on_actionAuth_triggered *)

\* The action is visible while nobody is authenticated.
OpenAuthDialog ==
    /\ dialog = "none"
    /\ ~authenticated
    /\ dialog' = "auth"
    /\ authBefore' = authenticated
    /\ UNCHANGED <<session, link, torrents, banned, choices, dangling, daemon, history>>

\* Mutated form: the list is not refreshed from the session.
NotPaidStale == Torrent \ paid

\* notPaidTorrents
NotPaid == loaded \ paid

\* Mutated form: the two login states are not compared.
AuthDialogClosedAlways(ms) ==
    /\ \E ds \in Declarations(paid \ complete) : toDaemon' = Sent(ms \o ds)
    /\ IF NotPaid # {}
       THEN dialog' = "choice" /\ choices' = NotPaid
       ELSE dialog' = "none" /\ UNCHANGED choices

\* What on_actionAuth_triggered does when the dialog is gone, "ms" being what
\* the dialog has sent. The answer of the daemon is asynchronous, so it is an
\* earlier login that may have made the two states differ.
AuthDialogClosed(ms) ==
    LET loggedIn == authenticated # authBefore
    IN  /\ \E ds \in Declarations(IF loggedIn THEN paid \ complete ELSE {}) :
              toDaemon' = Sent(ms \o ds)
        /\ IF loggedIn /\ NotPaid # {}
           THEN dialog' = "choice" /\ choices' = NotPaid
           ELSE dialog' = "none" /\ UNCHANGED choices

PendingLogins ==
    {i \in DOMAIN toDaemon : toDaemon[i].type = "Authentication"}
        \cup {-i : i \in {j \in DOMAIN toApp :
                            toApp[j].type \in {"Authenticated", "AuthenticationFailed"}}}

\* setCredentials with a readable certificate: Session::authenticate sends the
\* message, zeroes the coins and returns; the dialog closes.
SubmitCredentials ==
    /\ dialog = "auth"
    /\ CanSend
    /\ AuthDialogClosed(<<Plain("Authentication")>>)
    /\ redeemable' = 0
    /\ walletKnown' = FALSE
    /\ clean' = (clean /\ ~authenticated /\ PendingLogins = {})
    /\ UNCHANGED <<authenticated, uploaded, paidFor, socket, handlers, toApp, torrents,
                   banned, authBefore, dangling, daemon, carried, orphaned, failures>>

\* The dialog is dismissed, or its certificate cannot be opened.
CancelAuthDialog ==
    /\ dialog = "auth"
    /\ CanSend
    /\ AuthDialogClosed(<<>>)
    /\ UNCHANGED <<session, socket, handlers, toApp, torrents, banned, authBefore,
                   dangling, daemon, history>>

-----------------------------------------------------------------------------
(* PayChoiceDialog: the user selects unpaid torrents to be paid for *)

\* The dialog holds pointers to torrents. One that was deleted meanwhile is
\* used all the same: either the freed object still answers, and its intention
\* is declared, or the application dies (Restart).
SelectPaid(S) ==
    /\ dialog = "choice"
    /\ CanSend
    /\ S \subseteq choices
    /\ \E ds \in Declarations(S \ complete) : toDaemon' = Sent(ds)
    /\ paid' = paid \cup (S \ dangling)
    /\ dialog' = "none"
    /\ choices' = {}
    /\ dangling' = {}
    /\ UNCHANGED <<session, socket, handlers, toApp, loaded, stopped, complete, banned,
                   authBefore, daemon, history>>

-----------------------------------------------------------------------------
(* BalanceDialog and MainWindow::on_actionBalance_triggered *)

OpenPanel ==
    /\ dialog = "none"
    /\ authenticated
    /\ CanSend
    /\ toDaemon' = Sent(<<Plain("RefreshWallet")>>)
    /\ dialog' = "panel"
    /\ UNCHANGED <<session, socket, handlers, toApp, torrents, banned, authBefore, choices,
                   dangling, daemon, history>>

\* invokeRedeem
Redeem ==
    /\ dialog = "panel"
    /\ CanSend
    /\ toDaemon' = Sent(<<Plain("RedeemValues")>>)
    /\ UNCHANGED <<session, socket, handlers, toApp, torrents, banned, gui, daemon, history>>

\* The rest of on_actionBalance_triggered: the paid torrents are paused when the
\* user is authenticated after the dialog.
PanelClosed(isAuthenticated) ==
    /\ dialog' = "none"
    /\ stopped' = IF isAuthenticated THEN stopped \cup paid ELSE stopped
    /\ UNCHANGED <<loaded, paid, complete>>

ClosePanel ==
    /\ dialog = "panel"
    /\ PanelClosed(authenticated)
    /\ UNCHANGED <<session, link, banned, authBefore, choices, dangling, daemon, history>>

\* flushCredentials: Session::logout, then the dialog closes.
Logout ==
    /\ dialog = "panel"
    /\ CanSend
    /\ authenticated' = FALSE
    /\ toDaemon' = Sent(<<Plain("Logout")>>)
    /\ PanelClosed(FALSE)
    /\ UNCHANGED <<redeemable, uploaded, paidFor, socket, handlers, toApp, banned,
                   authBefore, choices, dangling, daemon, history>>

-----------------------------------------------------------------------------
(* Torrents, as far as the payment layer gates them *)

\* Mutated form: a gate that asks for too much.
ResumedBoth(t) ==
    IF t \in loaded /\ authenticated /\ t \notin paid THEN stopped \ {t} ELSE stopped

\* TorrentImpl::resume, which every way to start a torrent goes through.
Resumed(t) ==
    IF t \in loaded /\ (authenticated \/ t \notin paid) THEN stopped \ {t} ELSE stopped

\* createTorrent, for a torrent that is added or restored: it is paused, made a
\* paid one and its intention is declared if somebody is authenticated.
AddTorrent(t, hasSeedStatus, addPaused) ==
    /\ t \notin loaded
    /\ CanSend
    /\ loaded' = loaded \cup {t}
    /\ complete' = IF hasSeedStatus THEN complete \cup {t} ELSE complete
    /\ paid' = IF authenticated THEN paid \cup {t} ELSE paid
    /\ stopped' = IF addPaused \/ authenticated THEN stopped \cup {t} ELSE stopped
    /\ toDaemon' = IF authenticated /\ ~hasSeedStatus
                   THEN Sent(<<Intention(t)>>) ELSE toDaemon
    /\ UNCHANGED <<session, socket, handlers, toApp, banned, gui, daemon, history>>

\* The messages under way that will make the application look t up.
Concerned(t) ==
    \/ Contains(toDaemon, Intention(t))
    \/ \E ok \in BOOLEAN : Contains(toApp, Declared(t, ok))

\* Mutated form: the torrent's flags outlive it.
ForgottenInPart(t) == loaded' = loaded \ {t} /\ UNCHANGED <<paid, stopped, complete>>

\* The torrent object goes with its entry in m_torrents.
Forgotten(t) ==
    /\ loaded' = loaded \ {t}
    /\ paid' = paid \ {t}
    /\ stopped' = stopped \ {t}
    /\ complete' = complete \ {t}

\* deleteTorrent, from the GUI, the Web API or a share limit.
DeleteTorrent(t) ==
    /\ t \in loaded
    /\ Forgotten(t)
    /\ dangling' = dangling \cup (choices \cap {t})
    /\ orphaned' = IF Concerned(t) \/ t \in choices THEN orphaned \cup {t} ELSE orphaned
    /\ UNCHANGED <<session, link, banned, dialog, authBefore, choices, daemon, carried,
                   walletKnown, clean, failures>>

ResumeTorrent(t) ==
    /\ t \in loaded
    /\ stopped' = Resumed(t)
    /\ UNCHANGED <<session, link, loaded, paid, complete, banned, gui, daemon, history>>

PauseTorrent(t) ==
    /\ t \in loaded
    /\ stopped' = stopped \cup {t}
    /\ UNCHANGED <<session, link, loaded, paid, complete, banned, gui, daemon, history>>

\* libtorrent has downloaded the last piece, or finds that one is missing.
CompletenessChanges(t) ==
    /\ t \in loaded
    /\ complete' = IF t \in complete THEN complete \ {t} ELSE complete \cup {t}
    /\ UNCHANGED <<session, link, loaded, paid, stopped, banned, gui, daemon, history>>

-----------------------------------------------------------------------------
(* Peers: the alerts of a paid torrent, and the ban list *)

\* dispatchTorrentAlert and handleBlockUploadedAlert
BlockUploaded(t, ip) ==
    /\ t \in paid
    /\ authenticated
    /\ uploaded[ip] < MaxBlocks
    /\ uploaded' = [uploaded EXCEPT ![ip] = @ + 1]
    /\ UNCHANGED <<authenticated, redeemable, paidFor, link, torrents, banned, gui, daemon,
                   history>>

\* dispatchTorrentAlert, handleIncomingRequestAlert and banIP
IncomingRequest(t, ip) ==
    /\ t \in paid
    /\ authenticated
    /\ Exceeded(ip)
    /\ banned' = banned \cup {ip}
    /\ UNCHANGED <<session, link, torrents, gui, daemon, history>>

\* "Ban peer permanently", or an address entered in the options.
UserBans(ip) ==
    /\ ip \notin banned
    /\ banned' = banned \cup {ip}
    /\ carried' = carried \cup {ip}
    /\ UNCHANGED <<session, link, torrents, gui, daemon, walletKnown, clean, orphaned,
                   failures>>

\* An address removed in the options.
UserUnbans(ip) ==
    /\ ip \in banned
    /\ banned' = banned \ {ip}
    /\ carried' = carried \ {ip}
    /\ UNCHANGED <<session, link, torrents, gui, daemon, walletKnown, clean, orphaned,
                   failures>>

-----------------------------------------------------------------------------
(* PayfluxoService: the web socket. A refused connection is retried by        *)
(* onWebSocketError after a pause and changes nothing: it is no action.       *)

\* onConnected connects the slot once more at every connection.
Connected ==
    /\ socket = "connecting"
    /\ daemonUp
    /\ socket' = "open"
    /\ handlers' = handlers + 1
    /\ UNCHANGED <<session, toDaemon, toApp, torrents, banned, gui, daemon, history>>

\* The connection broke: onWebSocketError opens the socket again.
SocketError ==
    /\ socket = "open"
    /\ ~daemonUp
    /\ toApp = <<>>
    /\ socket' = "connecting"
    /\ UNCHANGED <<session, handlers, toDaemon, toApp, torrents, banned, gui, daemon, history>>

\* The daemon took leave with a closing handshake: closed() does nothing.
Closed ==
    /\ socket = "open"
    /\ ~daemonUp
    /\ toApp = <<>>
    /\ socket' = "closed"
    /\ UNCHANGED <<session, handlers, toDaemon, toApp, torrents, banned, gui, daemon, history>>

-----------------------------------------------------------------------------
(* onTextMessageReceived, called once per connection of the signal *)

Receives(kind) ==
    /\ socket = "open"
    /\ toApp # <<>>
    /\ Head(toApp).type = kind
    /\ toApp' = Tail(toApp)

\* handlePaymentNotification: only the coin is not idempotent.
HandlePayment ==
    /\ Receives("Payment")
    /\ LET ip == Head(toApp).payer
       IN  /\ paidFor' = [paidFor EXCEPT ![ip] = Head(toApp).blocks]
           /\ redeemable' = Credited
           /\ IF Recovered(uploaded, paidFor', ip)
              THEN banned' = banned \ {ip} /\ carried' = carried \ {ip}
              ELSE UNCHANGED <<banned, carried>>
    /\ UNCHANGED <<authenticated, uploaded, socket, handlers, toDaemon, torrents, gui, daemon,
                   walletKnown, clean, orphaned, failures>>

\* handleIntentionDeclaredNotification: findTorrent(...)->resume(). When the
\* torrent is gone the pointer is null and the application dies (NullTorrent).
HandleIntention ==
    /\ Receives("IntentionDeclared")
    /\ LET t == Head(toApp).torrent
       IN  IF Head(toApp).success
           THEN t \in loaded /\ stopped' = Resumed(t)
           ELSE UNCHANGED stopped
    /\ UNCHANGED <<session, socket, handlers, toDaemon, loaded, paid, complete, banned, gui,
                   daemon, history>>

\* handleWalletNotification
HandleWallet ==
    /\ Receives("Wallet")
    /\ redeemable' = Head(toApp).coins
    /\ walletKnown' = TRUE
    /\ UNCHANGED <<authenticated, uploaded, paidFor, socket, handlers, toDaemon, torrents,
                   banned, gui, daemon, carried, clean, orphaned, failures>>

\* NotifyAuthentication, whatever the user has done since the login was sent
HandleAuthentication ==
    /\ Receives("Authenticated")
    /\ authenticated' = TRUE
    /\ UNCHANGED <<redeemable, uploaded, paidFor, socket, handlers, toDaemon, torrents, banned,
                   gui, daemon, history>>

\* NotifyAuthFailed only shows a message.
HandleAuthFailed ==
    /\ Receives("AuthenticationFailed")
    /\ UNCHANGED <<session, socket, handlers, toDaemon, torrents, banned, gui, daemon, history>>

-----------------------------------------------------------------------------
(* The end of the application and its next start *)

\* Bans are restored, and torrents one by one (AddTorrent); debts, coins and
\* m_paidTorrent are not. The daemon may or may not have read the last messages, closeEvent's Logout and
\* Closing among them, or have heard of a login it answers no more.
NewRun ==
    /\ authenticated' = FALSE
    /\ redeemable' \in Garbage
    /\ uploaded' = NoDebts
    /\ paidFor' = NoDebts
    /\ socket' = "connecting"
    /\ handlers' = 0
    /\ dialog' = "none"
    /\ authBefore' = FALSE
    /\ choices' = {}
    /\ dangling' = {}
    /\ toDaemon' = <<>>
    /\ toApp' = <<>>
    /\ loaded' = {}
    /\ paid' = {}
    /\ stopped' = {}
    /\ complete' = {}
    /\ carried' = banned
    /\ walletKnown' = FALSE
    /\ clean' = FALSE
    /\ \E up \in {daemonUp, FALSE}, user \in BOOLEAN :
          /\ daemonUp' = up
          /\ daemonUser' = (up /\ user)
    /\ UNCHANGED <<banned, daemonPaid, daemonCoins, orphaned>>

\* The user quits (closeEvent), or the process is killed or crashes.
Restart ==
    /\ failures < MaxFailures
    /\ failures' = failures + 1
    /\ NewRun

\* handleIntentionDeclaredNotification calls resume() on a null pointer.
NullTorrent ==
    /\ socket = "open"
    /\ toApp # <<>>
    /\ \E t \in Torrent \ loaded : Head(toApp) = Declared(t, TRUE)
    /\ NewRun
    /\ UNCHANGED failures

-----------------------------------------------------------------------------
(* The daemon (external): it answers requests in their order, and notifies    *)
(* of the payments that peers make. Its answers are modelled from what        *)
(* onTextMessageReceived expects.                                             *)

DaemonReads(kind) ==
    /\ Linked
    /\ toDaemon # <<>>
    /\ Head(toDaemon).type = kind
    /\ toDaemon' = Tail(toDaemon)
    /\ Len(toApp) < MaxInFlight

DaemonAuthenticates ==
    /\ DaemonReads("Authentication")
    /\ \/ /\ daemonUser' = TRUE
          /\ toApp' = Notified(Plain("Authenticated"))
       \/ /\ UNCHANGED daemonUser
          /\ toApp' = Notified(Plain("AuthenticationFailed"))
    /\ UNCHANGED <<session, socket, handlers, torrents, banned, gui, daemonUp, daemonPaid,
                   daemonCoins, history>>

DaemonLogsOut ==
    /\ DaemonReads("Logout")
    /\ daemonUser' = FALSE
    /\ UNCHANGED <<session, socket, handlers, toApp, torrents, banned, gui, daemonUp,
                   daemonPaid, daemonCoins, history>>

DaemonDeclares ==
    /\ DaemonReads("DownloadIntention")
    /\ \E ok \in BOOLEAN : toApp' = Notified(Declared(Head(toDaemon).torrent, ok))
    /\ UNCHANGED <<session, socket, handlers, torrents, banned, gui, daemon, history>>

DaemonTellsWallet ==
    /\ DaemonReads("RefreshWallet")
    /\ toApp' = Notified(Wallet(daemonCoins))
    /\ UNCHANGED <<session, socket, handlers, torrents, banned, gui, daemon, history>>

DaemonRedeems ==
    /\ DaemonReads("RedeemValues")
    /\ daemonCoins' = 0
    /\ toApp' = Notified(Wallet(0))
    /\ UNCHANGED <<session, socket, handlers, torrents, banned, gui, daemonUp, daemonUser,
                   daemonPaid, history>>

\* A peer pays for n more blocks; the notification tells the total.
DaemonPaid(ip, n) ==
    /\ daemonUp
    /\ daemonUser
    /\ daemonPaid[ip] + n <= MaxBlocks
    /\ daemonCoins < MaxCoins
    /\ Len(toApp) < MaxInFlight
    /\ daemonPaid' = [daemonPaid EXCEPT ![ip] = @ + n]
    /\ daemonCoins' = daemonCoins + 1
    /\ toApp' = Notified(Payment(ip, daemonPaid[ip] + n))
    /\ UNCHANGED <<session, socket, handlers, toDaemon, torrents, banned, gui, daemonUp,
                   daemonUser, history>>

\* The daemon dies or exits; what it wrote last may not arrive.
DaemonDies ==
    /\ daemonUp
    /\ failures < MaxFailures
    /\ failures' = failures + 1
    /\ daemonUp' = FALSE
    /\ daemonUser' = FALSE
    /\ toDaemon' = <<>>
    /\ \E k \in 0..Len(toApp) : toApp' = SubSeq(toApp, 1, k)
    /\ clean' = FALSE
    /\ UNCHANGED <<session, socket, handlers, torrents, banned, gui, daemonPaid, daemonCoins,
                   carried, walletKnown, orphaned>>

DaemonStarts ==
    /\ ~daemonUp
    /\ socket # "open"
    /\ daemonUp' = TRUE
    /\ UNCHANGED <<session, link, torrents, banned, gui, daemonUser, daemonPaid, daemonCoins,
                   history>>

-----------------------------------------------------------------------------
UserStep ==
    \/ OpenAuthDialog \/ SubmitCredentials \/ CancelAuthDialog
    \/ \E S \in SUBSET Torrent : SelectPaid(S)
    \/ OpenPanel \/ Redeem \/ ClosePanel \/ Logout

TorrentStep ==
    \E t \in Torrent :
        \/ \E hasSeedStatus, addPaused \in BOOLEAN : AddTorrent(t, hasSeedStatus, addPaused)
        \/ DeleteTorrent(t) \/ ResumeTorrent(t) \/ PauseTorrent(t) \/ CompletenessChanges(t)

PeerStep ==
    \E ip \in Peer :
        \/ \E t \in Torrent : BlockUploaded(t, ip) \/ IncomingRequest(t, ip)
        \/ UserBans(ip) \/ UserUnbans(ip)

MessageStep ==
    \/ HandlePayment \/ HandleIntention \/ HandleWallet
    \/ HandleAuthentication \/ HandleAuthFailed \/ NullTorrent

LinkStep == Connected \/ SocketError \/ Closed

DaemonStep ==
    \/ DaemonAuthenticates \/ DaemonLogsOut \/ DaemonDeclares
    \/ DaemonTellsWallet \/ DaemonRedeems
    \/ \E ip \in Peer, n \in 1..MaxBlocks : DaemonPaid(ip, n)
    \/ DaemonDies \/ DaemonStarts

Next ==
    UserStep \/ TorrentStep \/ PeerStep \/ MessageStep \/ LinkStep \/ DaemonStep \/ Restart

Spec == Init /\ [][Next]_vars

\* The Qt event loop delivers what the socket has received and signals its
\* state; nothing else is sure to happen.
FairSpec == Spec /\ WF_vars(MessageStep) /\ WF_vars(LinkStep)

-----------------------------------------------------------------------------
(* Properties *)

TypeOK ==
    /\ authenticated \in BOOLEAN
    /\ redeemable \in Nat
    /\ uploaded \in [Peer -> Nat]
    /\ paidFor \in [Peer -> Nat]
    /\ socket \in {"connecting", "open", "closed"}
    /\ handlers \in Nat
    /\ loaded \subseteq Torrent
    /\ paid \subseteq loaded
    /\ stopped \subseteq loaded
    /\ complete \subseteq loaded
    /\ banned \subseteq Peer
    /\ dialog \in {"none", "auth", "choice", "panel"}
    /\ authBefore \in BOOLEAN
    /\ choices \subseteq Torrent
    /\ dangling \subseteq choices
    /\ toDaemon \in Seq(Request)
    /\ toApp \in Seq(Notification)
    /\ daemonUp \in BOOLEAN
    /\ daemonUser \in BOOLEAN
    /\ daemonPaid \in [Peer -> Nat]
    /\ daemonCoins \in Nat
    /\ carried \subseteq Peer
    /\ walletKnown \in BOOLEAN
    /\ clean \in BOOLEAN
    /\ orphaned \subseteq Torrent
    /\ failures \in Nat

\* The pay choice dialog offers torrents that exist, or did when it opened.
ChoicesKnown ==
    /\ dialog # "choice" => choices = {}
    /\ choices \subseteq loaded \cup orphaned
    /\ choices \ dangling \subseteq loaded

\* Whoever the payment layer banned in this run of the application still owes
\* at least what lifts a ban: no payment, however late, leaves a settled peer
\* banned (handleIncomingRequestAlert against handlePaymentNotification).
BansAreOwed ==
    \A ip \in banned \ carried : Pendent(uploaded, paidFor, ip) >= Recovery

\* The daemon's answer about a torrent finds that torrent, unless it was
\* deleted while the declaration, the answer or the dialog that would declare
\* it was pending: only then is handleIntentionDeclaredNotification's pointer
\* null.
AnswersFindTheirTorrent ==
    \A t \in Torrent : Concerned(t) => t \in loaded \cup orphaned

\* What one message makes of the coins, where the slot is connected once
Reading(coins, m) ==
    IF m.type = "Payment" THEN coins + 1
    ELSE IF m.type = "Wallet" THEN m.coins ELSE coins

\* What all the messages of ms make of them
Heard(coins, ms) ==
    LET after[n \in 0..Len(ms)] == IF n = 0 THEN coins ELSE Reading(after[n - 1], ms[n])
    IN  after[Len(ms)]

WalletComes == \E i \in DOMAIN toApp : toApp[i].type = "Wallet"

\* What the application will believe of the wallet when it has read all that is
\* under way is what the daemon holds, as long as the slot is connected once and
\* a wallet was received, or is coming, since the coins were zeroed.
WalletSettles ==
    Linked /\ handlers = 1 /\ (walletKnown \/ WalletComes)
        => Heard(redeemable, toApp) = daemonCoins

\* On the first connection, and while no login was sent over another one (the
\* dialog of a second login may be open when the first is answered, and then
\* logs in once more), the application and the daemon agree on whether somebody
\* is logged in whenever nothing about it is under way.
LoginsAgree ==
    /\ clean
    /\ PendingLogins = {}
    /\ \A i \in DOMAIN toDaemon : toDaemon[i].type # "Logout"
    => authenticated = daemonUser

(* What the application believes of its user and its wallet is what the daemon
   holds, when all that was said has been heard. *)
AgreesWithDaemon == WalletSettles /\ LoginsAgree

\* No step of anybody makes a paid torrent run while the user is logged out:
\* neither a late answer of the daemon that starts it (the comment in
\* TorrentImpl::resume), nor a choice made in a dialog that was opened by a login
\* and looks at none (PayChoiceDialog::onSelectButtonClicked).
PaidRunsNeedLogin ==
    [][paid' \ stopped' \subseteq paid \ stopped \/ authenticated]_vars

\* An accepted intention is acted upon: the torrent runs, unless the user
\* logged out, the torrent is gone, the connection broke or the application
\* ended meanwhile.
AcceptedIntentionsRun ==
    \A t \in Torrent :
        Contains(toApp, Declared(t, TRUE))
            ~> (t \notin stopped \/ ~authenticated \/ socket # "open")

=============================================================================
