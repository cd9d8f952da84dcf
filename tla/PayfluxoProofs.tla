--------------------------- MODULE PayfluxoProofs ---------------------------
(***************************************************************************)
(* Proofs about Payfluxo, for every number of torrents, peers, messages,    *)
(* failures and every value of the two tolerances.                          *)
(***************************************************************************)
EXTENDS Payfluxo, QueueFacts, TLAPS, SequenceTheorems, FiniteSetTheorems

-----------------------------------------------------------------------------
(* Sequences of messages *)

\* Whatever a concatenation contains is in one of its parts.
LEMMA InConcat ==
    ASSUME NEW S, NEW s \in Seq(S), NEW u \in Seq(S), NEW x, Contains(s \o u, x)
    PROVE  Contains(s, x) \/ Contains(u, x)
<1>1. PICK i \in 1..Len(s \o u) : (s \o u)[i] = x
    BY DEF Contains
<1>2. CASE i <= Len(s)
    BY <1>1, <1>2, ConcatProperties, LenProperties DEF Contains
<1>3. CASE i > Len(s)
    <2>1. i - Len(s) \in 1..Len(u) /\ u[i - Len(s)] = x
        BY <1>1, <1>3, ConcatProperties, LenProperties
    <2>. QED  BY <2>1 DEF Contains
<1>. QED  BY <1>1, <1>2, <1>3, LenProperties, ConcatProperties

\* Appending adds nothing but the element appended.
LEMMA InAppend ==
    ASSUME NEW S, NEW s \in Seq(S), NEW e \in S, NEW x, Contains(Append(s, e), x)
    PROVE  Contains(s, x) \/ x = e
<1>1. PICK i \in 1..Len(Append(s, e)) : Append(s, e)[i] = x
    BY DEF Contains
<1>. QED  BY <1>1, AppendProperties, LenProperties DEF Contains

\* The tail and the prefixes of a sequence contain nothing new.
LEMMA InTail ==
    ASSUME NEW S, NEW s \in Seq(S), s # <<>>, NEW x, Contains(Tail(s), x)
    PROVE  Contains(s, x)
<1>1. PICK i \in 1..Len(Tail(s)) : Tail(s)[i] = x
    BY DEF Contains
<1>2. i + 1 \in 1..Len(s) /\ s[i + 1] = x
    BY <1>1, HeadTailProperties, LenProperties
<1>. QED  BY <1>2 DEF Contains

LEMMA InHead ==
    ASSUME NEW S, NEW s \in Seq(S), s # <<>>
    PROVE  Contains(s, Head(s))
<1>1. Len(s) >= 1 /\ Len(s) \in Nat
    BY EmptySeq, LenProperties
<1>2. Head(s) = s[1]
    BY <1>1
<1>. QED  BY <1>1, <1>2 DEF Contains

LEMMA InPrefix ==
    ASSUME NEW S, NEW s \in Seq(S), NEW k \in 0..Len(s)
    PROVE  /\ SubSeq(s, 1, k) \in Seq(S)
           /\ \A x : Contains(SubSeq(s, 1, k), x) => Contains(s, x)
<1>1. Len(s) \in Nat /\ \A i \in 1..Len(s) : s[i] \in S
    BY LenProperties
<1>2. /\ SubSeq(s, 1, k) \in Seq(S)
      /\ Len(SubSeq(s, 1, k)) = k
      /\ \A i \in 1..k : SubSeq(s, 1, k)[i] = s[i]
    <2>1. \A i \in 1..k : s[i] \in S
        BY <1>1
    <2>2. /\ SubSeq(s, 1, k) \in Seq(S)
          /\ Len(SubSeq(s, 1, k)) = IF 1 <= k THEN k - 1 + 1 ELSE 0
          /\ \A i \in 1..(k - 1 + 1) : SubSeq(s, 1, k)[i] = s[1 + i - 1]
        BY <1>1, <2>1, SubSeqProperties
    <2>. QED  BY <1>1, <2>2
<1>. QED  BY <1>1, <1>2 DEF Contains

\* The declarations for a set of torrents are requests about members of the set.
LEMMA DeclarationsProperties ==
    ASSUME NEW S \in SUBSET Torrent, NEW ds \in Declarations(S)
    PROVE  /\ ds \in Seq(Request)
           /\ \A t : Contains(ds, Intention(t)) => t \in S
<1>1. Cardinality(S) \in Nat
    BY PayfluxoAssumption, FS_Subset, FS_CardinalityType DEF PayfluxoAssumption
<1>2. PICK order \in SetToSeqs(S) : ds = [i \in DOMAIN order |-> Intention(order[i])]
    BY DEF Declarations
<1>3. order \in [1..Cardinality(S) -> S]
    BY DEF SetToSeqs
<1>4. ds = [i \in 1..Cardinality(S) |-> Intention(order[i])]
    BY <1>2, <1>3
<1>5. \A i \in 1..Cardinality(S) : order[i] \in S /\ Intention(order[i]) \in Request
    BY <1>3 DEF Intention, Request
<1>6. ds \in Seq(Request) /\ Len(ds) = Cardinality(S)
    <2>1. ds \in [1..Cardinality(S) -> Request]
        BY <1>4, <1>5
    <2>. QED  BY <1>1, <2>1
<1>7. ASSUME NEW t, Contains(ds, Intention(t))  PROVE t \in S
    <2>1. PICK i \in 1..Cardinality(S) : ds[i] = Intention(t)
        BY <1>6, <1>7 DEF Contains
    <2>2. Intention(order[i]) = Intention(t)
        BY <1>4, <2>1
    <2>3. order[i] = t
        BY <2>2 DEF Intention
    <2>. QED  BY <1>5, <2>3
<1>. QED  BY <1>6, <1>7

\* What is sent joins what was under way, or is lost.
LEMMA SentProperties ==
    ASSUME toDaemon \in Seq(Request), NEW ms \in Seq(Request)
    PROVE  /\ Sent(ms) \in Seq(Request)
           /\ \A x : Contains(Sent(ms), x) => Contains(toDaemon, x) \/ Contains(ms, x)
BY InConcat, ConcatProperties DEF Sent

LEMMA NotifiedProperties ==
    ASSUME toApp \in Seq(Notification), NEW m \in Notification
    PROVE  /\ Notified(m) \in Seq(Notification)
           /\ \A x : Contains(Notified(m), x) => Contains(toApp, x) \/ x = m
BY InAppend, AppendProperties DEF Notified

-----------------------------------------------------------------------------
(* Type correctness *)

\* A message that has been received leaves a well-typed rest.
LEMMA ReceivesType ==
    ASSUME toApp \in Seq(Notification), NEW kind, Receives(kind)
    PROVE  /\ toApp' \in Seq(Notification)
           /\ Head(toApp) \in Notification
           /\ Head(toApp).type = kind
           /\ \A x : Contains(toApp', x) => Contains(toApp, x)
           /\ Contains(toApp, Head(toApp))
BY HeadTailProperties, InTail, InHead DEF Receives

LEMMA DaemonReadsType ==
    ASSUME toDaemon \in Seq(Request), NEW kind, DaemonReads(kind)
    PROVE  /\ toDaemon' \in Seq(Request)
           /\ Head(toDaemon) \in Request
           /\ Head(toDaemon).type = kind
           /\ \A x : Contains(toDaemon', x) => Contains(toDaemon, x)
           /\ Contains(toDaemon, Head(toDaemon))
BY HeadTailProperties, InTail, InHead DEF DaemonReads

LEMMA PlainRequests ==
    \A k \in {"Authentication", "Logout", "RefreshWallet", "RedeemValues"} :
        /\ <<Plain(k)>> \in Seq(Request)
        /\ \A t : ~Contains(<<Plain(k)>>, Intention(t))
<1>. SUFFICES ASSUME NEW k \in {"Authentication", "Logout", "RefreshWallet", "RedeemValues"}
              PROVE  /\ <<Plain(k)>> \in Seq(Request)
                     /\ \A t : ~Contains(<<Plain(k)>>, Intention(t))
    OBVIOUS
<1>1. Plain(k) \in Request
    BY DEF Plain, Request
<1>2. \A t : Plain(k) # Intention(t)
    BY DEF Plain, Intention
<1>. QED  BY <1>1, <1>2 DEF Contains

\* What the end of the authentication dialog sends and leaves open.
LEMMA AuthDialogClosedType ==
    ASSUME TypeOK, NEW ms \in Seq(Request), AuthDialogClosed(ms)
    PROVE  /\ toDaemon' \in Seq(Request)
           /\ \A t : Contains(toDaemon', Intention(t)) =>
                    \/ Contains(toDaemon, Intention(t))
                    \/ Contains(ms, Intention(t))
                    \/ t \in loaded
           /\ dialog' \in {"none", "choice"}
           /\ choices' \in {choices, loaded \ paid}
<1>. DEFINE S == IF authenticated # authBefore THEN paid \ complete ELSE {}
<1>1. S \in SUBSET Torrent /\ S \subseteq loaded
    BY DEF TypeOK
<1>2. PICK ds \in Declarations(S) : toDaemon' = Sent(ms \o ds)
    BY DEF AuthDialogClosed
<1>3. /\ ds \in Seq(Request)
      /\ \A t : Contains(ds, Intention(t)) => t \in loaded
    BY <1>1, DeclarationsProperties
<1>4. /\ ms \o ds \in Seq(Request)
      /\ \A x : Contains(ms \o ds, x) => Contains(ms, x) \/ Contains(ds, x)
    BY <1>3, ConcatProperties, InConcat
<1>5. /\ toDaemon' \in Seq(Request)
      /\ \A x : Contains(toDaemon', x) => Contains(toDaemon, x) \/ Contains(ms \o ds, x)
    BY <1>2, <1>4, SentProperties DEF TypeOK
<1>6. /\ dialog' \in {"none", "choice"}
      /\ choices' \in {choices, loaded \ paid}
    BY DEF AuthDialogClosed, NotPaid
<1>. QED  BY <1>3, <1>4, <1>5, <1>6

GuiType == TypeOK /\ ChoicesKnown

LEMMA InitType == Init => GuiType
<1>1. <<>> \in Seq(Request) /\ <<>> \in Seq(Notification)
    BY EmptySeq
<1>2. NoDebts \in [Peer -> Nat] /\ Garbage \subseteq Nat
    BY DEF NoDebts, Garbage
<1>3. Init => TypeOK
    <2>. SUFFICES ASSUME Init  PROVE TypeOK
        OBVIOUS
    <2>1. toDaemon \in Seq(Request) /\ toApp \in Seq(Notification)
        BY <1>1 DEF Init
    <2>2. uploaded \in [Peer -> Nat] /\ paidFor \in [Peer -> Nat] /\ daemonPaid \in [Peer -> Nat]
        BY <1>2 DEF Init
    <2>3. redeemable \in Nat /\ handlers \in Nat /\ daemonCoins \in Nat /\ failures \in Nat
        BY <1>2 DEF Init
    <2>. QED  BY <2>1, <2>2, <2>3 DEF Init, TypeOK
<1>4. Init => ChoicesKnown
    BY DEF Init, ChoicesKnown
<1>. QED  BY <1>3, <1>4 DEF GuiType

\* The steps of the user keep the types.
LEMMA UserStepType ==
    ASSUME GuiType, UserStep
    PROVE  GuiType'
<1>. USE DEF GuiType
<1>1. CASE OpenAuthDialog
    BY <1>1 DEF OpenAuthDialog, TypeOK, ChoicesKnown, session, link, torrents, daemon, history
<1>2. CASE SubmitCredentials
    <2>1. AuthDialogClosed(<<Plain("Authentication")>>)
        BY <1>2 DEF SubmitCredentials
    <2>2. /\ toDaemon' \in Seq(Request)
          /\ dialog' \in {"none", "choice"}
          /\ choices' \in {choices, loaded \ paid}
        BY <2>1, AuthDialogClosedType, PlainRequests
    <2>3. choices = {} /\ dangling = {} /\ (dialog' # "choice" => choices' = {})
        BY <1>2, <2>1 DEF SubmitCredentials, TypeOK, ChoicesKnown, AuthDialogClosed
    <2>. QED  BY <1>2, <2>2, <2>3
              DEF SubmitCredentials, TypeOK, ChoicesKnown, torrents, daemon
<1>3. CASE CancelAuthDialog
    <2>1. AuthDialogClosed(<<>>)
        BY <1>3 DEF CancelAuthDialog
    <2>2. /\ toDaemon' \in Seq(Request)
          /\ dialog' \in {"none", "choice"}
          /\ choices' \in {choices, loaded \ paid}
        BY <2>1, AuthDialogClosedType, EmptySeq
    <2>3. choices = {} /\ dangling = {} /\ (dialog' # "choice" => choices' = {})
        BY <1>3, <2>1 DEF CancelAuthDialog, TypeOK, ChoicesKnown, AuthDialogClosed
    <2>. QED  BY <1>3, <2>2, <2>3
              DEF CancelAuthDialog, TypeOK, ChoicesKnown, session, torrents, daemon, history
<1>4. ASSUME NEW S \in SUBSET Torrent, SelectPaid(S)  PROVE GuiType'
    <2>1. PICK ds \in Declarations(S \ complete) : toDaemon' = Sent(ds)
        BY <1>4 DEF SelectPaid
    <2>2. toDaemon' \in Seq(Request)
        BY <2>1, DeclarationsProperties, SentProperties DEF TypeOK
    <2>3. paid' = paid \cup (S \ dangling) /\ S \ dangling \subseteq loaded
        BY <1>4 DEF SelectPaid, TypeOK, ChoicesKnown
    <2>. QED  BY <1>4, <2>2, <2>3
              DEF SelectPaid, TypeOK, ChoicesKnown, session, daemon, history
<1>5. CASE OpenPanel
    BY <1>5, PlainRequests, SentProperties
       DEF OpenPanel, TypeOK, ChoicesKnown, session, torrents, daemon, history
<1>6. CASE Redeem
    BY <1>6, PlainRequests, SentProperties
       DEF Redeem, TypeOK, ChoicesKnown, session, torrents, daemon, history, gui
<1>7. CASE ClosePanel
    BY <1>7 DEF ClosePanel, PanelClosed, TypeOK, ChoicesKnown, session, link, daemon, history
<1>8. CASE Logout
    BY <1>8, PlainRequests, SentProperties
       DEF Logout, PanelClosed, TypeOK, ChoicesKnown, daemon, history
<1>. QED  BY <1>1, <1>2, <1>3, <1>4, <1>5, <1>6, <1>7, <1>8 DEF UserStep

\* The steps that concern torrents keep the types.
LEMMA TorrentStepType ==
    ASSUME GuiType, TorrentStep
    PROVE  GuiType'
<1>. USE DEF GuiType
<1>1. ASSUME NEW t \in Torrent, NEW hasSeedStatus \in BOOLEAN, NEW addPaused \in BOOLEAN,
             AddTorrent(t, hasSeedStatus, addPaused)
      PROVE  GuiType'
    <2>1. <<Intention(t)>> \in Seq(Request)
        BY DEF Intention, Request
    <2>2. toDaemon' \in Seq(Request)
        BY <1>1, <2>1, SentProperties DEF AddTorrent, TypeOK
    <2>. QED  BY <1>1, <2>2
              DEF AddTorrent, TypeOK, ChoicesKnown, session, gui, daemon, history
<1>2. ASSUME NEW t \in Torrent, DeleteTorrent(t)  PROVE GuiType'
    <2>1. t \in choices => t \in orphaned'
        BY <1>2 DEF DeleteTorrent
    <2>. QED  BY <1>2, <2>1
              DEF DeleteTorrent, Forgotten, TypeOK, ChoicesKnown, session, link, daemon
<1>3. ASSUME NEW t \in Torrent, ResumeTorrent(t)  PROVE GuiType'
    BY <1>3 DEF ResumeTorrent, Resumed, TypeOK, ChoicesKnown, session, link, gui, daemon, history
<1>4. ASSUME NEW t \in Torrent, PauseTorrent(t)  PROVE GuiType'
    BY <1>4 DEF PauseTorrent, TypeOK, ChoicesKnown, session, link, gui, daemon, history
<1>5. ASSUME NEW t \in Torrent, CompletenessChanges(t)  PROVE GuiType'
    BY <1>5 DEF CompletenessChanges, TypeOK, ChoicesKnown, session, link, gui, daemon, history
<1>. QED  BY <1>1, <1>2, <1>3, <1>4, <1>5 DEF TorrentStep

\* The alerts of peers and the ban list keep the types.
LEMMA PeerStepType ==
    ASSUME GuiType, PeerStep
    PROVE  GuiType'
<1>. USE DEF GuiType
<1>1. ASSUME NEW ip \in Peer, NEW t \in Torrent, BlockUploaded(t, ip)  PROVE GuiType'
    BY <1>1 DEF BlockUploaded, TypeOK, ChoicesKnown, link, torrents, gui, daemon, history
<1>2. ASSUME NEW ip \in Peer, NEW t \in Torrent, IncomingRequest(t, ip)  PROVE GuiType'
    BY <1>2 DEF IncomingRequest, TypeOK, ChoicesKnown, session, link, torrents, gui, daemon,
                history
<1>3. ASSUME NEW ip \in Peer, UserBans(ip)  PROVE GuiType'
    BY <1>3 DEF UserBans, TypeOK, ChoicesKnown, session, link, torrents, gui, daemon
<1>4. ASSUME NEW ip \in Peer, UserUnbans(ip)  PROVE GuiType'
    BY <1>4 DEF UserUnbans, TypeOK, ChoicesKnown, session, link, torrents, gui, daemon
<1>. QED  BY <1>1, <1>2, <1>3, <1>4 DEF PeerStep

\* A new run of the application starts in well-typed state.
LEMMA NewRunType ==
    ASSUME GuiType, NewRun, failures' \in Nat
    PROVE  GuiType'
<1>1. <<>> \in Seq(Request) /\ <<>> \in Seq(Notification)
    BY EmptySeq
<1>2. NoDebts \in [Peer -> Nat] /\ Garbage \subseteq Nat
    BY DEF NoDebts, Garbage
<1>3. daemonUp' \in BOOLEAN /\ daemonUser' \in BOOLEAN
    BY DEF GuiType, TypeOK, NewRun
<1>. QED  BY <1>1, <1>2, <1>3 DEF NewRun, GuiType, TypeOK, ChoicesKnown

\* What the service receives keeps the types.
LEMMA MessageStepType ==
    ASSUME GuiType, MessageStep
    PROVE  GuiType'
<1>. USE DEF GuiType
<1>0. toApp \in Seq(Notification)
    BY DEF TypeOK
<1>1. CASE HandlePayment
    <2>1. /\ toApp' \in Seq(Notification)
          /\ Head(toApp) \in Notification
          /\ Head(toApp).type = "Payment"
        BY <1>0, <1>1, ReceivesType DEF HandlePayment
    <2>2. Head(toApp).payer \in Peer /\ Head(toApp).blocks \in Nat
        BY <2>1 DEF Notification
    <2>3. /\ paidFor' \in [Peer -> Nat]
          /\ redeemable' \in Nat
          /\ banned' \subseteq Peer
          /\ carried' \subseteq Peer
        BY <1>1, <2>2 DEF HandlePayment, Credited, TypeOK
    <2>. QED  BY <1>1, <2>1, <2>3 DEF HandlePayment, TypeOK, ChoicesKnown, torrents, gui, daemon
<1>2. CASE HandleIntention
    <2>1. toApp' \in Seq(Notification)
        BY <1>0, <1>2, ReceivesType DEF HandleIntention
    <2>2. stopped' \subseteq stopped
        BY <1>2 DEF HandleIntention, Resumed
    <2>. QED  BY <1>2, <2>1, <2>2
              DEF HandleIntention, TypeOK, ChoicesKnown, session, gui, daemon, history
<1>3. CASE HandleWallet
    <2>1. /\ toApp' \in Seq(Notification)
          /\ Head(toApp) \in Notification
          /\ Head(toApp).type = "Wallet"
        BY <1>0, <1>3, ReceivesType DEF HandleWallet
    <2>2. Head(toApp).coins \in Nat
        BY <2>1 DEF Notification
    <2>. QED  BY <1>3, <2>1, <2>2 DEF HandleWallet, TypeOK, ChoicesKnown, torrents, gui, daemon
<1>4. CASE HandleAuthentication
    <2>1. toApp' \in Seq(Notification)
        BY <1>0, <1>4, ReceivesType DEF HandleAuthentication
    <2>. QED  BY <1>4, <2>1
              DEF HandleAuthentication, TypeOK, ChoicesKnown, torrents, gui, daemon, history
<1>5. CASE HandleAuthFailed
    <2>1. toApp' \in Seq(Notification)
        BY <1>0, <1>5, ReceivesType DEF HandleAuthFailed
    <2>. QED  BY <1>5, <2>1
              DEF HandleAuthFailed, TypeOK, ChoicesKnown, session, torrents, gui, daemon, history
<1>6. CASE NullTorrent
    BY <1>6, NewRunType DEF NullTorrent, TypeOK
<1>. QED  BY <1>1, <1>2, <1>3, <1>4, <1>5, <1>6 DEF MessageStep

\* The state of the socket keeps the types.
LEMMA LinkStepType ==
    ASSUME GuiType, LinkStep
    PROVE  GuiType'
BY DEF GuiType, LinkStep, Connected, SocketError, Closed, TypeOK, ChoicesKnown, session,
       torrents, gui, daemon, history

\* The daemon keeps the types.
LEMMA DaemonStepType ==
    ASSUME GuiType, DaemonStep
    PROVE  GuiType'
<1>. USE DEF GuiType
<1>0. toApp \in Seq(Notification) /\ toDaemon \in Seq(Request)
    BY DEF TypeOK
<1>1. CASE DaemonAuthenticates
    <2>1. Plain("Authenticated") \in Notification /\ Plain("AuthenticationFailed") \in Notification
        BY DEF Plain, Notification
    <2>2. toApp' \in Seq(Notification) /\ toDaemon' \in Seq(Request) /\ daemonUser' \in BOOLEAN
        BY <1>0, <1>1, <2>1, DaemonReadsType, NotifiedProperties DEF DaemonAuthenticates, TypeOK
    <2>. QED  BY <1>1, <2>2
              DEF DaemonAuthenticates, TypeOK, ChoicesKnown, session, torrents, gui, history
<1>2. CASE DaemonLogsOut
    <2>1. toDaemon' \in Seq(Request)
        BY <1>0, <1>2, DaemonReadsType DEF DaemonLogsOut
    <2>. QED  BY <1>2, <2>1
              DEF DaemonLogsOut, TypeOK, ChoicesKnown, session, torrents, gui, history
<1>3. CASE DaemonDeclares
    <2>1. /\ toDaemon' \in Seq(Request)
          /\ Head(toDaemon) \in Request
          /\ Head(toDaemon).type = "DownloadIntention"
        BY <1>0, <1>3, DaemonReadsType DEF DaemonDeclares
    <2>2. \A ok \in BOOLEAN : Declared(Head(toDaemon).torrent, ok) \in Notification
        BY <2>1 DEF Request, Declared, Notification
    <2>3. toApp' \in Seq(Notification)
        BY <1>0, <1>3, <2>2, NotifiedProperties DEF DaemonDeclares
    <2>. QED  BY <1>3, <2>1, <2>3
              DEF DaemonDeclares, TypeOK, ChoicesKnown, session, torrents, gui, daemon, history
<1>4. CASE DaemonTellsWallet
    <2>1. Wallet(daemonCoins) \in Notification
        BY DEF Wallet, Notification, TypeOK
    <2>2. toApp' \in Seq(Notification) /\ toDaemon' \in Seq(Request)
        BY <1>0, <1>4, <2>1, DaemonReadsType, NotifiedProperties DEF DaemonTellsWallet
    <2>. QED  BY <1>4, <2>2
              DEF DaemonTellsWallet, TypeOK, ChoicesKnown, session, torrents, gui, daemon, history
<1>5. CASE DaemonRedeems
    <2>1. Wallet(0) \in Notification
        BY DEF Wallet, Notification
    <2>2. toApp' \in Seq(Notification) /\ toDaemon' \in Seq(Request)
        BY <1>0, <1>5, <2>1, DaemonReadsType, NotifiedProperties DEF DaemonRedeems
    <2>. QED  BY <1>5, <2>2
              DEF DaemonRedeems, TypeOK, ChoicesKnown, session, torrents, gui, history
<1>6. ASSUME NEW ip \in Peer, NEW n \in 1..MaxBlocks, DaemonPaid(ip, n)  PROVE GuiType'
    <2>1. n \in Nat /\ daemonPaid[ip] \in Nat
        BY PayfluxoAssumption DEF PayfluxoAssumption, TypeOK
    <2>2. Payment(ip, daemonPaid[ip] + n) \in Notification
        BY <2>1 DEF Payment, Notification
    <2>3. toApp' \in Seq(Notification)
        BY <1>0, <1>6, <2>2, NotifiedProperties DEF DaemonPaid
    <2>4. daemonPaid' \in [Peer -> Nat] /\ daemonCoins' \in Nat
        BY <1>6, <2>1 DEF DaemonPaid, TypeOK
    <2>. QED  BY <1>6, <2>3, <2>4
              DEF DaemonPaid, TypeOK, ChoicesKnown, session, torrents, gui, history
<1>7. CASE DaemonDies
    <2>1. toApp' \in Seq(Notification) /\ toDaemon' \in Seq(Request)
        BY <1>0, <1>7, InPrefix, EmptySeq DEF DaemonDies
    <2>2. failures' \in Nat
        BY <1>7 DEF DaemonDies, TypeOK
    <2>3. daemonUp' \in BOOLEAN /\ daemonUser' \in BOOLEAN /\ clean' \in BOOLEAN
        BY <1>7 DEF DaemonDies
    <2>4. UNCHANGED <<session, socket, handlers, torrents, banned, gui, daemonPaid, daemonCoins,
                      carried, walletKnown, orphaned>>
        BY <1>7 DEF DaemonDies
    <2>. QED  BY <2>1, <2>2, <2>3, <2>4 DEF TypeOK, ChoicesKnown, session, torrents, gui
<1>8. CASE DaemonStarts
    BY <1>8 DEF DaemonStarts, TypeOK, ChoicesKnown, session, link, torrents, gui, history
<1>. QED  BY <1>1, <1>2, <1>3, <1>4, <1>5, <1>6, <1>7, <1>8 DEF DaemonStep

LEMMA NextType ==
    ASSUME GuiType, [Next]_vars
    PROVE  GuiType'
<1>1. CASE Restart
    BY <1>1, NewRunType DEF Restart, GuiType, TypeOK
<1>2. CASE UNCHANGED vars
    BY <1>2 DEF vars, session, link, torrents, gui, daemon, history, GuiType, TypeOK, ChoicesKnown
<1>. QED  BY <1>1, <1>2, UserStepType, TorrentStepType, PeerStepType, MessageStepType,
             LinkStepType, DaemonStepType DEF Next

\* The variables keep their types, and what the pay choice dialog offers exists
\* or did when it opened, whatever the users, peers, torrents and messages do.
THEOREM Typing == Spec => [](TypeOK /\ ChoicesKnown)
<1>1. Spec => []GuiType
    BY InitType, NextType, PTL DEF Spec
<1>. QED  BY <1>1, PTL DEF GuiType

-----------------------------------------------------------------------------
(* Debts and bans *)

ledger == <<uploaded, paidFor, banned, carried>>

\* The only steps that touch a debt or a ban.
LEMMA LedgerSteps ==
    ASSUME [Next]_vars
    PROVE  \/ UNCHANGED ledger
           \/ \E ip \in Peer, t \in Torrent : BlockUploaded(t, ip) \/ IncomingRequest(t, ip)
           \/ \E ip \in Peer : UserBans(ip) \/ UserUnbans(ip)
           \/ HandlePayment
           \/ NewRun
<1>. USE DEF ledger, session, history
<1>1. UserStep => UNCHANGED ledger
    BY DEF UserStep, OpenAuthDialog, SubmitCredentials, CancelAuthDialog, SelectPaid, OpenPanel,
           Redeem, ClosePanel, Logout
<1>2. TorrentStep => UNCHANGED ledger
    BY DEF TorrentStep, AddTorrent, DeleteTorrent, ResumeTorrent, PauseTorrent,
           CompletenessChanges
<1>3. LinkStep => UNCHANGED ledger
    BY DEF LinkStep, Connected, SocketError, Closed
<1>4. DaemonStep => UNCHANGED ledger
    BY DEF DaemonStep, DaemonAuthenticates, DaemonLogsOut, DaemonDeclares, DaemonTellsWallet,
           DaemonRedeems, DaemonPaid, DaemonDies, DaemonStarts
<1>5. MessageStep => UNCHANGED ledger \/ HandlePayment \/ NewRun
    BY DEF MessageStep, HandleIntention, HandleWallet, HandleAuthentication, HandleAuthFailed,
           NullTorrent
<1>6. CASE UNCHANGED vars
    BY <1>6 DEF vars
<1>. QED  BY <1>1, <1>2, <1>3, <1>4, <1>5, <1>6 DEF Next, PeerStep, Restart

\* A payment notification sets the account of one peer.
LEMMA PaymentEffect ==
    ASSUME TypeOK, HandlePayment
    PROVE  /\ Head(toApp).payer \in Peer
           /\ uploaded' = uploaded
           /\ paidFor' \in [Peer -> Nat]
           /\ \A q \in Peer : q # Head(toApp).payer => paidFor'[q] = paidFor[q]
<1>1. /\ Head(toApp) \in Notification
      /\ Head(toApp).type = "Payment"
    BY ReceivesType DEF HandlePayment, TypeOK
<1>2. Head(toApp).payer \in Peer /\ Head(toApp).blocks \in Nat
    BY <1>1 DEF Notification
<1>3. paidFor' = [paidFor EXCEPT ![Head(toApp).payer] = Head(toApp).blocks]
    BY DEF HandlePayment
<1>4. uploaded' = uploaded
    BY DEF HandlePayment
<1>. QED  BY <1>2, <1>3, <1>4 DEF TypeOK

LEMMA BansAreOwedStep ==
    ASSUME TypeOK, BansAreOwed, [Next]_vars
    PROVE  BansAreOwed'
<1>. SUFFICES ASSUME NEW ip \in banned' \ carried'
              PROVE  Pendent(uploaded', paidFor', ip) >= Recovery
    BY DEF BansAreOwed, Pendent
<1>1. CASE UNCHANGED ledger
    BY <1>1 DEF ledger, BansAreOwed, Pendent
<1>2. ASSUME NEW p \in Peer, NEW t \in Torrent, BlockUploaded(t, p)
      PROVE  Pendent(uploaded', paidFor', ip) >= Recovery
    <2>1. ip \in banned \ carried /\ ip \in Peer
        BY <1>2 DEF BlockUploaded, history, TypeOK
    <2>2. /\ uploaded[ip] \in Nat
          /\ paidFor[ip] \in Nat
          /\ uploaded'[ip] >= uploaded[ip]
          /\ uploaded'[ip] \in Nat
          /\ paidFor' = paidFor
        BY <1>2, <2>1 DEF BlockUploaded, TypeOK
    <2>. QED  BY <2>1, <2>2, PayfluxoAssumption DEF BansAreOwed, Pendent, PayfluxoAssumption
<1>3. ASSUME NEW p \in Peer, NEW t \in Torrent, IncomingRequest(t, p)
      PROVE  Pendent(uploaded', paidFor', ip) >= Recovery
    <2>1. uploaded' = uploaded /\ paidFor' = paidFor /\ carried' = carried
        BY <1>3 DEF IncomingRequest, session, history
    <2>2. CASE ip = p
        <3>1. Pendent(uploaded, paidFor, ip) >= Tolerance
            BY <1>3, <2>2 DEF IncomingRequest, Exceeded
        <3>2. uploaded[ip] \in Nat /\ paidFor[ip] \in Nat
            BY <2>2 DEF TypeOK
        <3>. QED  BY <2>1, <3>1, <3>2, PayfluxoAssumption DEF Pendent, PayfluxoAssumption
    <2>3. CASE ip # p
        BY <1>3, <2>1, <2>3 DEF IncomingRequest, BansAreOwed
    <2>. QED  BY <2>2, <2>3
<1>4. ASSUME NEW p \in Peer, UserBans(p) \/ UserUnbans(p)
      PROVE  Pendent(uploaded', paidFor', ip) >= Recovery
    BY <1>4 DEF UserBans, UserUnbans, session, BansAreOwed
<1>5. CASE HandlePayment
    <2>1. DEFINE p == Head(toApp).payer
    <2>2. /\ p \in Peer
          /\ uploaded' = uploaded
          /\ \A q \in Peer : q # p => paidFor'[q] = paidFor[q]
          /\ paidFor' \in [Peer -> Nat]
        BY <1>5, PaymentEffect
    <2>3. CASE ip = p
        <3>1. ~Recovered(uploaded, paidFor', ip)
            BY <1>5, <2>3 DEF HandlePayment
        <3>2. uploaded[ip] \in Nat /\ paidFor'[ip] \in Nat
            BY <2>2, <2>3 DEF TypeOK
        <3>. QED  BY <2>2, <3>1, <3>2, PayfluxoAssumption DEF Recovered, Pendent, PayfluxoAssumption
    <2>4. CASE ip # p
        <3>1. ip \in banned \ carried /\ ip \in Peer
            BY <1>5, <2>4 DEF HandlePayment, TypeOK
        <3>. QED  BY <2>2, <2>4, <3>1 DEF BansAreOwed, Pendent
    <2>. QED  BY <2>3, <2>4
<1>6. CASE NewRun
    BY <1>6 DEF NewRun
<1>. QED  BY <1>1, <1>2, <1>3, <1>4, <1>5, <1>6, LedgerSteps

\* For every tolerance and recovery limit: whoever the payment layer banned in
\* this run still owes the recovery limit.
THEOREM DebtsJustifyBans == Spec => []BansAreOwed
<1>1. Init => BansAreOwed
    BY DEF Init, BansAreOwed
<1>2. TypeOK /\ BansAreOwed /\ [Next]_vars => BansAreOwed'
    BY BansAreOwedStep
<1>. QED  BY <1>1, <1>2, Typing, PTL DEF Spec

-----------------------------------------------------------------------------
(* Answers about torrents *)

Answered == ChoicesKnown /\ AnswersFindTheirTorrent

\* A torrent that is concerned by no more messages than before, and is still
\* loaded or orphaned, needs no further argument.
LEMMA FewerMessages ==
    ASSUME AnswersFindTheirTorrent,
           loaded \cup orphaned \subseteq loaded' \cup orphaned',
           \A t \in Torrent : Contains(toDaemon', Intention(t)) =>
                Concerned(t) \/ t \in loaded \cup orphaned,
           \A t \in Torrent, ok \in BOOLEAN : Contains(toApp', Declared(t, ok)) => Concerned(t)
    PROVE  AnswersFindTheirTorrent'
BY DEF AnswersFindTheirTorrent, Concerned

LEMMA PlainNotifications ==
    /\ \A k, t, ok : Plain(k) = Declared(t, ok) => k = "IntentionDeclared"
    /\ \A n, t, ok : Wallet(n) # Declared(t, ok)
    /\ \A p, n, t, ok : Payment(p, n) # Declared(t, ok)
BY DEF Plain, Wallet, Payment, Declared

LEMMA NothingConcerns ==
    ASSUME toDaemon' = <<>>, toApp' = <<>>
    PROVE  AnswersFindTheirTorrent'
BY EmptySeq DEF AnswersFindTheirTorrent, Concerned, Contains

LEMMA UserStepAnswers ==
    ASSUME TypeOK, Answered, UserStep
    PROVE  AnswersFindTheirTorrent'
<1>. USE DEF Answered
<1>1. CASE OpenAuthDialog
    BY <1>1, FewerMessages DEF OpenAuthDialog, link, torrents, history, Concerned
<1>2. CASE SubmitCredentials
    <2>1. \A t : Contains(toDaemon', Intention(t)) =>
              Contains(toDaemon, Intention(t)) \/ t \in loaded
        BY <1>2, AuthDialogClosedType, PlainRequests DEF SubmitCredentials
    <2>. QED  BY <1>2, <2>1, FewerMessages DEF SubmitCredentials, torrents, Concerned
<1>3. CASE CancelAuthDialog
    <2>1. \A t : ~Contains(<<>>, Intention(t))
        BY EmptySeq DEF Contains
    <2>2. \A t : Contains(toDaemon', Intention(t)) =>
              Contains(toDaemon, Intention(t)) \/ t \in loaded
        BY <1>3, <2>1, AuthDialogClosedType, EmptySeq DEF CancelAuthDialog
    <2>. QED  BY <1>3, <2>2, FewerMessages DEF CancelAuthDialog, torrents, history, Concerned
<1>4. ASSUME NEW S \in SUBSET Torrent, SelectPaid(S)  PROVE AnswersFindTheirTorrent'
    <2>1. PICK ds \in Declarations(S \ complete) : toDaemon' = Sent(ds)
        BY <1>4 DEF SelectPaid
    <2>2. \A t : Contains(toDaemon', Intention(t)) => Contains(toDaemon, Intention(t)) \/ t \in S
        BY <2>1, DeclarationsProperties, SentProperties DEF TypeOK
    <2>3. S \subseteq loaded \cup orphaned
        BY <1>4 DEF SelectPaid, ChoicesKnown
    <2>. QED  BY <1>4, <2>2, <2>3, FewerMessages DEF SelectPaid, history, Concerned
<1>5. CASE OpenPanel
    <2>1. \A t : Contains(toDaemon', Intention(t)) => Contains(toDaemon, Intention(t))
        BY <1>5, PlainRequests, SentProperties DEF OpenPanel, TypeOK
    <2>. QED  BY <1>5, <2>1, FewerMessages DEF OpenPanel, torrents, history, Concerned
<1>6. CASE Redeem
    <2>1. \A t : Contains(toDaemon', Intention(t)) => Contains(toDaemon, Intention(t))
        BY <1>6, PlainRequests, SentProperties DEF Redeem, TypeOK
    <2>. QED  BY <1>6, <2>1, FewerMessages DEF Redeem, torrents, history, Concerned
<1>7. CASE ClosePanel
    BY <1>7, FewerMessages DEF ClosePanel, PanelClosed, link, history, Concerned
<1>8. CASE Logout
    <2>1. \A t : Contains(toDaemon', Intention(t)) => Contains(toDaemon, Intention(t))
        BY <1>8, PlainRequests, SentProperties DEF Logout, TypeOK
    <2>. QED  BY <1>8, <2>1, FewerMessages DEF Logout, PanelClosed, history, Concerned
<1>. QED  BY <1>1, <1>2, <1>3, <1>4, <1>5, <1>6, <1>7, <1>8 DEF UserStep

LEMMA TorrentStepAnswers ==
    ASSUME TypeOK, Answered, TorrentStep
    PROVE  AnswersFindTheirTorrent'
<1>. USE DEF Answered
<1>1. ASSUME NEW t \in Torrent, NEW hasSeedStatus \in BOOLEAN, NEW addPaused \in BOOLEAN,
             AddTorrent(t, hasSeedStatus, addPaused)
      PROVE  AnswersFindTheirTorrent'
    <2>1. <<Intention(t)>> \in Seq(Request)
        BY DEF Intention, Request
    <2>2. \A u : Contains(<<Intention(t)>>, Intention(u)) => u = t
        BY DEF Contains, Intention
    <2>3. \A u : Contains(toDaemon', Intention(u)) => Contains(toDaemon, Intention(u)) \/ u = t
        BY <1>1, <2>1, <2>2, SentProperties DEF AddTorrent, TypeOK
    <2>4. toApp' = toApp /\ loaded' = loaded \cup {t} /\ orphaned' = orphaned
        BY <1>1 DEF AddTorrent, history
    <2>. QED  BY <2>3, <2>4 DEF AnswersFindTheirTorrent, Concerned
<1>2. ASSUME NEW t \in Torrent, DeleteTorrent(t)  PROVE AnswersFindTheirTorrent'
    <2>1. /\ toDaemon' = toDaemon /\ toApp' = toApp
          /\ loaded' = loaded \ {t} /\ orphaned \subseteq orphaned'
          /\ Concerned(t) => t \in orphaned'
        BY <1>2 DEF DeleteTorrent, Forgotten, link
    <2>. QED  BY <2>1 DEF AnswersFindTheirTorrent, Concerned
<1>3. ASSUME NEW t \in Torrent, ResumeTorrent(t) \/ PauseTorrent(t) \/ CompletenessChanges(t)
      PROVE  AnswersFindTheirTorrent'
    BY <1>3, FewerMessages DEF ResumeTorrent, PauseTorrent, CompletenessChanges, link, history,
                               Concerned
<1>. QED  BY <1>1, <1>2, <1>3 DEF TorrentStep

LEMMA MessageStepAnswers ==
    ASSUME TypeOK, Answered, MessageStep
    PROVE  AnswersFindTheirTorrent'
<1>. USE DEF Answered
<1>1. ASSUME NEW kind, Receives(kind), UNCHANGED <<toDaemon, loaded, orphaned>>
      PROVE  AnswersFindTheirTorrent'
    <2>1. \A x : Contains(toApp', x) => Contains(toApp, x)
        BY <1>1, ReceivesType DEF TypeOK
    <2>. QED  BY <1>1, <2>1, FewerMessages DEF Concerned
<1>2. HandlePayment => AnswersFindTheirTorrent'
    BY <1>1 DEF HandlePayment, torrents
<1>3. HandleIntention => AnswersFindTheirTorrent'
    BY <1>1 DEF HandleIntention, history
<1>4. HandleWallet => AnswersFindTheirTorrent'
    BY <1>1 DEF HandleWallet, torrents
<1>5. HandleAuthentication => AnswersFindTheirTorrent'
    BY <1>1 DEF HandleAuthentication, torrents, history
<1>6. HandleAuthFailed => AnswersFindTheirTorrent'
    BY <1>1 DEF HandleAuthFailed, torrents, history
<1>7. NullTorrent => AnswersFindTheirTorrent'
    BY NothingConcerns DEF NullTorrent, NewRun
<1>. QED  BY <1>2, <1>3, <1>4, <1>5, <1>6, <1>7 DEF MessageStep

LEMMA DaemonStepAnswers ==
    ASSUME TypeOK, Answered, DaemonStep
    PROVE  AnswersFindTheirTorrent'
<1>. USE DEF Answered
<1>0. toApp \in Seq(Notification) /\ toDaemon \in Seq(Request)
    BY DEF TypeOK
<1>1. ASSUME UNCHANGED <<loaded, orphaned>>,
             \A x : Contains(toDaemon', x) => Contains(toDaemon, x),
             NEW m \in Notification, \A t, ok : m # Declared(t, ok),
             toApp' = Notified(m) \/ toApp' = toApp
      PROVE  AnswersFindTheirTorrent'
    <2>1. \A x : Contains(toApp', x) => Contains(toApp, x) \/ x = m
        BY <1>0, <1>1, NotifiedProperties
    <2>. QED  BY <1>1, <2>1, FewerMessages DEF Concerned
<1>2. CASE DaemonAuthenticates
    <2>1. Plain("Authenticated") \in Notification /\ Plain("AuthenticationFailed") \in Notification
        BY DEF Plain, Notification
    <2>2. \A x : Contains(toDaemon', x) => Contains(toDaemon, x)
        BY <1>0, <1>2, DaemonReadsType DEF DaemonAuthenticates
    <2>3. UNCHANGED <<loaded, orphaned>>
        BY <1>2 DEF DaemonAuthenticates, torrents, history
    <2>4. CASE toApp' = Notified(Plain("Authenticated"))
        BY <1>1, <2>1, <2>2, <2>3, <2>4, PlainNotifications
    <2>5. CASE toApp' = Notified(Plain("AuthenticationFailed"))
        BY <1>1, <2>1, <2>2, <2>3, <2>5, PlainNotifications
    <2>. QED  BY <1>2, <2>4, <2>5 DEF DaemonAuthenticates
<1>3. CASE DaemonLogsOut
    <2>1. \A x : Contains(toDaemon', x) => Contains(toDaemon, x)
        BY <1>0, <1>3, DaemonReadsType DEF DaemonLogsOut
    <2>. QED  BY <1>3, <2>1, FewerMessages DEF DaemonLogsOut, torrents, history, Concerned
<1>4. CASE DaemonDeclares
    <2>1. /\ \A x : Contains(toDaemon', x) => Contains(toDaemon, x)
          /\ Head(toDaemon) \in Request
          /\ Head(toDaemon).type = "DownloadIntention"
          /\ Contains(toDaemon, Head(toDaemon))
        BY <1>0, <1>4, DaemonReadsType DEF DaemonDeclares
    <2>2. PICK u \in Torrent : Head(toDaemon) = Intention(u)
        BY <2>1 DEF Request, Intention
    <2>3. Concerned(u) /\ Head(toDaemon).torrent = u
        BY <2>1, <2>2 DEF Concerned, Intention
    <2>4. PICK ok \in BOOLEAN : toApp' = Notified(Declared(u, ok))
        BY <1>4, <2>3 DEF DaemonDeclares
    <2>5. Declared(u, ok) \in Notification
        BY DEF Declared, Notification
    <2>6. \A x : Contains(toApp', x) => Contains(toApp, x) \/ x = Declared(u, ok)
        BY <1>0, <2>4, <2>5, NotifiedProperties
    <2>7. \A t, b : Declared(t, b) = Declared(u, ok) => t = u
        BY DEF Declared
    <2>. QED  BY <1>4, <2>1, <2>3, <2>6, <2>7, FewerMessages
              DEF DaemonDeclares, torrents, history, Concerned
<1>5. CASE DaemonTellsWallet
    <2>1. Wallet(daemonCoins) \in Notification
        BY DEF Wallet, Notification, TypeOK
    <2>2. \A x : Contains(toDaemon', x) => Contains(toDaemon, x)
        BY <1>0, <1>5, DaemonReadsType DEF DaemonTellsWallet
    <2>. QED  BY <1>1, <1>5, <2>1, <2>2, PlainNotifications
              DEF DaemonTellsWallet, torrents, history
<1>6. CASE DaemonRedeems
    <2>1. Wallet(0) \in Notification
        BY DEF Wallet, Notification
    <2>2. \A x : Contains(toDaemon', x) => Contains(toDaemon, x)
        BY <1>0, <1>6, DaemonReadsType DEF DaemonRedeems
    <2>. QED  BY <1>1, <1>6, <2>1, <2>2, PlainNotifications DEF DaemonRedeems, torrents, history
<1>7. ASSUME NEW p \in Peer, NEW n \in 1..MaxBlocks, DaemonPaid(p, n)
      PROVE  AnswersFindTheirTorrent'
    <2>1. n \in Nat /\ daemonPaid[p] \in Nat
        BY PayfluxoAssumption DEF PayfluxoAssumption, TypeOK
    <2>2. Payment(p, daemonPaid[p] + n) \in Notification
        BY <2>1 DEF Payment, Notification
    <2>. QED  BY <1>1, <1>7, <2>2, PlainNotifications DEF DaemonPaid, torrents, history
<1>8. CASE DaemonDies
    <2>1. \A x : Contains(toApp', x) => Contains(toApp, x)
        BY <1>0, <1>8, InPrefix DEF DaemonDies
    <2>2. \A x : ~Contains(toDaemon', x)
        BY <1>8, EmptySeq DEF DaemonDies, Contains
    <2>. QED  BY <1>8, <2>1, <2>2, FewerMessages DEF DaemonDies, torrents, Concerned
<1>9. CASE DaemonStarts
    BY <1>9, FewerMessages DEF DaemonStarts, link, torrents, history, Concerned
<1>. QED  BY <1>2, <1>3, <1>4, <1>5, <1>6, <1>7, <1>8, <1>9 DEF DaemonStep

LEMMA AnswersStep ==
    ASSUME TypeOK, Answered, [Next]_vars
    PROVE  AnswersFindTheirTorrent'
<1>. USE DEF Answered
<1>1. CASE PeerStep
    BY <1>1, FewerMessages
       DEF PeerStep, BlockUploaded, IncomingRequest, UserBans, UserUnbans, link, torrents,
           history, Concerned
<1>2. CASE LinkStep
    BY <1>2, FewerMessages DEF LinkStep, Connected, SocketError, Closed, torrents, history,
                               Concerned
<1>3. CASE Restart
    BY <1>3, NothingConcerns DEF Restart, NewRun
<1>4. CASE UNCHANGED vars
    BY <1>4, FewerMessages DEF vars, link, torrents, history, Concerned
<1>. QED  BY <1>1, <1>2, <1>3, <1>4, UserStepAnswers, TorrentStepAnswers, MessageStepAnswers,
             DaemonStepAnswers DEF Next

\* An answer of the daemon finds its torrent unless that was deleted while the
\* declaration, the answer or the dialog that would declare it was pending.
THEOREM AnswersFind == Spec => []AnswersFindTheirTorrent
<1>1. Init => AnswersFindTheirTorrent
    BY EmptySeq DEF Init, AnswersFindTheirTorrent, Concerned, Contains
<1>2. TypeOK /\ ChoicesKnown /\ AnswersFindTheirTorrent /\ [Next]_vars
          => AnswersFindTheirTorrent'
    BY AnswersStep DEF Answered
<1>. QED  BY <1>1, <1>2, Typing, PTL DEF Spec

-----------------------------------------------------------------------------
(* Paid torrents run only for those who are logged in *)

\* The dialog that makes torrents paid is opened by a login, and nobody logs out
\* while a dialog is open; the login dialog is opened while nobody is logged in.
ChosenByUser ==
    /\ dialog = "choice" => authenticated
    /\ dialog = "auth" => ~authBefore

LEMMA AuthDialogCloses ==
    ASSUME TypeOK, ChosenByUser, dialog = "auth", NEW ms, AuthDialogClosed(ms)
    PROVE  /\ dialog' = "choice" => authenticated
           /\ dialog' # "auth"
BY DEF TypeOK, ChosenByUser, AuthDialogClosed

LEMMA ChosenByUserStep ==
    ASSUME TypeOK, ChosenByUser, [Next]_vars
    PROVE  ChosenByUser'
<1>1. CASE SubmitCredentials \/ CancelAuthDialog
    <2>1. /\ dialog = "auth" /\ authenticated' = authenticated
          /\ \E ms : AuthDialogClosed(ms)
        BY <1>1 DEF SubmitCredentials, CancelAuthDialog, session
    <2>2. (dialog' = "choice" => authenticated) /\ dialog' # "auth"
        BY <2>1, AuthDialogCloses
    <2>. QED  BY <2>1, <2>2 DEF ChosenByUser
<1>2. CASE OpenAuthDialog
    BY <1>2 DEF OpenAuthDialog, session, ChosenByUser
<1>3. CASE (\E S \in SUBSET Torrent : SelectPaid(S)) \/ OpenPanel \/ ClosePanel \/ Logout
    BY <1>3 DEF SelectPaid, OpenPanel, ClosePanel, Logout, PanelClosed, ChosenByUser
<1>4. CASE Redeem \/ UNCHANGED vars
    BY <1>4 DEF Redeem, session, gui, vars, ChosenByUser
<1>5. CASE TorrentStep
    BY <1>5 DEF TorrentStep, AddTorrent, DeleteTorrent, ResumeTorrent, PauseTorrent,
                CompletenessChanges, session, gui, ChosenByUser
<1>6. CASE PeerStep
    BY <1>6 DEF PeerStep, BlockUploaded, IncomingRequest, UserBans, UserUnbans, session, gui,
                ChosenByUser
<1>7. CASE LinkStep \/ DaemonStep
    BY <1>7 DEF LinkStep, Connected, SocketError, Closed, DaemonStep, DaemonAuthenticates,
                DaemonLogsOut, DaemonDeclares, DaemonTellsWallet, DaemonRedeems,
                DaemonPaid, DaemonDies, DaemonStarts, session, gui, ChosenByUser
<1>8. CASE NewRun
    BY <1>8 DEF NewRun, ChosenByUser
<1>9. CASE MessageStep \/ Restart
    <2>1. CASE HandlePayment \/ HandleIntention \/ HandleWallet \/ HandleAuthFailed
        <3>1. UNCHANGED gui /\ authenticated' = authenticated
            BY <2>1 DEF HandlePayment, HandleIntention, HandleWallet, HandleAuthFailed, session
        <3>. QED  BY <3>1 DEF gui, ChosenByUser
    <2>2. CASE HandleAuthentication
        BY <2>2 DEF HandleAuthentication, gui, ChosenByUser
    <2>3. CASE NullTorrent \/ Restart
        BY <1>8, <2>3 DEF NullTorrent, Restart
    <2>. QED  BY <1>9, <2>1, <2>2, <2>3 DEF MessageStep
<1>. QED  BY <1>1, <1>2, <1>3, <1>4, <1>5, <1>6, <1>7, <1>9 DEF Next, UserStep

\* No step makes a paid torrent run while nobody is logged in: none starts one,
\* TorrentImpl::resume being on every way to start it, and none makes one that
\* runs a paid one, the choice being offered after a login only.
THEOREM PaidRunsAreGated == Spec => PaidRunsNeedLogin
<1>. DEFINE Gate == paid' \ stopped' \subseteq paid \ stopped \/ authenticated
<1>1. ASSUME TypeOK, ChosenByUser, [Next]_vars  PROVE [Gate]_vars
    <2>1. CASE \E S \in SUBSET Torrent : SelectPaid(S)
        BY <1>1, <2>1 DEF SelectPaid, ChosenByUser
    <2>2. CASE OpenAuthDialog \/ SubmitCredentials \/ CancelAuthDialog \/ OpenPanel \/ Redeem
        BY <2>2 DEF OpenAuthDialog, SubmitCredentials, CancelAuthDialog, OpenPanel, Redeem, torrents
    <2>3. CASE ClosePanel \/ Logout
        BY <2>3 DEF ClosePanel, Logout, PanelClosed
    <2>4. CASE TorrentStep
        BY <1>1, <2>4 DEF TypeOK, TorrentStep, AddTorrent, DeleteTorrent, Forgotten, ResumeTorrent,
                          Resumed, PauseTorrent, CompletenessChanges
    <2>5. CASE MessageStep
        BY <2>5 DEF MessageStep, HandlePayment, HandleIntention, HandleWallet, Resumed,
                    HandleAuthentication, HandleAuthFailed, NullTorrent, NewRun, torrents
    <2>6. CASE PeerStep \/ LinkStep \/ DaemonStep
        <3>1. stopped' = stopped /\ paid' = paid
            BY <2>6 DEF PeerStep, BlockUploaded, IncomingRequest, UserBans, UserUnbans, LinkStep,
                        Connected, SocketError, Closed, DaemonStep, DaemonAuthenticates,
                        DaemonLogsOut, DaemonDeclares, DaemonTellsWallet, DaemonRedeems,
                        DaemonPaid, DaemonDies, DaemonStarts, torrents
        <3>. QED  BY <3>1
    <2>7. CASE Restart
        BY <2>7 DEF Restart, NewRun
    <2>. QED  BY <1>1, <2>1, <2>2, <2>3, <2>4, <2>5, <2>6, <2>7 DEF Next, UserStep
<1>2. Init => ChosenByUser
    BY DEF Init, ChosenByUser
<1>3. TypeOK /\ ChosenByUser /\ [Next]_vars => ChosenByUser'
    BY ChosenByUserStep
<1>. QED  BY <1>1, <1>2, <1>3, Typing, PTL DEF Spec, PaidRunsNeedLogin

-----------------------------------------------------------------------------
(* What the application will believe of the wallet *)

LEMMA ReadingType ==
    ASSUME NEW c \in Nat, NEW m \in Notification
    PROVE  Reading(c, m) \in Nat
<1>1. m.type = "Wallet" => m.coins \in Nat
    BY DEF Notification
<1>. QED  BY <1>1 DEF Reading

\* g[n] are the coins after n messages of ms.
Runs(g, c, ms) ==
    /\ g \in [0..Len(ms) -> Nat]
    /\ g[0] = c
    /\ \A n \in 1..Len(ms) : g[n] = Reading(g[n - 1], ms[n])

LEMMA HeardRuns ==
    ASSUME NEW c \in Nat, NEW ms \in Seq(Notification)
    PROVE  \E g : Runs(g, c, ms) /\ Heard(c, ms) = g[Len(ms)]
<1>. DEFINE N == Len(ms)
            Body(f) == [n \in 0..N |-> IF n = 0 THEN c ELSE Reading(f[n - 1], ms[n])]
            f == CHOOSE g : g = Body(g)
            step == [n \in 1..N |-> [x \in Nat |-> Reading(x, ms[n])]]
<1>1. N \in Nat /\ \A n \in 1..N : ms[n] \in Notification
    BY LenProperties, ElementOfSeq
<1>2. Heard(c, ms) = f[N]
    BY DEF Heard
<1>. HIDE DEF N
<1>3. step \in [1..N -> [Nat -> Nat]]
    BY <1>1, ReadingType
<1>4. PICK g \in [0..N -> Nat] : Iterates(g, N, c, step)
    <2>. HIDE DEF step
    <2>. QED  BY <1>1, <1>3, Iterated
<1>5. \A n \in 1..N : n - 1 \in 0..N /\ n \in 0..N /\ n # 0
    BY <1>1
<1>6. ASSUME NEW n \in 1..N  PROVE g[n] = Reading(g[n - 1], ms[n])
    <2>1. g[n - 1] \in Nat
        BY <1>4, <1>5
    <2>2. g[n] = step[n][g[n - 1]]
        BY <1>4 DEF Iterates
    <2>. QED  BY <2>1, <2>2
<1>7. g = Body(g)
    BY <1>1, <1>4, <1>6 DEF Iterates
<1>. HIDE DEF f
<1>8. f = Body(f)
    BY <1>7 DEF f
<1>9. f \in [0..N -> Nat] /\ f[0] = c /\ \A n \in 1..N : f[n] = Reading(f[n - 1], ms[n])
    <2>1. 0 \in 0..N
        BY <1>1
    <2>2. f[0] = c
        BY <1>8, <2>1
    <2>3. ASSUME NEW n \in 1..N  PROVE f[n] = Reading(f[n - 1], ms[n])
        <3>1. Body(f)[n] = Reading(f[n - 1], ms[n])
            BY <1>5
        <3>. HIDE DEF Body
        <3>. QED  BY <1>8, <3>1
    <2>4. \A n \in 0..N : f[n] \in Nat
        <3>. DEFINE P == {n \in 0..N : f[n] \in Nat}
        <3>1. 0 \in P
            BY <2>1, <2>2
        <3>2. ASSUME NEW n \in 1..N, n - 1 \in P  PROVE n \in P
            <4>1. Reading(f[n - 1], ms[n]) \in Nat
                BY <1>1, <3>2, ReadingType
            <4>. QED  BY <1>5, <2>3, <4>1
        <3>. HIDE DEF P
        <3>3. \A n \in 0..N : n \in P
            BY <1>1, <3>1, <3>2, UpTo
        <3>. QED  BY <3>3 DEF P
    <2>5. DOMAIN f = 0..N
        <3>1. DOMAIN Body(f) = 0..N
            OBVIOUS
        <3>. HIDE DEF Body
        <3>. QED  BY <1>8, <3>1
    <2>6. f = [n \in DOMAIN f |-> f[n]]
        <3>1. Body(f) = [n \in DOMAIN Body(f) |-> Body(f)[n]]
            OBVIOUS
        <3>. HIDE DEF Body
        <3>. QED  BY <1>8, <3>1
    <2>. HIDE DEF Body
    <2>7. f \in [0..N -> Nat]
        BY <2>4, <2>5, <2>6
    <2>. QED  BY <2>2, <2>3, <2>7
<1>. QED  BY <1>2, <1>9 DEF Runs, N

\* Induction from the k-th message on, for the set P of those after which
\* something holds
LEMMA FromOn ==
    ASSUME NEW N \in Nat, NEW k \in 0..N, NEW P, k \in P,
           \A n \in 1..N : n > k /\ n - 1 \in P => n \in P
    PROVE  \A n \in k..N : n \in P
<1>. DEFINE Q == {n \in 0..N : n >= k => n \in P}
<1>1. 0 \in Q
    BY DEF Q
<1>2. ASSUME NEW n \in 1..N, n - 1 \in Q  PROVE n \in Q
    <2>1. CASE n > k
        BY <1>2, <2>1
    <2>2. CASE n = k
        BY <2>2
    <2>3. CASE n < k
        BY <2>3
    <2>. QED  BY <2>1, <2>2, <2>3
<1>. HIDE DEF Q
<1>3. \A n \in 0..N : n \in Q
    BY <1>1, <1>2, UpTo
<1>. QED  BY <1>3 DEF Q

\* The last message comes last.
LEMMA HeardAppend ==
    ASSUME NEW c \in Nat, NEW ms \in Seq(Notification), NEW m \in Notification
    PROVE  Heard(c, Append(ms, m)) = Reading(Heard(c, ms), m)
<1>. DEFINE ns == Append(ms, m)
            N == Len(ms)
<1>1. /\ ns \in Seq(Notification) /\ N \in Nat
      /\ Len(ns) = N + 1
      /\ \A i \in 1..N : ns[i] = ms[i]
      /\ ns[N + 1] = m
    BY AppendIn, AppendProperties
<1>2. PICK g : Runs(g, c, ms) /\ Heard(c, ms) = g[N]
    BY HeardRuns
<1>3. PICK h : Runs(h, c, ns) /\ Heard(c, ns) = h[N + 1]
    <2>. HIDE DEF ns
    <2>1. PICK h : Runs(h, c, ns) /\ Heard(c, ns) = h[Len(ns)]
        BY <1>1, HeardRuns
    <2>. QED  BY <1>1, <2>1
<1>. HIDE DEF ns, N
<1>4. \A n \in 1..N : g[n] = Reading(g[n - 1], ms[n])
    BY <1>2 DEF Runs, N
<1>5. \A n \in 1..N + 1 : h[n] = Reading(h[n - 1], ns[n])
    BY <1>1, <1>3 DEF Runs
<1>6. g[0] = h[0]
    BY <1>2, <1>3 DEF Runs
<1>7. ASSUME NEW n \in 1..N, g[n - 1] = h[n - 1]  PROVE g[n] = h[n]
    <2>1. n \in 1..N + 1
        BY <1>1
    <2>. QED  BY <1>1, <1>4, <1>5, <1>7, <2>1
<1>8. \A n \in 0..N : g[n] = h[n]
    <2>. DEFINE P == {n \in 0..N : g[n] = h[n]}
    <2>1. 0 \in P
        BY <1>1, <1>6
    <2>2. ASSUME NEW n \in 1..N, n - 1 \in P  PROVE n \in P
        BY <1>1, <1>7, <2>2
    <2>. HIDE DEF P
    <2>3. \A n \in 0..N : n \in P
        BY <1>1, <2>1, <2>2, UpTo
    <2>. QED  BY <2>3 DEF P
<1>9. N \in 0..N /\ N + 1 \in 1..N + 1 /\ N + 1 - 1 = N
    BY <1>1
<1>10. h[N + 1] = Reading(h[N], ns[N + 1])
    BY <1>5, <1>9
<1>11. Heard(c, ns) = Reading(Heard(c, ms), m)
    BY <1>1, <1>2, <1>3, <1>8, <1>9, <1>10
<1>. QED  BY <1>11 DEF ns

\* The first comes first.
LEMMA HeardTail ==
    ASSUME NEW c \in Nat, NEW ms \in Seq(Notification), ms # <<>>
    PROVE  Heard(c, ms) = Heard(Reading(c, Head(ms)), Tail(ms))
<1>. DEFINE ns == Tail(ms)
            N == Len(ms)
            d == Reading(c, Head(ms))
<1>1. /\ ns \in Seq(Notification) /\ N \in Nat \ {0}
      /\ Len(ns) = N - 1
      /\ \A i \in 1..N - 1 : ns[i] = ms[i + 1]
      /\ Head(ms) = ms[1] /\ Head(ms) \in Notification
    BY TailIn
<1>2. d \in Nat
    BY <1>1, ReadingType
<1>3. PICK g : Runs(g, c, ms) /\ Heard(c, ms) = g[N]
    BY HeardRuns
<1>. HIDE DEF ns, N, d
<1>4. PICK h : Runs(h, d, ns) /\ Heard(d, ns) = h[Len(ns)]
    BY <1>1, <1>2, HeardRuns
<1>5. \A n \in 1..N : g[n] = Reading(g[n - 1], ms[n])
    BY <1>3 DEF Runs, N
<1>6. \A n \in 1..N - 1 : h[n] = Reading(h[n - 1], ns[n])
    BY <1>1, <1>4 DEF Runs
<1>7. g[1] = h[0]
    <2>1. g[1] = Reading(g[0], ms[1])
        <3>1. 1 \in 1..N /\ 1 - 1 = 0
            BY <1>1
        <3>. QED  BY <1>5, <3>1
    <2>. QED  BY <1>1, <1>3, <1>4, <2>1 DEF Runs, d
<1>. DEFINE u == [n \in 0..N - 1 |-> g[n + 1]]
<1>8. \A n \in 0..N - 1 : u[n] = g[n + 1]
    OBVIOUS
<1>. HIDE DEF u
<1>9. u[0] = h[0]
    <2>1. 0 \in 0..N - 1 /\ 0 + 1 = 1
        BY <1>1
    <2>. QED  BY <1>7, <1>8, <2>1
<1>10. ASSUME NEW n \in 1..N - 1, u[n - 1] = h[n - 1]  PROVE u[n] = h[n]
    <2>1. /\ n \in 0..N - 1 /\ n - 1 \in 0..N - 1 /\ n - 1 + 1 = n
          /\ n + 1 \in 1..N /\ n + 1 - 1 = n
        BY <1>1
    <2>2. u[n] = g[n + 1] /\ u[n - 1] = g[n]
        BY <1>8, <2>1
    <2>3. g[n + 1] = Reading(g[n], ms[n + 1])
        BY <1>5, <2>1
    <2>. QED  BY <1>1, <1>6, <1>10, <2>2, <2>3
<1>11. \A n \in 0..N - 1 : u[n] = h[n]
    <2>. DEFINE P == {n \in 0..N - 1 : u[n] = h[n]}
    <2>1. N - 1 \in Nat /\ 0 \in P
        BY <1>1, <1>9
    <2>2. ASSUME NEW n \in 1..N - 1, n - 1 \in P  PROVE n \in P
        BY <1>1, <1>10, <2>2
    <2>. HIDE DEF P
    <2>3. \A n \in 0..N - 1 : n \in P
        BY <2>1, <2>2, UpTo
    <2>. QED  BY <2>3 DEF P
<1>12. N - 1 \in 0..N - 1 /\ N - 1 + 1 = N
    BY <1>1
<1>13. g[N] = h[Len(ns)]
    BY <1>1, <1>8, <1>11, <1>12
<1>. QED  BY <1>3, <1>4, <1>13 DEF ns, d

\* Once a wallet is told, what was believed before it does not matter.
LEMMA HeardWallet ==
    ASSUME NEW c \in Nat, NEW d \in Nat, NEW ms \in Seq(Notification),
           NEW k \in DOMAIN ms, ms[k].type = "Wallet"
    PROVE  Heard(c, ms) = Heard(d, ms)
<1>. DEFINE N == Len(ms)
<1>1. N \in Nat /\ k \in 1..N /\ k \in 0..N /\ N \in k..N
    BY LenProperties
<1>2. PICK g : Runs(g, c, ms) /\ Heard(c, ms) = g[N]
    BY HeardRuns
<1>3. PICK h : Runs(h, d, ms) /\ Heard(d, ms) = h[N]
    BY HeardRuns
<1>4. /\ \A n \in 1..N : g[n] = Reading(g[n - 1], ms[n])
      /\ \A n \in 1..N : h[n] = Reading(h[n - 1], ms[n])
    BY <1>2, <1>3 DEF Runs
<1>. HIDE DEF N
<1>5. g[k] = ms[k].coins /\ h[k] = ms[k].coins
    BY <1>1, <1>4 DEF Reading
<1>. DEFINE P == {n \in 0..N : g[n] = h[n]}
<1>6. k \in P
    BY <1>1, <1>5
<1>7. ASSUME NEW n \in 1..N, n - 1 \in P  PROVE n \in P
    BY <1>1, <1>4, <1>7
<1>. HIDE DEF P
<1>8. \A n \in k..N : n \in P
    BY <1>1, <1>6, <1>7, FromOn
<1>. QED  BY <1>1, <1>2, <1>3, <1>8 DEF P

LEMMA HeardType ==
    ASSUME NEW c \in Nat, NEW ms \in Seq(Notification)
    PROVE  Heard(c, ms) \in Nat
<1>1. PICK g : Runs(g, c, ms) /\ Heard(c, ms) = g[Len(ms)]
    BY HeardRuns
<1>2. Len(ms) \in 0..Len(ms)
    BY LenProperties
<1>. QED  BY <1>1, <1>2 DEF Runs

\* Before the first connection nothing was received.
Unconnected == handlers = 0 => ~walletKnown /\ toApp = <<>> /\ socket = "connecting"

WalletInv == WalletSettles /\ Unconnected

\* One message is read, and what is believed changes as the message says.
LEMMA ReadSettles ==
    ASSUME TypeOK, WalletInv, NEW kind, Receives(kind),
           UNCHANGED <<socket, handlers, daemonUp, daemonCoins>>,
           handlers = 1 => redeemable' = Reading(redeemable, Head(toApp)),
           walletKnown' => walletKnown \/ kind = "Wallet"
    PROVE  WalletInv'
<1>1. /\ toApp \in Seq(Notification) /\ toApp # <<>> /\ redeemable \in Nat
      /\ toApp' = Tail(toApp) /\ Head(toApp).type = kind /\ socket = "open"
    BY DEF TypeOK, Receives
<1>2. /\ DOMAIN toApp = 1..Len(toApp) /\ Len(toApp) \in Nat \ {0}
      /\ DOMAIN toApp' = 1..Len(toApp) - 1
      /\ \A i \in DOMAIN toApp' : toApp'[i] = toApp[i + 1]
      /\ Head(toApp) = toApp[1]
    BY <1>1, TailIn
<1>3. handlers # 0 /\ Unconnected'
    BY <1>1 DEF WalletInv, Unconnected
<1>4. ASSUME Linked', handlers' = 1, walletKnown' \/ WalletComes'
      PROVE  Heard(redeemable', toApp') = daemonCoins'
    <2>1. Linked /\ handlers = 1
        BY <1>4 DEF Linked
    <2>2. walletKnown \/ WalletComes
        <3>1. CASE walletKnown' /\ kind # "Wallet"
            BY <3>1
        <3>2. CASE kind = "Wallet"
            <4>1. 1 \in DOMAIN toApp /\ toApp[1].type = "Wallet"
                BY <1>1, <1>2, <3>2
            <4>. QED  BY <4>1 DEF WalletComes
        <3>3. CASE WalletComes'
            <4>1. PICK i \in DOMAIN toApp' : toApp'[i].type = "Wallet"
                BY <3>3 DEF WalletComes
            <4>2. i + 1 \in DOMAIN toApp /\ toApp[i + 1].type = "Wallet"
                BY <1>2, <4>1
            <4>. QED  BY <4>2 DEF WalletComes
        <3>. QED  BY <1>4, <3>1, <3>2, <3>3
    <2>3. Heard(redeemable, toApp) = daemonCoins
        BY <2>1, <2>2 DEF WalletInv, WalletSettles
    <2>4. Heard(redeemable, toApp) = Heard(Reading(redeemable, Head(toApp)), Tail(toApp))
        BY <1>1, HeardTail
    <2>. QED  BY <1>1, <2>1, <2>3, <2>4
<1>. QED  BY <1>3, <1>4 DEF WalletInv, WalletSettles

\* One message is written, and what the daemon holds changes as it says.
LEMMA ToldSettles ==
    ASSUME TypeOK, WalletInv, NEW m \in Notification, toApp' = Notified(m),
           UNCHANGED <<socket, handlers, daemonUp, redeemable, walletKnown>>,
           Linked => daemonCoins' = Reading(daemonCoins, m)
    PROVE  WalletInv'
<1>1. toApp \in Seq(Notification) /\ redeemable \in Nat
    BY DEF TypeOK
<1>2. CASE ~Linked
    <2>1. ~Linked' /\ toApp' = toApp
        BY <1>2 DEF Linked, Notified
    <2>. QED  BY <2>1 DEF WalletInv, WalletSettles, Unconnected
<1>3. CASE Linked
    <2>1. toApp' = Append(toApp, m) /\ handlers # 0 /\ Unconnected'
        BY <1>3 DEF Linked, Notified, WalletInv, Unconnected
    <2>2. /\ DOMAIN toApp = 1..Len(toApp) /\ Len(toApp) \in Nat
          /\ DOMAIN toApp' = 1..Len(toApp) + 1
          /\ \A i \in 1..Len(toApp) : toApp'[i] = toApp[i]
          /\ toApp'[Len(toApp) + 1] = m
        BY <1>1, <2>1, AppendIn
    <2>3. Heard(redeemable, toApp') = Reading(Heard(redeemable, toApp), m)
        BY <1>1, <2>1, HeardAppend
    <2>4. ASSUME handlers = 1, walletKnown \/ WalletComes'
          PROVE  Heard(redeemable, toApp') = daemonCoins'
        <3>1. CASE m.type = "Wallet"
            BY <1>3, <2>3, <3>1 DEF Reading
        <3>2. CASE m.type # "Wallet"
            <4>1. walletKnown \/ WalletComes
                <5>1. CASE WalletComes'
                    <6>1. PICK i \in DOMAIN toApp' : toApp'[i].type = "Wallet"
                        BY <5>1 DEF WalletComes
                    <6>2. i # Len(toApp) + 1
                        BY <2>2, <3>2, <6>1
                    <6>3. i \in DOMAIN toApp /\ toApp[i].type = "Wallet"
                        BY <2>2, <6>1, <6>2
                    <6>. QED  BY <6>3 DEF WalletComes
                <5>. QED  BY <2>4, <5>1
            <4>2. Heard(redeemable, toApp) = daemonCoins
                BY <1>3, <2>4, <4>1 DEF WalletInv, WalletSettles
            <4>. QED  BY <1>3, <2>3, <4>2
        <3>. QED  BY <3>1, <3>2
    <2>. QED  BY <2>1, <2>4 DEF WalletInv, WalletSettles
<1>. QED  BY <1>2, <1>3

wallet == <<redeemable, walletKnown, socket, handlers, toApp, daemonUp, daemonCoins>>

LEMMA UserStepSettles ==
    ASSUME TypeOK, WalletInv, UserStep
    PROVE  WalletInv'
<1>1. CASE SubmitCredentials
    <2>1. /\ redeemable' = 0 /\ ~walletKnown'
          /\ UNCHANGED <<socket, handlers, toApp, daemonUp, daemonCoins>>
        BY <1>1 DEF SubmitCredentials, daemon
    <2>2. redeemable \in Nat /\ toApp \in Seq(Notification) /\ 0 \in Nat
        BY DEF TypeOK
    <2>3. ASSUME Linked, handlers = 1, WalletComes  PROVE Heard(0, toApp) = daemonCoins
        <3>1. PICK k \in DOMAIN toApp : toApp[k].type = "Wallet"
            BY <2>3 DEF WalletComes
        <3>2. Heard(0, toApp) = Heard(redeemable, toApp)
            BY <2>2, <3>1, HeardWallet
        <3>. QED  BY <2>3, <3>2 DEF WalletInv, WalletSettles
    <2>. QED  BY <2>1, <2>3 DEF WalletInv, WalletSettles, WalletComes, Linked, Unconnected
<1>2. CASE ~SubmitCredentials
    <2>1. UNCHANGED wallet
        BY <1>2 DEF UserStep, OpenAuthDialog, CancelAuthDialog, SelectPaid, OpenPanel, Redeem,
                    ClosePanel, Logout, PanelClosed, wallet, session, link, torrents, gui, daemon,
                    history
    <2>. QED  BY <2>1 DEF wallet, WalletInv, WalletSettles, WalletComes, Linked, Unconnected
<1>. QED  BY <1>1, <1>2

LEMMA MessageStepSettles ==
    ASSUME TypeOK, WalletInv, MessageStep
    PROVE  WalletInv'
<1>1. CASE HandlePayment
    <2>1. /\ Receives("Payment") /\ redeemable' = redeemable + handlers
          /\ UNCHANGED <<socket, handlers, daemonUp, daemonCoins, walletKnown>>
        BY <1>1 DEF HandlePayment, Credited, daemon
    <2>2. handlers = 1 => redeemable' = Reading(redeemable, Head(toApp))
        BY <2>1 DEF Receives, Reading
    <2>. QED  BY <2>1, <2>2, ReadSettles
<1>2. CASE HandleIntention
    <2>1. /\ Receives("IntentionDeclared") /\ redeemable' = redeemable
          /\ UNCHANGED <<socket, handlers, daemonUp, daemonCoins, walletKnown>>
        BY <1>2 DEF HandleIntention, session, daemon, history
    <2>2. handlers = 1 => redeemable' = Reading(redeemable, Head(toApp))
        BY <2>1 DEF Receives, Reading
    <2>. QED  BY <2>1, <2>2, ReadSettles
<1>3. CASE HandleWallet
    <2>1. /\ Receives("Wallet") /\ redeemable' = Head(toApp).coins
          /\ UNCHANGED <<socket, handlers, daemonUp, daemonCoins>>
        BY <1>3 DEF HandleWallet, daemon
    <2>2. handlers = 1 => redeemable' = Reading(redeemable, Head(toApp))
        BY <2>1 DEF Receives, Reading
    <2>. QED  BY <2>1, <2>2, ReadSettles
<1>4. CASE HandleAuthentication
    <2>1. /\ Receives("Authenticated") /\ redeemable' = redeemable
          /\ UNCHANGED <<socket, handlers, daemonUp, daemonCoins, walletKnown>>
        BY <1>4 DEF HandleAuthentication, daemon, history
    <2>2. handlers = 1 => redeemable' = Reading(redeemable, Head(toApp))
        BY <2>1 DEF Receives, Reading
    <2>. QED  BY <2>1, <2>2, ReadSettles
<1>5. CASE HandleAuthFailed
    <2>1. /\ Receives("AuthenticationFailed") /\ redeemable' = redeemable
          /\ UNCHANGED <<socket, handlers, daemonUp, daemonCoins, walletKnown>>
        BY <1>5 DEF HandleAuthFailed, session, daemon, history
    <2>2. handlers = 1 => redeemable' = Reading(redeemable, Head(toApp))
        BY <2>1 DEF Receives, Reading
    <2>. QED  BY <2>1, <2>2, ReadSettles
<1>6. CASE NullTorrent
    BY <1>6 DEF NullTorrent, NewRun, WalletInv, WalletSettles, Linked, Unconnected
<1>. QED  BY <1>1, <1>2, <1>3, <1>4, <1>5, <1>6 DEF MessageStep

LEMMA LinkStepSettles ==
    ASSUME TypeOK, WalletInv, LinkStep
    PROVE  WalletInv'
<1>1. CASE Connected
    <2>1. handlers' = handlers + 1 /\ UNCHANGED <<toApp, walletKnown>> /\ handlers \in Nat
        BY <1>1 DEF Connected, history, TypeOK
    <2>2. handlers' # 0 /\ (handlers' = 1 => handlers = 0)
        BY <2>1
    <2>3. handlers' = 1 => ~walletKnown' /\ ~WalletComes'
        BY <2>1, <2>2 DEF WalletInv, Unconnected, WalletComes
    <2>. QED  BY <2>2, <2>3 DEF WalletInv, WalletSettles, Unconnected
<1>2. CASE SocketError \/ Closed
    <2>1. socket = "open" /\ socket' # "open" /\ UNCHANGED handlers
        BY <1>2 DEF SocketError, Closed
    <2>. QED  BY <2>1 DEF WalletInv, WalletSettles, Linked, Unconnected
<1>. QED  BY <1>1, <1>2 DEF LinkStep

LEMMA DaemonStepSettles ==
    ASSUME TypeOK, WalletInv, DaemonStep
    PROVE  WalletInv'
<1>0. daemonCoins \in Nat
    BY DEF TypeOK
<1>1. CASE DaemonAuthenticates
    <2>1. PICK k \in {"Authenticated", "AuthenticationFailed"} : toApp' = Notified(Plain(k))
        BY <1>1 DEF DaemonAuthenticates
    <2>2. Plain(k) \in Notification /\ Reading(daemonCoins, Plain(k)) = daemonCoins
        BY DEF Plain, Notification, Reading
    <2>3. UNCHANGED <<socket, handlers, daemonUp, redeemable, walletKnown, daemonCoins>>
        BY <1>1 DEF DaemonAuthenticates, session, history
    <2>. QED  BY <2>1, <2>2, <2>3, ToldSettles
<1>2. CASE DaemonDeclares
    <2>1. Head(toDaemon).torrent \in Torrent
        <3>1. Head(toDaemon) \in Request /\ Head(toDaemon).type = "DownloadIntention"
            BY <1>2, DaemonReadsType DEF DaemonDeclares, TypeOK
        <3>. QED  BY <3>1 DEF Request
    <2>2. PICK t \in Torrent, ok \in BOOLEAN : toApp' = Notified(Declared(t, ok))
        BY <1>2, <2>1 DEF DaemonDeclares
    <2>3. Declared(t, ok) \in Notification /\ Reading(daemonCoins, Declared(t, ok)) = daemonCoins
        BY DEF Declared, Notification, Reading
    <2>4. UNCHANGED <<socket, handlers, daemonUp, redeemable, walletKnown, daemonCoins>>
        BY <1>2 DEF DaemonDeclares, session, history, daemon
    <2>. QED  BY <2>2, <2>3, <2>4, ToldSettles
<1>3. CASE DaemonTellsWallet
    <2>1. toApp' = Notified(Wallet(daemonCoins))
        BY <1>3 DEF DaemonTellsWallet
    <2>2. /\ Wallet(daemonCoins) \in Notification
          /\ Reading(daemonCoins, Wallet(daemonCoins)) = daemonCoins
        BY <1>0 DEF Wallet, Notification, Reading
    <2>3. UNCHANGED <<socket, handlers, daemonUp, redeemable, walletKnown, daemonCoins>>
        BY <1>3 DEF DaemonTellsWallet, session, history, daemon
    <2>. QED  BY <2>1, <2>2, <2>3, ToldSettles
<1>4. CASE DaemonRedeems
    <2>1. toApp' = Notified(Wallet(0)) /\ daemonCoins' = 0
        BY <1>4 DEF DaemonRedeems
    <2>2. Wallet(0) \in Notification /\ Reading(daemonCoins, Wallet(0)) = 0
        BY DEF Wallet, Notification, Reading
    <2>3. UNCHANGED <<socket, handlers, daemonUp, redeemable, walletKnown>>
        BY <1>4 DEF DaemonRedeems, session, history
    <2>. QED  BY <2>1, <2>2, <2>3, ToldSettles
<1>5. ASSUME NEW p \in Peer, NEW n \in 1..MaxBlocks, DaemonPaid(p, n)
      PROVE  WalletInv'
    <2>1. PICK b \in Nat : toApp' = Notified(Payment(p, b))
        <3>1. daemonPaid[p] + n \in Nat
            BY PayfluxoAssumption DEF PayfluxoAssumption, TypeOK
        <3>. QED  BY <1>5, <3>1 DEF DaemonPaid
    <2>2. /\ Payment(p, b) \in Notification
          /\ Reading(daemonCoins, Payment(p, b)) = daemonCoins + 1
        BY DEF Payment, Notification, Reading
    <2>3. UNCHANGED <<socket, handlers, daemonUp, redeemable, walletKnown>>
        BY <1>5 DEF DaemonPaid, session, history
    <2>4. daemonCoins' = daemonCoins + 1
        BY <1>5 DEF DaemonPaid
    <2>. QED  BY <2>1, <2>2, <2>3, <2>4, ToldSettles
<1>6. CASE DaemonLogsOut
    <2>1. UNCHANGED wallet
        BY <1>6 DEF DaemonLogsOut, wallet, session, history
    <2>. QED  BY <2>1 DEF wallet, WalletInv, WalletSettles, WalletComes, Linked, Unconnected
<1>7. CASE DaemonDies
    <2>1. ~Linked' /\ UNCHANGED <<handlers, walletKnown, socket>>
        BY <1>7 DEF DaemonDies, Linked
    <2>2. toApp = <<>> => toApp' = <<>>
        <3>. SUFFICES ASSUME toApp = <<>>  PROVE toApp' = <<>>
            OBVIOUS
        <3>1. PICK k \in 0..Len(toApp) : toApp' = SubSeq(toApp, 1, k)
            BY <1>7 DEF DaemonDies
        <3>2. toApp' \in Seq(Notification) /\ \A x : ~Contains(toApp', x)
            BY <3>1, InPrefix DEF TypeOK, Contains
        <3>3. toApp' # <<>> => Contains(toApp', Head(toApp'))
            BY <3>2, InHead
        <3>. QED  BY <3>2, <3>3
    <2>. QED  BY <2>1, <2>2 DEF WalletInv, WalletSettles, Unconnected
<1>8. CASE DaemonStarts
    <2>1. socket # "open" /\ UNCHANGED <<socket, handlers, toApp, walletKnown>>
        BY <1>8 DEF DaemonStarts, link, history
    <2>. QED  BY <2>1 DEF WalletInv, WalletSettles, Linked, Unconnected
<1>. QED  BY <1>1, <1>2, <1>3, <1>4, <1>5, <1>6, <1>7, <1>8 DEF DaemonStep

LEMMA WalletStep ==
    ASSUME TypeOK, WalletInv, [Next]_vars
    PROVE  WalletInv'
<1>1. CASE TorrentStep \/ PeerStep \/ UNCHANGED vars
    <2>1. UNCHANGED wallet
        BY <1>1 DEF TorrentStep, AddTorrent, DeleteTorrent, ResumeTorrent, PauseTorrent,
                    CompletenessChanges, PeerStep, BlockUploaded, IncomingRequest, UserBans,
                    UserUnbans, wallet, vars, session, link, daemon, history
    <2>. QED  BY <2>1 DEF wallet, WalletInv, WalletSettles, WalletComes, Linked, Unconnected
<1>2. CASE Restart
    BY <1>2 DEF Restart, NewRun, WalletInv, WalletSettles, Linked, Unconnected
<1>. QED  BY <1>1, <1>2, UserStepSettles, MessageStepSettles, LinkStepSettles, DaemonStepSettles
          DEF Next

-----------------------------------------------------------------------------
(* Whether somebody is logged in *)

Answer == {"Authenticated", "AuthenticationFailed"}

\* The positions of the messages of some kinds
At(ms, kinds) == {i \in DOMAIN ms : ms[i].type \in kinds}

\* What is under way between an application that takes its user to be logged in
\* or not and a daemon that does: a login that was asked for once, in a state
\* without a user once all that was asked before has been read, or its answer.
LoginPart(isIn, known, asked, told) ==
    LET logins == At(asked, {"Authentication"})
        logouts == At(asked, {"Logout"})
        answers == At(told, Answer)
    IN  /\ logouts # {} \/ logins # {} \/ answers # {} => ~isIn
        /\ logouts = {} /\ answers = {} => isIn = known
        /\ \A i, j \in logins : i = j
        /\ \A i, j \in answers : i = j
        /\ answers # {} => logins = {} /\ logouts = {}
        /\ \A i \in logouts, j \in logins : i < j
        /\ \A k \in answers : known = (told[k].type = "Authenticated")

\* The positions in a tail, in a queue that grew, and in one that is empty
LEMMA AtTail ==
    ASSUME NEW S, NEW q \in Seq(S), q # <<>>, NEW kinds
    PROVE  /\ \A i : i \in At(Tail(q), kinds) => i + 1 \in At(q, kinds) /\ Tail(q)[i] = q[i + 1]
           /\ \A i \in At(q, kinds) : i # 1 => i - 1 \in At(Tail(q), kinds)
           /\ 1 \in At(q, kinds) <=> Head(q).type \in kinds
           /\ At(q, kinds) \subseteq Nat /\ At(Tail(q), kinds) \subseteq Nat
           /\ \A i \in At(q, kinds) : i >= 1
<1>1. /\ Len(q) \in Nat \ {0} /\ DOMAIN q = 1 .. Len(q)
      /\ DOMAIN Tail(q) = 1 .. Len(q) - 1
      /\ \A i \in DOMAIN Tail(q) : Tail(q)[i] = q[i + 1]
      /\ Head(q) = q[1]
    BY TailIn
<1>2. ASSUME NEW i \in At(Tail(q), kinds)
      PROVE  i + 1 \in At(q, kinds) /\ Tail(q)[i] = q[i + 1]
    <2>1. i \in 1 .. Len(q) - 1 /\ Tail(q)[i] = q[i + 1] /\ Tail(q)[i].type \in kinds
        BY <1>1 DEF At
    <2>2. i + 1 \in 1 .. Len(q)
        BY <1>1, <2>1
    <2>. QED  BY <1>1, <2>1, <2>2 DEF At
<1>3. ASSUME NEW i \in At(q, kinds), i # 1  PROVE i - 1 \in At(Tail(q), kinds)
    <2>1. i \in 1 .. Len(q) /\ q[i].type \in kinds
        BY <1>1 DEF At
    <2>2. i - 1 \in 1 .. Len(q) - 1 /\ (i - 1) + 1 = i
        BY <1>1, <1>3, <2>1
    <2>3. Tail(q)[i - 1] = q[i]
        BY <1>1, <2>2
    <2>. QED  BY <1>1, <2>1, <2>2, <2>3 DEF At
<1>4. 1 \in At(q, kinds) <=> Head(q).type \in kinds
    BY <1>1 DEF At
<1>5. /\ At(q, kinds) \subseteq Nat /\ At(Tail(q), kinds) \subseteq Nat
      /\ \A i \in At(q, kinds) : i >= 1
    BY <1>1 DEF At
<1>. QED  BY <1>2, <1>3, <1>4, <1>5

\* Behind r nothing of these kinds comes.
LEMMA AtMore ==
    ASSUME NEW S, NEW q \in Seq(S), NEW r \in Seq(S), NEW kinds, At(r, kinds) = {}
    PROVE  At(q \o r, kinds) = At(q, kinds) /\ \A i \in At(q, kinds) : (q \o r)[i] = q[i]
<1>1. /\ DOMAIN q = 1 .. Len(q) /\ DOMAIN r = 1 .. Len(r)
      /\ Len(q) \in Nat /\ Len(r) \in Nat
      /\ DOMAIN (q \o r) = 1 .. Len(q) + Len(r)
      /\ \A i \in 1 .. Len(q) : (q \o r)[i] = q[i]
      /\ \A i \in 1 .. Len(r) : (q \o r)[Len(q) + i] = r[i]
    BY ConcatIn
<1>2. ASSUME NEW i \in At(q \o r, kinds)  PROVE i \in At(q, kinds)
    <2>1. i \in 1 .. Len(q) + Len(r) /\ (q \o r)[i].type \in kinds
        BY <1>1 DEF At
    <2>2. CASE i \in 1 .. Len(q)
        BY <1>1, <2>1, <2>2 DEF At
    <2>3. CASE i \notin 1 .. Len(q)
        <3>1. i - Len(q) \in 1 .. Len(r) /\ Len(q) + (i - Len(q)) = i
            BY <1>1, <2>1, <2>3
        <3>2. (q \o r)[i] = r[i - Len(q)]
            BY <1>1, <3>1
        <3>3. i - Len(q) \in At(r, kinds)
            BY <1>1, <2>1, <3>1, <3>2 DEF At
        <3>. QED  BY <3>3
    <2>. QED  BY <2>2, <2>3
<1>3. ASSUME NEW i \in At(q, kinds)  PROVE i \in At(q \o r, kinds) /\ (q \o r)[i] = q[i]
    <2>1. i \in 1 .. Len(q) /\ q[i].type \in kinds
        BY <1>1 DEF At
    <2>2. i \in 1 .. Len(q) + Len(r) /\ (q \o r)[i] = q[i]
        BY <1>1, <2>1
    <2>. QED  BY <1>1, <2>1, <2>2 DEF At
<1>. QED  BY <1>2, <1>3

\* What is appended is the only one of its kinds that is new.
LEMMA AtAppend ==
    ASSUME NEW S, NEW q \in Seq(S), NEW m \in S, NEW kinds
    PROVE  /\ At(Append(q, m), kinds) =
                 At(q, kinds) \cup {i \in {Len(q) + 1} : m.type \in kinds}
           /\ \A i \in At(q, kinds) : Append(q, m)[i] = q[i] /\ i \in Nat /\ i < Len(q) + 1
           /\ Append(q, m)[Len(q) + 1] = m
           /\ Len(q) \in Nat
<1>1. /\ DOMAIN q = 1 .. Len(q) /\ Len(q) \in Nat
      /\ DOMAIN Append(q, m) = 1 .. Len(q) + 1
      /\ \A i \in 1 .. Len(q) : Append(q, m)[i] = q[i]
      /\ Append(q, m)[Len(q) + 1] = m
    BY AppendIn
<1>2. ASSUME NEW i \in At(Append(q, m), kinds)
      PROVE  i \in At(q, kinds) \cup {j \in {Len(q) + 1} : m.type \in kinds}
    <2>1. i \in 1 .. Len(q) + 1 /\ Append(q, m)[i].type \in kinds
        BY <1>1 DEF At
    <2>2. CASE i \in 1 .. Len(q)
        BY <1>1, <2>1, <2>2 DEF At
    <2>3. CASE i = Len(q) + 1
        BY <1>1, <2>1, <2>3
    <2>. QED  BY <1>1, <2>1, <2>2, <2>3
<1>3. ASSUME NEW i \in At(q, kinds)
      PROVE  /\ i \in At(Append(q, m), kinds) /\ Append(q, m)[i] = q[i]
             /\ i \in Nat /\ i < Len(q) + 1
    <2>1. i \in 1 .. Len(q) /\ q[i].type \in kinds
        BY <1>1 DEF At
    <2>2. i \in 1 .. Len(q) + 1 /\ Append(q, m)[i] = q[i] /\ i \in Nat /\ i < Len(q) + 1
        BY <1>1, <2>1
    <2>. QED  BY <1>1, <2>1, <2>2 DEF At
<1>4. m.type \in kinds => Len(q) + 1 \in At(Append(q, m), kinds)
    BY <1>1 DEF At
<1>. QED  BY <1>1, <1>2, <1>3, <1>4

\* What the daemon or the application reads that concerns no login
LEMMA AskedNeutral ==
    ASSUME NEW a, NEW u, NEW r \in Seq(Request), NEW x \in Seq(Request), NEW n,
           At(x, {"Authentication"}) = {}, At(x, {"Logout"}) = {}, LoginPart(a, u, r, n)
    PROVE  LoginPart(a, u, r \o x, n)
<1>1. At(r \o x, {"Authentication"}) = At(r, {"Authentication"})
    BY AtMore
<1>2. At(r \o x, {"Logout"}) = At(r, {"Logout"})
    BY AtMore
<1>. QED  BY <1>1, <1>2 DEF LoginPart

LEMMA ReadNeutral ==
    ASSUME NEW a, NEW u, NEW r \in Seq(Request), r # <<>>, NEW n,
           Head(r).type \notin {"Authentication", "Logout"}, LoginPart(a, u, r, n)
    PROVE  LoginPart(a, u, Tail(r), n)
<1>. DEFINE in == At(r, {"Authentication"})
            out == At(r, {"Logout"})
            tin == At(Tail(r), {"Authentication"})
            tout == At(Tail(r), {"Logout"})
            ans == At(n, Answer)
<1>1. /\ \A i : i \in tin => i + 1 \in in
      /\ \A i \in in : i # 1 => i - 1 \in tin
      /\ 1 \notin in /\ in \subseteq Nat /\ tin \subseteq Nat
    BY AtTail
<1>2. /\ \A i : i \in tout => i + 1 \in out
      /\ \A i \in out : i # 1 => i - 1 \in tout
      /\ 1 \notin out /\ out \subseteq Nat /\ tout \subseteq Nat
    BY AtTail
<1>3. /\ out # {} \/ in # {} \/ ans # {} => ~a
      /\ out = {} /\ ans = {} => a = u
      /\ \A i, j \in in : i = j
      /\ \A i, j \in ans : i = j
      /\ ans # {} => in = {} /\ out = {}
      /\ \A i \in out, j \in in : i < j
      /\ \A k \in ans : u = (n[k].type = "Authenticated")
    BY DEF LoginPart
<1>. HIDE DEF in, out, tin, tout, ans
<1>4. (tin = {} <=> in = {}) /\ (tout = {} <=> out = {})
    BY <1>1, <1>2
<1>5. \A i, j \in tin : i = j
    <2>. SUFFICES ASSUME NEW i \in tin, NEW j \in tin  PROVE i = j
        OBVIOUS
    <2>1. i + 1 = j + 1 /\ i \in Nat /\ j \in Nat
        BY <1>1, <1>3
    <2>. QED  BY <2>1
<1>6. \A i \in tout, j \in tin : i < j
    <2>. SUFFICES ASSUME NEW i \in tout, NEW j \in tin  PROVE i < j
        OBVIOUS
    <2>1. i + 1 < j + 1 /\ i \in Nat /\ j \in Nat
        BY <1>1, <1>2, <1>3
    <2>. QED  BY <2>1
<1>7. /\ tout # {} \/ tin # {} \/ ans # {} => ~a
      /\ tout = {} /\ ans = {} => a = u
      /\ ans # {} => tin = {} /\ tout = {}
    BY <1>3, <1>4
<1>. QED  BY <1>3, <1>5, <1>6, <1>7 DEF LoginPart, tin, tout, ans

LEMMA ToldNeutral ==
    ASSUME NEW a, NEW u, NEW r, NEW n \in Seq(Notification), NEW m \in Notification,
           m.type \notin Answer, LoginPart(a, u, r, n)
    PROVE  LoginPart(a, u, r, Append(n, m))
<1>1. At(Append(n, m), Answer) =
             At(n, Answer) \cup {i \in {Len(n) + 1} : m.type \in Answer}
    BY AtAppend
<1>2. At(Append(n, m), Answer) = At(n, Answer)
    BY <1>1
<1>3. ASSUME NEW k \in At(n, Answer)  PROVE Append(n, m)[k].type = n[k].type
    <2>1. k \in DOMAIN n
        BY DEF At
    <2>2. Append(n, m)[k] = n[k]
        BY <2>1, AppendIn
    <2>. QED  BY <2>2
<1>. QED  BY <1>2, <1>3 DEF LoginPart

LEMMA HeardNeutral ==
    ASSUME NEW a, NEW u, NEW r, NEW n \in Seq(Notification), n # <<>>,
           Head(n).type \notin Answer, LoginPart(a, u, r, n)
    PROVE  LoginPart(a, u, r, Tail(n))
<1>. DEFINE ans == At(n, Answer)
            tans == At(Tail(n), Answer)
            in == At(r, {"Authentication"})
            out == At(r, {"Logout"})
<1>1. /\ \A i : i \in tans => i + 1 \in ans /\ Tail(n)[i] = n[i + 1]
      /\ \A i \in ans : i # 1 => i - 1 \in tans
      /\ 1 \notin ans /\ ans \subseteq Nat /\ tans \subseteq Nat
    BY AtTail
<1>2. /\ out # {} \/ in # {} \/ ans # {} => ~a
      /\ out = {} /\ ans = {} => a = u
      /\ \A i, j \in in : i = j
      /\ \A i, j \in ans : i = j
      /\ ans # {} => in = {} /\ out = {}
      /\ \A i \in out, j \in in : i < j
      /\ \A k \in ans : u = (n[k].type = "Authenticated")
    BY DEF LoginPart
<1>. HIDE DEF in, out, tans, ans
<1>3. tans = {} <=> ans = {}
    BY <1>1
<1>4. \A i, j \in tans : i = j
    <2>. SUFFICES ASSUME NEW i \in tans, NEW j \in tans  PROVE i = j
        OBVIOUS
    <2>1. i + 1 = j + 1 /\ i \in Nat /\ j \in Nat
        BY <1>1, <1>2
    <2>. QED  BY <2>1
<1>5. ASSUME NEW k \in tans  PROVE u = (Tail(n)[k].type = "Authenticated")
    <2>1. k + 1 \in ans /\ Tail(n)[k].type = n[k + 1].type
        BY <1>1
    <2>2. u = (n[k + 1].type = "Authenticated")
        BY <1>2, <2>1
    <2>. QED  BY <2>1, <2>2
<1>6. /\ out # {} \/ in # {} \/ tans # {} => ~a
      /\ out = {} /\ tans = {} => a = u
      /\ tans # {} => in = {} /\ out = {}
    BY <1>2, <1>3
<1>. QED  BY <1>2, <1>4, <1>5, <1>6 DEF LoginPart, in, out, tans

\* A login is asked for while nobody is logged in and no login is under way.
LEMMA LoginAsked ==
    ASSUME NEW u, NEW r \in Seq(Request), NEW n, NEW m \in Request,
           m.type = "Authentication", At(r, {"Authentication"}) = {}, At(n, Answer) = {},
           LoginPart(FALSE, u, r, n)
    PROVE  LoginPart(FALSE, u, Append(r, m), n)
<1>1. At(Append(r, m), {"Authentication"}) = {Len(r) + 1} /\ Len(r) \in Nat
    BY AtAppend
<1>2. /\ At(Append(r, m), {"Logout"}) = At(r, {"Logout"})
      /\ \A i \in At(r, {"Logout"}) : i < Len(r) + 1
    <2>1. At(Append(r, m), {"Logout"}) =
                 At(r, {"Logout"}) \cup {i \in {Len(r) + 1} : m.type \in {"Logout"}}
        BY AtAppend
    <2>2. ASSUME NEW i \in At(r, {"Logout"})  PROVE i < Len(r) + 1
        BY AtAppend
    <2>. QED  BY <2>1, <2>2
<1>3. \A i, j \in At(Append(r, m), {"Authentication"}) : i = j
    BY <1>1
<1>4. \A i \in At(Append(r, m), {"Logout"}), j \in At(Append(r, m), {"Authentication"}) : i < j
    BY <1>1, <1>2
<1>5. At(r, {"Logout"}) = {} => FALSE = u
    BY DEF LoginPart
<1>. QED  BY <1>2, <1>3, <1>4, <1>5 DEF LoginPart

\* Whoever logs out is logged in, so nothing about it was under way.
LEMMA LogoutAsked ==
    ASSUME NEW u, NEW r \in Seq(Request), NEW n, NEW m \in Request,
           m.type = "Logout", LoginPart(TRUE, u, r, n)
    PROVE  LoginPart(FALSE, u, Append(r, m), n)
<1>1. /\ At(r, {"Authentication"}) = {} /\ At(r, {"Logout"}) = {}
      /\ At(n, Answer) = {}
    BY DEF LoginPart
<1>2. At(Append(r, m), {"Authentication"}) = {}
    BY <1>1, AtAppend
<1>3. At(Append(r, m), {"Logout"}) # {}
    BY AtAppend
<1>. QED  BY <1>1, <1>2, <1>3 DEF LoginPart

\* The daemon reads that the user has left.
LEMMA LogoutRead ==
    ASSUME NEW a, NEW u, NEW r \in Seq(Request), r # <<>>, NEW n,
           Head(r).type = "Logout", a \in BOOLEAN, LoginPart(a, u, r, n)
    PROVE  LoginPart(a, FALSE, Tail(r), n)
<1>. DEFINE in == At(r, {"Authentication"})
            out == At(r, {"Logout"})
            tin == At(Tail(r), {"Authentication"})
            tout == At(Tail(r), {"Logout"})
            ans == At(n, Answer)
<1>1. (\A i : i \in tin => i + 1 \in in) /\ tin \subseteq Nat
    BY AtTail
<1>2. (\A i : i \in tout => i + 1 \in out) /\ tout \subseteq Nat /\ 1 \in out
    BY AtTail
<1>3. /\ out # {} => ~a
      /\ \A i, j \in in : i = j
      /\ ans # {} => out = {}
      /\ \A i \in out, j \in in : i < j
    BY DEF LoginPart
<1>. HIDE DEF in, out, tin, tout, ans
<1>4. a = FALSE /\ ans = {}
    BY <1>2, <1>3
<1>5. \A i, j \in tin : i = j
    <2>. SUFFICES ASSUME NEW i \in tin, NEW j \in tin  PROVE i = j
        OBVIOUS
    <2>1. i + 1 = j + 1 /\ i \in Nat /\ j \in Nat
        BY <1>1, <1>3
    <2>. QED  BY <2>1
<1>6. \A i \in tout, j \in tin : i < j
    <2>. SUFFICES ASSUME NEW i \in tout, NEW j \in tin  PROVE i < j
        OBVIOUS
    <2>1. i + 1 < j + 1 /\ i \in Nat /\ j \in Nat
        BY <1>1, <1>2, <1>3
    <2>. QED  BY <2>1
<1>. QED  BY <1>4, <1>5, <1>6 DEF LoginPart, tin, tout, ans

\* The daemon answers the login.
LEMMA LoginAnswered ==
    ASSUME NEW a, NEW u, NEW v, NEW r \in Seq(Request), r # <<>>, NEW n \in Seq(Notification),
           NEW m \in Notification, Head(r).type = "Authentication",
           m.type \in Answer, v = (m.type = "Authenticated"), LoginPart(a, u, r, n)
    PROVE  LoginPart(a, v, Tail(r), Append(n, m))
<1>. DEFINE in == At(r, {"Authentication"})
            out == At(r, {"Logout"})
            tin == At(Tail(r), {"Authentication"})
            tout == At(Tail(r), {"Logout"})
<1>1. (\A i : i \in tin => i + 1 \in in) /\ tin \subseteq Nat /\ 1 \in in
    BY AtTail
<1>2. /\ \A i : i \in tout => i + 1 \in out
      /\ tout \subseteq Nat /\ out \subseteq Nat
      /\ \A i \in out : i >= 1
    BY AtTail
<1>3. /\ in # {} => ~a
      /\ \A i, j \in in : i = j
      /\ At(n, Answer) # {} => in = {}
      /\ \A i \in out, j \in in : i < j
    BY DEF LoginPart
<1>4. /\ At(Append(n, m), Answer) = At(n, Answer) \cup {Len(n) + 1}
      /\ Append(n, m)[Len(n) + 1] = m
    BY AtAppend
<1>. HIDE DEF in, out, tin, tout
<1>5. tin = {}
    <2>. SUFFICES ASSUME NEW i \in tin  PROVE FALSE
        OBVIOUS
    <2>1. i + 1 = 1 /\ i \in Nat
        BY <1>1, <1>3
    <2>2. i = 0
        BY <2>1
    <2>3. 1 \in At(r, {"Authentication"}) /\ 0 \in At(Tail(r), {"Authentication"})
        BY <1>1, <2>2 DEF in, tin
    <2>4. DOMAIN Tail(r) = 1 .. Len(r) - 1
        BY TailIn
    <2>. QED  BY <2>3, <2>4 DEF At
<1>6. out = {} /\ tout = {}
    BY <1>1, <1>2, <1>3
<1>7. At(Append(n, m), Answer) = {Len(n) + 1} /\ ~a
    BY <1>1, <1>3, <1>4
<1>. QED  BY <1>4, <1>5, <1>6, <1>7 DEF LoginPart, tin, tout

\* The application reads the answer.
LEMMA LoginHeard ==
    ASSUME NEW a, NEW b, NEW u, NEW r, NEW n \in Seq(Notification), n # <<>>,
           a \in BOOLEAN, b \in BOOLEAN, u \in BOOLEAN,
           Head(n).type \in Answer, LoginPart(a, u, r, n),
           b = IF Head(n).type = "Authenticated" THEN TRUE ELSE a
    PROVE  LoginPart(b, u, r, Tail(n))
<1>. DEFINE ans == At(n, Answer)
            tans == At(Tail(n), Answer)
<1>1. /\ \A i : i \in tans => i + 1 \in ans
      /\ tans \subseteq Nat /\ 1 \in ans
    BY AtTail
<1>2. n[1] = Head(n) /\ DOMAIN Tail(n) = 1 .. Len(n) - 1
    BY TailIn
<1>3. /\ ans # {} => ~a
      /\ \A i, j \in ans : i = j
      /\ ans # {} => At(r, {"Authentication"}) = {} /\ At(r, {"Logout"}) = {}
      /\ \A k \in ans : u = (n[k].type = "Authenticated")
    BY DEF LoginPart
<1>4. \A i \in tans : i \in DOMAIN Tail(n)
    BY DEF At
<1>. HIDE DEF ans, tans
<1>5. tans = {}
    <2>. SUFFICES ASSUME NEW i \in tans  PROVE FALSE
        OBVIOUS
    <2>1. i + 1 = 1 /\ i \in Nat
        BY <1>1, <1>3
    <2>. QED  BY <1>2, <1>4, <2>1
<1>6. ~a /\ u = (Head(n).type = "Authenticated")
    BY <1>1, <1>2, <1>3
<1>7. b = u
    BY <1>6
<1>. QED  BY <1>1, <1>3, <1>5, <1>7 DEF LoginPart, tans

LoginInv ==
    /\ dialog = "panel" => authenticated
    /\ clean => daemonUp
    /\ clean /\ socket # "open" =>
           ~authenticated /\ ~daemonUser /\ toDaemon = <<>> /\ toApp = <<>>
    /\ clean => LoginPart(authenticated, daemonUser, toDaemon, toApp)

LEMMA LoginTypes ==
    ASSUME TypeOK
    PROVE  /\ authenticated \in BOOLEAN /\ daemonUser \in BOOLEAN
           /\ toDaemon \in Seq(Request) /\ toApp \in Seq(Notification)
BY DEF TypeOK

LEMMA DeclarationsNeutral ==
    ASSUME NEW S \in SUBSET Torrent, NEW ds \in Declarations(S)
    PROVE  At(ds, {"Authentication"}) = {} /\ At(ds, {"Logout"}) = {}
<1>1. PICK order \in SetToSeqs(S) : ds = [i \in DOMAIN order |-> Intention(order[i])]
    BY DEF Declarations
<1>2. \A i \in DOMAIN ds : ds[i].type = "DownloadIntention"
    BY <1>1 DEF Intention
<1>. QED  BY <1>2 DEF At

LEMMA OneNeutral ==
    ASSUME NEW m, m.type \notin {"Authentication", "Logout"}
    PROVE  At(<<m>>, {"Authentication"}) = {} /\ At(<<m>>, {"Logout"}) = {}
BY DEF At

\* The application sends what concerns no login.
LEMMA SentLogin ==
    ASSUME TypeOK, LoginInv, NEW x \in Seq(Request),
           At(x, {"Authentication"}) = {}, At(x, {"Logout"}) = {}, toDaemon' = Sent(x),
           UNCHANGED <<authenticated, clean, socket, daemonUp, daemonUser, toApp>>,
           dialog' = "panel" => authenticated
    PROVE  LoginInv'
<1>1. CASE clean /\ socket = "open"
    <2>1. toDaemon' = toDaemon \o x
        BY <1>1 DEF LoginInv, Sent, Linked
    <2>2. LoginPart(authenticated, daemonUser, toDaemon, toApp)
        BY <1>1 DEF LoginInv
    <2>3. LoginPart(authenticated, daemonUser, toDaemon \o x, toApp)
        BY <2>2, LoginTypes, AskedNeutral
    <2>. QED  BY <1>1, <2>1, <2>3 DEF LoginInv
<1>2. CASE clean /\ socket # "open"
    <2>1. toDaemon' = toDaemon
        BY <1>2 DEF Sent, Linked
    <2>. QED  BY <1>2, <2>1 DEF LoginInv
<1>3. CASE ~clean
    BY <1>3 DEF LoginInv
<1>. QED  BY <1>1, <1>2, <1>3

\* The daemon reads what concerns no login, or its notifications do not.
LEMMA DaemonLogin ==
    ASSUME TypeOK, LoginInv,
           NEW kind, kind \notin {"Authentication", "Logout"},
           DaemonReads(kind) \/ toDaemon' = toDaemon,
           NEW m \in Notification, m.type \notin Answer, toApp' = Notified(m),
           UNCHANGED <<authenticated, clean, socket, daemonUp, daemonUser, dialog>>
    PROVE  LoginInv'
<1>1. CASE clean /\ socket = "open"
    <2>1. toApp' = Append(toApp, m)
        BY <1>1 DEF LoginInv, Notified, Linked
    <2>2. LoginPart(authenticated, daemonUser, toDaemon, toApp)
        BY <1>1 DEF LoginInv
    <2>3. LoginPart(authenticated, daemonUser, toDaemon', toApp)
        <3>1. CASE DaemonReads(kind)
            <4>1. /\ toDaemon # <<>> /\ toDaemon' = Tail(toDaemon)
                  /\ Head(toDaemon).type \notin {"Authentication", "Logout"}
                BY <3>1 DEF DaemonReads
            <4>2. LoginPart(authenticated, daemonUser, Tail(toDaemon), toApp)
                BY <2>2, <4>1, LoginTypes, ReadNeutral
            <4>. QED  BY <4>1, <4>2
        <3>2. CASE toDaemon' = toDaemon
            BY <2>2, <3>2
        <3>. QED  BY <3>1, <3>2
    <2>4. LoginPart(authenticated, daemonUser, toDaemon', Append(toApp, m))
        BY <2>3, LoginTypes, ToldNeutral
    <2>. QED  BY <1>1, <2>1, <2>4 DEF LoginInv
<1>2. CASE clean /\ socket # "open"
    <2>1. toApp' = toApp /\ toDaemon' = toDaemon
        BY <1>2 DEF Notified, Linked, DaemonReads
    <2>. QED  BY <1>2, <2>1 DEF LoginInv
<1>3. CASE ~clean
    BY <1>3 DEF LoginInv
<1>. QED  BY <1>1, <1>2, <1>3

\* The application reads what concerns no login.
LEMMA ReceivedLogin ==
    ASSUME TypeOK, LoginInv, NEW kind, kind \notin Answer, Receives(kind),
           UNCHANGED <<authenticated, clean, socket, daemonUp, daemonUser, dialog, toDaemon>>
    PROVE  LoginInv'
<1>1. /\ socket = "open" /\ toApp # <<>> /\ toApp' = Tail(toApp)
      /\ Head(toApp).type \notin Answer
    BY DEF Receives
<1>2. ASSUME clean  PROVE LoginPart(authenticated, daemonUser, toDaemon, Tail(toApp))
    <2>1. LoginPart(authenticated, daemonUser, toDaemon, toApp)
        BY <1>2 DEF LoginInv
    <2>. QED  BY <1>1, <2>1, LoginTypes, HeardNeutral
<1>. QED  BY <1>1, <1>2 DEF LoginInv

logins == <<authenticated, clean, socket, daemonUp, daemonUser, dialog, toDaemon, toApp>>

LEMMA UserStepLogin ==
    ASSUME TypeOK, LoginInv, UserStep
    PROVE  LoginInv'
<1>1. CASE OpenAuthDialog
    BY <1>1 DEF OpenAuthDialog, LoginInv, session, link, daemon, history
<1>2. CASE SubmitCredentials
    <2>. DEFINE S == IF authenticated # authBefore THEN paid \ complete ELSE {}
                m == Plain("Authentication")
    <2>1. S \in SUBSET Torrent
        BY DEF TypeOK
    <2>2. PICK ds \in Declarations(S) : toDaemon' = Sent(<<m>> \o ds)
        BY <1>2 DEF SubmitCredentials, AuthDialogClosed
    <2>3. /\ clean' = (clean /\ ~authenticated /\ PendingLogins = {})
          /\ dialog' # "panel"
          /\ UNCHANGED <<authenticated, socket, toApp, daemonUp, daemonUser>>
        BY <1>2 DEF SubmitCredentials, AuthDialogClosed, daemon
    <2>. HIDE DEF S
    <2>4. /\ ds \in Seq(Request)
          /\ At(ds, {"Authentication"}) = {} /\ At(ds, {"Logout"}) = {}
        BY <2>1, DeclarationsProperties, DeclarationsNeutral
    <2>5. m \in Request /\ m.type = "Authentication"
        BY DEF Plain, Request
    <2>. HIDE DEF m
    <2>6. CASE clean' /\ socket = "open"
        <3>1. authenticated = FALSE
            BY <2>3, <2>6, LoginTypes
        <3>2. PendingLogins = {} /\ clean
            BY <2>3, <2>6
        <3>3. At(toDaemon, {"Authentication"}) = {} /\ At(toApp, Answer) = {}
            BY <3>2 DEF PendingLogins, At, Answer
        <3>4. LoginPart(FALSE, daemonUser, toDaemon, toApp)
            BY <3>1, <3>2 DEF LoginInv
        <3>5. LoginPart(FALSE, daemonUser, Append(toDaemon, m), toApp)
            BY <2>5, <3>3, <3>4, LoginTypes, LoginAsked
        <3>6. Append(toDaemon, m) \in Seq(Request)
            BY <2>5, LoginTypes, AppendProperties
        <3>7. LoginPart(FALSE, daemonUser, Append(toDaemon, m) \o ds, toApp)
            BY <2>4, <3>5, <3>6, AskedNeutral
        <3>8. toDaemon' = Append(toDaemon, m) \o ds
            <4>1. toDaemon' = toDaemon \o (<<m>> \o ds)
                BY <2>2, <2>6, <3>2 DEF Sent, Linked, LoginInv
            <4>2. /\ toDaemon \in Seq(Request) /\ <<m>> \in Seq(Request) /\ ds \in Seq(Request)
                BY <2>4, <2>5, LoginTypes
            <4>3. toDaemon \o (<<m>> \o ds) = (toDaemon \o <<m>>) \o ds
                BY <4>2, ConcatAssociative
            <4>4. toDaemon \o <<m>> = Append(toDaemon, m)
                BY <2>5, LoginTypes, AppendIsConcat
            <4>. QED  BY <4>1, <4>3, <4>4
        <3>. QED  BY <2>3, <2>6, <3>1, <3>2, <3>7, <3>8 DEF LoginInv
    <2>7. CASE clean' /\ socket # "open"
        <3>1. toDaemon' = toDaemon /\ clean
            BY <2>2, <2>3, <2>7 DEF Sent, Linked
        <3>. QED  BY <2>3, <2>7, <3>1 DEF LoginInv
    <2>8. CASE ~clean'
        BY <2>3, <2>8 DEF LoginInv
    <2>. QED  BY <2>6, <2>7, <2>8
<1>3. CASE CancelAuthDialog
    <2>. DEFINE S == IF authenticated # authBefore THEN paid \ complete ELSE {}
    <2>1. S \in SUBSET Torrent
        BY DEF TypeOK
    <2>2. PICK ds \in Declarations(S) : toDaemon' = Sent(<<>> \o ds)
        BY <1>3 DEF CancelAuthDialog, AuthDialogClosed
    <2>3. /\ dialog' # "panel"
          /\ UNCHANGED <<authenticated, clean, socket, toApp, daemonUp, daemonUser>>
        BY <1>3 DEF CancelAuthDialog, AuthDialogClosed, daemon, session, history
    <2>. HIDE DEF S
    <2>4. /\ ds \in Seq(Request)
          /\ At(ds, {"Authentication"}) = {} /\ At(ds, {"Logout"}) = {}
        BY <2>1, DeclarationsProperties, DeclarationsNeutral
    <2>5. <<>> \o ds = ds
        BY <2>4, ConcatEmptySeq
    <2>. QED  BY <2>2, <2>3, <2>4, <2>5, SentLogin
<1>4. ASSUME NEW S \in SUBSET Torrent, SelectPaid(S)  PROVE LoginInv'
    <2>1. PICK ds \in Declarations(S \ complete) : toDaemon' = Sent(ds)
        BY <1>4 DEF SelectPaid
    <2>2. S \ complete \in SUBSET Torrent
        OBVIOUS
    <2>3. /\ ds \in Seq(Request)
          /\ At(ds, {"Authentication"}) = {} /\ At(ds, {"Logout"}) = {}
        BY <2>2, DeclarationsProperties, DeclarationsNeutral
    <2>4. /\ dialog' # "panel"
          /\ UNCHANGED <<authenticated, clean, socket, toApp, daemonUp, daemonUser>>
        BY <1>4 DEF SelectPaid, daemon, session, history
    <2>. QED  BY <2>1, <2>3, <2>4, SentLogin
<1>5. CASE OpenPanel \/ Redeem
    <2>1. PICK k \in {"RefreshWallet", "RedeemValues"} : toDaemon' = Sent(<<Plain(k)>>)
        BY <1>5 DEF OpenPanel, Redeem
    <2>2. <<Plain(k)>> \in Seq(Request) /\ Plain(k).type \notin {"Authentication", "Logout"}
        BY PlainRequests DEF Plain
    <2>3. At(<<Plain(k)>>, {"Authentication"}) = {} /\ At(<<Plain(k)>>, {"Logout"}) = {}
        BY <2>2, OneNeutral
    <2>4. UNCHANGED <<authenticated, clean, socket, toApp, daemonUp, daemonUser>>
        BY <1>5 DEF OpenPanel, Redeem, daemon, session, history
    <2>5. dialog' = "panel" => authenticated
        BY <1>5 DEF OpenPanel, Redeem, gui, LoginInv
    <2>. QED  BY <2>1, <2>2, <2>3, <2>4, <2>5, SentLogin
<1>6. CASE ClosePanel
    BY <1>6 DEF ClosePanel, PanelClosed, LoginInv, session, link, daemon, history
<1>7. CASE Logout
    <2>. DEFINE m == Plain("Logout")
    <2>1. /\ toDaemon' = Sent(<<m>>) /\ authenticated' = FALSE /\ dialog' = "none"
          /\ authenticated = TRUE
          /\ UNCHANGED <<clean, socket, toApp, daemonUp, daemonUser>>
        BY <1>7, LoginTypes DEF Logout, PanelClosed, daemon, history, LoginInv
    <2>2. m \in Request /\ m.type = "Logout"
        BY DEF Plain, Request
    <2>. HIDE DEF m
    <2>3. CASE clean
        <3>1. socket = "open" /\ Linked
            BY <2>1, <2>3 DEF LoginInv, Linked
        <3>2. LoginPart(TRUE, daemonUser, toDaemon, toApp)
            BY <2>1, <2>3 DEF LoginInv
        <3>3. LoginPart(FALSE, daemonUser, Append(toDaemon, m), toApp)
            BY <2>2, <3>2, LoginTypes, LogoutAsked
        <3>4. toDaemon' = Append(toDaemon, m)
            <4>1. toDaemon \o <<m>> = Append(toDaemon, m)
                BY <2>2, LoginTypes, AppendIsConcat
            <4>. QED  BY <2>1, <3>1, <4>1 DEF Sent
        <3>. QED  BY <2>1, <2>3, <3>1, <3>3, <3>4 DEF LoginInv
    <2>4. CASE ~clean
        BY <2>1, <2>4 DEF LoginInv
    <2>. QED  BY <2>3, <2>4
<1>. QED  BY <1>1, <1>2, <1>3, <1>4, <1>5, <1>6, <1>7 DEF UserStep

LEMMA TorrentStepLogin ==
    ASSUME TypeOK, LoginInv, TorrentStep
    PROVE  LoginInv'
<1>1. ASSUME NEW t \in Torrent, NEW hasSeedStatus \in BOOLEAN, NEW addPaused \in BOOLEAN,
             AddTorrent(t, hasSeedStatus, addPaused)
      PROVE  LoginInv'
    <2>1. UNCHANGED <<authenticated, clean, socket, toApp, daemonUp, daemonUser, dialog>>
        BY <1>1 DEF AddTorrent, session, gui, daemon, history
    <2>2. CASE toDaemon' = toDaemon
        BY <2>1, <2>2 DEF LoginInv
    <2>3. CASE toDaemon' = Sent(<<Intention(t)>>)
        <3>1. /\ <<Intention(t)>> \in Seq(Request)
              /\ Intention(t).type \notin {"Authentication", "Logout"}
            BY DEF Intention, Request
        <3>2. At(<<Intention(t)>>, {"Authentication"}) = {} /\ At(<<Intention(t)>>, {"Logout"}) = {}
            BY <3>1, OneNeutral
        <3>3. dialog' = "panel" => authenticated
            BY <2>1 DEF LoginInv
        <3>. QED  BY <2>1, <2>3, <3>1, <3>2, <3>3, SentLogin
    <2>. QED  BY <1>1, <2>2, <2>3 DEF AddTorrent
<1>2. ASSUME NEW t \in Torrent,
             DeleteTorrent(t) \/ ResumeTorrent(t) \/ PauseTorrent(t) \/ CompletenessChanges(t)
      PROVE  LoginInv'
    <2>1. UNCHANGED logins
        BY <1>2 DEF DeleteTorrent, ResumeTorrent, PauseTorrent, CompletenessChanges, logins,
                    session, link, gui, daemon, history
    <2>. QED  BY <2>1 DEF logins, LoginInv
<1>. QED  BY <1>1, <1>2 DEF TorrentStep

LEMMA MessageStepLogin ==
    ASSUME TypeOK, LoginInv, MessageStep
    PROVE  LoginInv'
<1>1. CASE HandlePayment \/ HandleIntention \/ HandleWallet
    <2>1. PICK kind \in {"Payment", "IntentionDeclared", "Wallet"} : Receives(kind)
        BY <1>1 DEF HandlePayment, HandleIntention, HandleWallet
    <2>2. UNCHANGED <<authenticated, clean, socket, daemonUp, daemonUser, dialog, toDaemon>>
        BY <1>1 DEF HandlePayment, HandleIntention, HandleWallet, session, gui, daemon, history
    <2>3. kind \notin Answer
        BY DEF Answer
    <2>. QED  BY <2>1, <2>2, <2>3, ReceivedLogin
<1>2. CASE HandleAuthentication \/ HandleAuthFailed
    <2>1. /\ socket = "open" /\ toApp # <<>> /\ toApp' = Tail(toApp)
          /\ Head(toApp).type \in Answer
          /\ authenticated' = IF Head(toApp).type = "Authenticated" THEN TRUE ELSE authenticated
          /\ UNCHANGED <<clean, socket, daemonUp, daemonUser, dialog, toDaemon>>
        BY <1>2 DEF HandleAuthentication, HandleAuthFailed, Receives, Answer, session, gui, daemon,
                    history
    <2>2. authenticated' \in BOOLEAN
        BY <2>1, LoginTypes
    <2>3. ASSUME clean  PROVE LoginPart(authenticated', daemonUser, toDaemon, Tail(toApp))
        <3>1. LoginPart(authenticated, daemonUser, toDaemon, toApp)
            BY <2>3 DEF LoginInv
        <3>. QED  BY <2>1, <2>2, <3>1, LoginTypes, LoginHeard
    <2>4. dialog' = "panel" => authenticated'
        BY <2>1 DEF LoginInv
    <2>. QED  BY <2>1, <2>3, <2>4 DEF LoginInv
<1>3. CASE NullTorrent
    BY <1>3 DEF NullTorrent, NewRun, LoginInv
<1>. QED  BY <1>1, <1>2, <1>3 DEF MessageStep

LEMMA DaemonStepLogin ==
    ASSUME TypeOK, LoginInv, DaemonStep
    PROVE  LoginInv'
<1>1. CASE DaemonAuthenticates
    <2>1. PICK k \in Answer : /\ toApp' = Notified(Plain(k))
                              /\ daemonUser' = IF k = "Authenticated" THEN TRUE ELSE daemonUser
        BY <1>1 DEF DaemonAuthenticates, Answer
    <2>2. /\ Linked /\ toDaemon # <<>> /\ toDaemon' = Tail(toDaemon)
          /\ Head(toDaemon).type = "Authentication"
          /\ UNCHANGED <<authenticated, clean, socket, daemonUp, dialog>>
        BY <1>1 DEF DaemonAuthenticates, DaemonReads, session, gui, history
    <2>. DEFINE m == Plain(k)
    <2>3. m \in Notification /\ m.type = k /\ m.type \in Answer
        BY DEF Plain, Notification, Answer
    <2>4. toApp' = Append(toApp, m)
        BY <2>1, <2>2 DEF Notified
    <2>. HIDE DEF m
    <2>5. ASSUME clean
          PROVE  LoginPart(authenticated, daemonUser', Tail(toDaemon), Append(toApp, m))
        <3>1. LoginPart(authenticated, daemonUser, toDaemon, toApp)
            BY <2>5 DEF LoginInv
        <3>2. daemonUser' = (m.type = "Authenticated")
            <4>1. ~daemonUser
                <5>1. 1 \in At(toDaemon, {"Authentication"})
                    BY <2>2, LoginTypes, AtTail
                <5>2. \A i \in At(toDaemon, {"Logout"}) : i >= 1 /\ i \in Nat
                    BY <2>2, LoginTypes, AtTail
                <5>3. /\ ~authenticated /\ At(toApp, Answer) = {}
                      /\ At(toDaemon, {"Logout"}) = {} => authenticated = daemonUser
                      /\ \A i \in At(toDaemon, {"Logout"}) : i < 1
                    BY <3>1, <5>1 DEF LoginPart
                <5>. QED  BY <5>2, <5>3
            <4>. QED  BY <2>1, <2>3, <4>1, LoginTypes
        <3>. QED  BY <2>2, <2>3, <3>1, <3>2, LoginTypes, LoginAnswered
    <2>. QED  BY <2>2, <2>4, <2>5 DEF LoginInv, Linked
<1>2. CASE DaemonLogsOut
    <2>1. /\ Linked /\ toDaemon # <<>> /\ toDaemon' = Tail(toDaemon)
          /\ Head(toDaemon).type = "Logout" /\ daemonUser' = FALSE
          /\ UNCHANGED <<authenticated, clean, socket, daemonUp, dialog, toApp>>
        BY <1>2 DEF DaemonLogsOut, DaemonReads, session, gui, history
    <2>2. ASSUME clean  PROVE LoginPart(authenticated, FALSE, Tail(toDaemon), toApp)
        <3>1. LoginPart(authenticated, daemonUser, toDaemon, toApp)
            BY <2>2 DEF LoginInv
        <3>. QED  BY <2>1, <3>1, LoginTypes, LogoutRead
    <2>. QED  BY <2>1, <2>2 DEF LoginInv, Linked
<1>3. CASE DaemonDeclares
    <2>1. Head(toDaemon) \in Request /\ Head(toDaemon).type = "DownloadIntention"
        BY <1>3, DaemonReadsType DEF DaemonDeclares, TypeOK
    <2>2. Head(toDaemon).torrent \in Torrent
        BY <2>1 DEF Request
    <2>3. PICK t \in Torrent, ok \in BOOLEAN : toApp' = Notified(Declared(t, ok))
        BY <1>3, <2>2 DEF DaemonDeclares
    <2>4. Declared(t, ok) \in Notification /\ Declared(t, ok).type \notin Answer
        BY DEF Declared, Notification, Answer
    <2>5. /\ DaemonReads("DownloadIntention")
          /\ UNCHANGED <<authenticated, clean, socket, daemonUp, daemonUser, dialog>>
        BY <1>3 DEF DaemonDeclares, session, gui, daemon, history
    <2>6. "DownloadIntention" \notin {"Authentication", "Logout"}
        OBVIOUS
    <2>. QED  BY <2>3, <2>4, <2>5, <2>6, DaemonLogin
<1>4. CASE DaemonTellsWallet
    <2>1. Wallet(daemonCoins) \in Notification /\ Wallet(daemonCoins).type \notin Answer
        BY DEF Wallet, Notification, Answer, TypeOK
    <2>2. /\ DaemonReads("RefreshWallet") /\ toApp' = Notified(Wallet(daemonCoins))
          /\ UNCHANGED <<authenticated, clean, socket, daemonUp, daemonUser, dialog>>
        BY <1>4 DEF DaemonTellsWallet, session, gui, daemon, history
    <2>3. "RefreshWallet" \notin {"Authentication", "Logout"}
        OBVIOUS
    <2>. QED  BY <2>1, <2>2, <2>3, DaemonLogin
<1>5. CASE DaemonRedeems
    <2>1. Wallet(0) \in Notification /\ Wallet(0).type \notin Answer
        BY DEF Wallet, Notification, Answer
    <2>2. /\ DaemonReads("RedeemValues") /\ toApp' = Notified(Wallet(0))
          /\ UNCHANGED <<authenticated, clean, socket, daemonUp, daemonUser, dialog>>
        BY <1>5 DEF DaemonRedeems, session, gui, history
    <2>3. "RedeemValues" \notin {"Authentication", "Logout"}
        OBVIOUS
    <2>. QED  BY <2>1, <2>2, <2>3, DaemonLogin
<1>6. ASSUME NEW p \in Peer, NEW n \in 1..MaxBlocks, DaemonPaid(p, n)
      PROVE  LoginInv'
    <2>1. PICK b \in Nat : toApp' = Notified(Payment(p, b))
        <3>1. daemonPaid[p] + n \in Nat
            BY PayfluxoAssumption DEF PayfluxoAssumption, TypeOK
        <3>. QED  BY <1>6, <3>1 DEF DaemonPaid
    <2>2. Payment(p, b) \in Notification /\ Payment(p, b).type \notin Answer
        BY DEF Payment, Notification, Answer
    <2>3. /\ toDaemon' = toDaemon
          /\ UNCHANGED <<authenticated, clean, socket, daemonUp, daemonUser, dialog>>
        BY <1>6 DEF DaemonPaid, session, gui, history
    <2>4. "Payment" \notin {"Authentication", "Logout"}
        OBVIOUS
    <2>. QED  BY <2>1, <2>2, <2>3, <2>4, DaemonLogin
<1>7. CASE DaemonDies
    BY <1>7 DEF DaemonDies, LoginInv, session, gui
<1>8. CASE DaemonStarts
    BY <1>8 DEF DaemonStarts, LoginInv, session, gui, history
<1>. QED  BY <1>1, <1>2, <1>3, <1>4, <1>5, <1>6, <1>7, <1>8 DEF DaemonStep

LEMMA LoginStep ==
    ASSUME TypeOK, LoginInv, [Next]_vars
    PROVE  LoginInv'
<1>1. CASE PeerStep \/ UNCHANGED vars
    <2>1. UNCHANGED logins
        BY <1>1 DEF PeerStep, BlockUploaded, IncomingRequest, UserBans, UserUnbans, logins, vars,
                    session, link, gui, daemon, history
    <2>. QED  BY <2>1 DEF logins, LoginInv
<1>2. CASE LinkStep
    BY <1>2 DEF LinkStep, Connected, SocketError, Closed, LoginInv, session, gui, daemon, history
<1>3. CASE Restart
    BY <1>3 DEF Restart, NewRun, LoginInv
<1>. QED  BY <1>1, <1>2, <1>3, UserStepLogin, TorrentStepLogin, MessageStepLogin, DaemonStepLogin
          DEF Next

\* The application agrees with the daemon on who is logged in and on the wallet, when
\* all that was said has been heard: on the first connection, and where no login was
\* sent over another one (authenticate, logout, NotifyAuthentication and the handlers of
\* payments and wallets, whatever the order of clicks, answers and failures).
THEOREM Agrees == Spec => []AgreesWithDaemon
<1>1. Init => WalletInv /\ LoginInv
    <2>. SUFFICES ASSUME Init  PROVE WalletInv /\ LoginInv
        OBVIOUS
    <2>1. WalletInv
        BY DEF Init, WalletInv, WalletSettles, Unconnected, Linked
    <2>2. LoginPart(FALSE, FALSE, <<>>, <<>>)
        BY DEF LoginPart, At
    <2>. QED  BY <2>1, <2>2 DEF Init, LoginInv
<1>2. TypeOK /\ (WalletInv /\ LoginInv) /\ [Next]_vars => (WalletInv /\ LoginInv)'
    BY WalletStep, LoginStep
<1>3. WalletInv /\ LoginInv => AgreesWithDaemon
    <2>. SUFFICES ASSUME LoginInv, clean, PendingLogins = {},
                         \A i \in DOMAIN toDaemon : toDaemon[i].type # "Logout"
                  PROVE  authenticated = daemonUser
        BY DEF WalletInv, AgreesWithDaemon, LoginsAgree
    <2>1. At(toDaemon, {"Logout"}) = {}
        BY DEF At
    <2>2. At(toApp, Answer) = {}
        BY DEF PendingLogins, At, Answer
    <2>3. LoginPart(authenticated, daemonUser, toDaemon, toApp)
        BY DEF LoginInv
    <2>. QED  BY <2>1, <2>2, <2>3 DEF LoginPart
<1>. QED  BY <1>1, <1>2, <1>3, Typing, PTL DEF Spec

=============================================================================
