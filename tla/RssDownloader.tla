---------------------------- MODULE RssDownloader ----------------------------
(***************************************************************************)
(* RSS::Session, its feeds, RSS::AutoDownloader and the part of              *)
(* BitTorrent::Session that downloads torrent files by URL, over             *)
(* DownloadManager. An article is a number: a later one is more recent.      *)
(* One rule, with the smart episode filter, stands for the rules.            *)
(***************************************************************************)
EXTENDS DownloadManager

CONSTANTS
    Feed,
    Article,        \* guids: numbers in the order of the articles' dates
    FeedOf,         \* the feed of each article
    Url, UrlOf,     \* torrent URLs, and that of each article
    Magnet,         \* those that are valid magnet links
    Unsupported,    \* those that are neither, nor of a scheme that can be downloaded
    Episode, EpisodeOf, \* what computeEpisodeName finds in an article's title
    NoEpisode,      \*   when it finds none
    ServiceOf,      \* host of each feed and URL
    MaxArticles,    \* m_maxArticlesPerFeed
    Loaded,         \* lists of feeds with which the program may start
    MaxActs         \* bound: things that users, clients and the refresh timer start

ASSUME RssAssumption ==
    /\ Article \subseteq Nat /\ IsFiniteSet(Article)
    /\ FeedOf \in [Article -> Feed]
    /\ UrlOf \in [Article -> Url]
    /\ EpisodeOf \in [Article -> Episode \cup {NoEpisode}]
    /\ NoEpisode \notin Episode
    /\ Magnet \subseteq Url /\ Unsupported \subseteq Url \ Magnet
    /\ ServiceOf \in [Feed \cup Url -> Service]
    /\ Loaded \subseteq Seq(Feed)
    /\ {MaxArticles, MaxActs} \subseteq Nat

VARIABLES
    \* RSS::Session and RSS::Feed
    processing,     \* Session::m_processingEnabled
    feeds,          \* items of the root folder, in their order
    iconless,       \* feeds that will download their icon when processing is enabled
    feedHandler,    \* Feed::m_downloadHandler: a sequence of at most one
    loading,        \* m_isLoading
    parsing,        \* documents given to the parser, in its thread
    articles,       \* m_articles: those of each feed that it has, and their state
    \* RSS::AutoDownloader
    enabled,        \* m_processingEnabled
    queue,          \* m_processingQueue
    timer,          \* m_processingTimer is active
    waitingJobs,    \* m_waitingJobs: articles by URL
    rule,           \* the rule, and the list of episodes of its filter
    \* BitTorrent::Session
    params,         \* m_downloadedTorrents: URLs for which parameters wait
    \* history and bounds
    obtained,       \* URLs whose data was received
    handled,        \* articles processed, or left to a waiting job, since the last reset
    overlapped,     \* URLs that were downloaded twice at the same time
    plain,          \* URLs whose torrent was added with default parameters
    acts

rss == <<processing, feeds, iconless, feedHandler, loading, parsing, articles>>
auto == <<enabled, queue, timer, waitingJobs, rule>>
torrents == <<params, obtained, overlapped, plain>>
vars == <<manager, rss, auto, torrents, handled, acts>>

(* unread; read: marked by the downloader; seen: marked by the user *)
ArticleState == {"unread", "read", "seen"}

Present == {feeds[n] : n \in DOMAIN feeds}

\* Whom a download reports to: nobody is a feed that was removed, or its icon.
Owner == ({"feed"} \X Feed) \cup ({"torrent"} \X Url) \cup {<<"nobody">>}

Act == acts < MaxActs /\ acts' = acts + 1

\* Net::DownloadManager::hasSupportedScheme, for the URL of a torrent
Downloadable == Url \ (Magnet \cup Unsupported)

-----------------------------------------------------------------------------
(* Feeds *)

\* Feed::refresh. The download that is cancelled reports its failure at once,
\* which leaves no trace behind the new one.
Refreshed(r, f) ==
    LET cancelled == IF r.held[f] = <<>> THEN r.d ELSE Cancel(r.d, Head(r.held[f]))
    IN  [d    |-> Download(cancelled, <<"feed", f>>, ServiceOf[f]),
         held |-> [r.held EXCEPT ![f] = <<NextHandler(cancelled)>>]]

\* Folder::refresh
RefreshAll ==
    LET upto[n \in 0..Len(feeds)] ==
            IF n = 0 THEN [d |-> Manager, held |-> feedHandler] ELSE Refreshed(upto[n - 1], feeds[n])
    IN  upto[Len(feeds)]

\* Feed::downloadIcon
DownloadIcon(d, f) == Download(d, <<"nobody">>, ServiceOf[f])

\* The feeds that wait for their icons, one after another
DownloadIcons(d) ==
    LET upto[n \in 0..Len(feeds)] ==
            IF n = 0 THEN d
            ELSE IF feeds[n] \in iconless THEN DownloadIcon(upto[n - 1], feeds[n])
            ELSE upto[n - 1]
    IN  upto[Len(feeds)]

Refresh(f) ==
    /\ f \in Present
    /\ HasRoom(Manager, 1)
    /\ Act
    /\ LET r == Refreshed([d |-> Manager, held |-> feedHandler], f)
       IN  Becomes(r.d) /\ feedHandler' = r.held
    /\ loading' = loading \cup {f}
    /\ UNCHANGED <<processing, feeds, iconless, parsing, articles, auto, torrents, handled>>

\* Session::refresh, when its timer fires
RefreshTimer ==
    /\ processing
    /\ HasRoom(Manager, Len(feeds))
    /\ Act
    /\ Becomes(RefreshAll.d)
    /\ feedHandler' = RefreshAll.held
    /\ loading' = Present
    /\ UNCHANGED <<processing, feeds, iconless, parsing, articles, auto, torrents, handled>>

\* Session::setProcessingEnabled, and the feeds that wait for it
EnableProcessing ==
    /\ ~processing
    /\ HasRoom(Manager, 2 * Len(feeds))
    /\ Act
    /\ processing' = TRUE
    /\ Becomes(DownloadIcons(RefreshAll.d))
    /\ feedHandler' = RefreshAll.held
    /\ loading' = Present
    /\ iconless' = {}
    /\ UNCHANGED <<feeds, parsing, articles, auto, torrents, handled>>

\* ... which does nothing to the feeds but that they are not refreshed any more.
DisableProcessing ==
    /\ processing
    /\ Act
    /\ processing' = FALSE
    /\ UNCHANGED <<manager, feeds, iconless, feedHandler, loading, parsing, articles, auto, torrents, handled>>

\* Session::addFeed. The service is registered after the icon was asked for.
AddFeed(f) ==
    /\ f \notin Present
    /\ HasRoom(Manager, 2)
    /\ Act
    /\ feeds' = Append(feeds, f)
    /\ LET icon       == IF processing THEN DownloadIcon(Manager, f) ELSE Manager
           registered == [d    |-> [icon EXCEPT !.sequential = @ \cup {ServiceOf[f]}],
                          held |-> feedHandler]
           r          == IF processing THEN Refreshed(registered, f) ELSE registered
       IN  Becomes(r.d) /\ feedHandler' = r.held
    /\ IF processing
       THEN loading' = loading \cup {f} /\ UNCHANGED iconless
       ELSE iconless' = iconless \cup {f} /\ UNCHANGED loading
    /\ UNCHANGED <<processing, parsing, articles, auto, torrents, handled>>

\* Session::removeItem. The downloads of the feed go on, for nobody.
RemoveFeed(f) ==
    /\ f \in Present
    /\ Act
    /\ feeds' = RemoveFirst(feeds, f)
    /\ iconless' = iconless \ {f}
    /\ handler' = [i \in DOMAIN handler |->
                     IF handler[i].owner = <<"feed", f>>
                     THEN [handler[i] EXCEPT !.owner = <<"nobody">>] ELSE handler[i]]
    /\ feedHandler' = [feedHandler EXCEPT ![f] = <<>>]
    /\ loading' = loading \ {f}
    /\ parsing' = [parsing EXCEPT ![f] = 0]
    /\ articles' = [articles EXCEPT ![f] = << >>]
    /\ handled' = {a \in handled : FeedOf[a] # f}
    /\ UNCHANGED <<waiting, busy, sequential, orphaned, processing, auto, torrents>>

-----------------------------------------------------------------------------
(* AutoDownloader *)

Unread == {a \in Article : a \in DOMAIN articles[FeedOf[a]] /\ articles[FeedOf[a]][a] = "unread"}

\* addJobForArticle, for one article after another
Queued(q, as) ==
    LET upto[n \in 0..Len(as)] ==
            IF n = 0 THEN q
            ELSE IF waitingJobs[UrlOf[as[n]]] # <<>> THEN upto[n - 1]
            ELSE Append(upto[n - 1], as[n])
    IN  upto[Len(as)]

\* Mutated form: the timer is not started.
AddJobsUntimed(q, as) == queue' = Queued(q, as) /\ UNCHANGED timer

AddJobs(q, as) ==
    /\ queue' = Queued(q, as)
    /\ timer' = (timer \/ \E n \in DOMAIN as : waitingJobs[UrlOf[as[n]]] = <<>>)

OldestFirst(S) ==
    CHOOSE s \in [1..Cardinality(S) -> S] : \A i, j \in DOMAIN s : i < j => s[i] < s[j]

\* Most recent first, as rootFolder()->articles() has them
RecentFirst(S) == Reverse(OldestFirst(S))

\* resetProcessingQueue, while processing is enabled
ResetProcessingQueue ==
    /\ AddJobs(<<>>, RecentFirst(Unread))
    /\ handled' = {a \in Unread : waitingJobs[UrlOf[a]] # <<>>}

SetProcessingEnabled ==
    /\ Act
    /\ enabled' = ~enabled
    /\ IF enabled THEN queue' = <<>> /\ UNCHANGED <<timer, handled>>
       ELSE ResetProcessingQueue
    /\ UNCHANGED <<manager, rss, waitingJobs, rule, torrents>>

(* insertRule with a changed copy of the rule: it may have been switched, its
   list cleared, and it has what was computed if it was copied, not read. A
   copy that differs in its lists only is taken to be equal, and left. *)
InsertRule ==
    /\ Act
    /\ \E on \in BOOLEAN, episodes \in {{}, rule.matched}, computed \in {{}, rule.computed} :
          rule' = [enabled |-> on, matched |-> episodes, computed |-> computed]
    /\ IF enabled THEN ResetProcessingQueue
       ELSE queue' = <<>> /\ UNCHANGED <<timer, handled>>
    /\ UNCHANGED <<manager, rss, enabled, waitingJobs, torrents>>

Episodes(a) == {EpisodeOf[a]} \ {NoEpisode}

Matches(a) == Episodes(a) \cap rule.matched = {}

(* matchingArticles: matches() is called for the articles of a feed, and leaves
   what it computed in the rule. *)
MatchingArticles(f) ==
    /\ f \in Present
    /\ rule' = [rule EXCEPT !.computed =
                    @ \cup UNION {Episodes(a) : a \in {b \in DOMAIN articles[f] : Matches(b)}}]
    /\ UNCHANGED <<manager, rss, enabled, queue, timer, waitingJobs, torrents, handled, acts>>

\* AutoDownloadRule::accepts
Accepted(a) ==
    [rule EXCEPT !.computed = {}, !.matched = @ \cup rule.computed \cup Episodes(a)]

MarkAsRead(S) ==
    articles' = [f \in Feed |-> [a \in DOMAIN articles[f] |->
                     IF a \in S /\ articles[f][a] = "unread" THEN "read" ELSE articles[f][a]]]

\* Mutated form: the parameters are not stored.
AddTorrentByUrlDefault(u) ==
    /\ HasRoom(Manager, 1)
    /\ Becomes(Download(Manager, <<"torrent", u>>, ServiceOf[u]))
    /\ UNCHANGED torrents

\* BitTorrent::Session::addTorrent, for a URL that is downloaded
AddTorrentByUrl(u) ==
    /\ HasRoom(Manager, 1)
    /\ Becomes(Download(Manager, <<"torrent", u>>, ServiceOf[u]))
    /\ params' = params \cup {u}
    /\ overlapped' = IF \E i \in DOMAIN handler : handler[i].owner = <<"torrent", u>> /\ Live(handler[i])
                     THEN overlapped \cup {u} ELSE overlapped
    /\ UNCHANGED <<obtained, plain>>

\* The user, or a client, adds a torrent by its URL.
AddTorrent(u) ==
    /\ u \in Downloadable
    /\ Act
    /\ AddTorrentByUrl(u)
    /\ UNCHANGED <<rss, auto, handled>>

\* process, whose queue is empty when processing was disabled
ProcessNothing ==
    /\ timer /\ queue = <<>>
    /\ timer' = FALSE
    /\ UNCHANGED <<manager, rss, enabled, queue, waitingJobs, rule, torrents, handled, acts>>

(* process and processJob. addTorrent takes what it cannot download for the name
   of a torrent file; that there is none is not looked at, and the job waits. *)
Process ==
    /\ timer /\ queue # <<>>
    /\ LET a == Head(queue)
           u == UrlOf[a]
           accepted == rule.enabled /\ Matches(a)
       IN  /\ queue' = Tail(queue)
           /\ timer' = (Tail(queue) # <<>>)
           /\ handled' = handled \cup {a}
           /\ rule' = IF accepted THEN Accepted(a) ELSE rule
           /\ CASE ~accepted -> UNCHANGED <<manager, articles, waitingJobs, torrents>>
                [] accepted /\ u \in Magnet ->
                     /\ MarkAsRead({a})
                     /\ obtained' = obtained \cup {u}
                     /\ UNCHANGED <<manager, waitingJobs, params, overlapped, plain>>
                [] accepted /\ u \in Downloadable ->
                     /\ AddTorrentByUrl(u)
                     /\ waitingJobs' = [waitingJobs EXCEPT ![u] = <<a>>]
                     /\ UNCHANGED articles
                [] accepted /\ u \in Unsupported ->
                     /\ waitingJobs' = [waitingJobs EXCEPT ![u] = <<a>>]
                     /\ UNCHANGED <<manager, articles, torrents>>
    /\ UNCHANGED <<processing, feeds, iconless, feedHandler, loading, parsing, enabled, acts>>

-----------------------------------------------------------------------------
(* Answers *)

\* The user, or a client, marks an article as read.
ReadArticle(a) ==
    /\ a \in Unread
    /\ articles' = [articles EXCEPT ![FeedOf[a]][a] = "seen"]
    /\ UNCHANGED <<manager, processing, feeds, iconless, feedHandler, loading, parsing, auto,
                   torrents, handled, acts>>

\* Mutated form: m_downloadHandler is not reset.
FeedDownloadFinishedHolds(f, success) ==
    /\ IF success THEN parsing' = [parsing EXCEPT ![f] = @ + 1] /\ UNCHANGED loading
       ELSE loading' = loading \ {f} /\ UNCHANGED parsing
    /\ UNCHANGED <<feedHandler, articles, waitingJobs, torrents>>

\* Mutated form: after an error the feed goes on loading.
FeedDownloadFinishedLoads(f, success) ==
    /\ feedHandler' = [feedHandler EXCEPT ![f] = <<>>]
    /\ parsing' = [parsing EXCEPT ![f] = IF success THEN @ + 1 ELSE @]
    /\ UNCHANGED <<loading, articles, waitingJobs, torrents>>

\* Feed::handleDownloadFinished
FeedDownloadFinished(f, success) ==
    /\ feedHandler' = [feedHandler EXCEPT ![f] = <<>>]
    /\ IF success THEN parsing' = [parsing EXCEPT ![f] = @ + 1] /\ UNCHANGED loading
       ELSE loading' = loading \ {f} /\ UNCHANGED parsing
    /\ UNCHANGED <<articles, waitingJobs, torrents>>

\* Mutated form: the job of a download that failed is kept.
TorrentDownloadFinishedKeeps(u, success) ==
    /\ IF success
       THEN /\ waitingJobs' = [waitingJobs EXCEPT ![u] = <<>>]
            /\ MarkAsRead(ToSet(waitingJobs[u]))
            /\ obtained' = obtained \cup {u}
            /\ params' = params \ {u}
       ELSE UNCHANGED <<waitingJobs, articles, obtained, params>>
    /\ UNCHANGED <<feedHandler, loading, parsing, overlapped, plain>>

(* BitTorrent::Session::handleDownloadFinished. The downloader is told that it
   was finished before the data is looked at, which may not be a torrent's. *)
TorrentDownloadFinished(u, success) ==
    /\ waitingJobs' = [waitingJobs EXCEPT ![u] = <<>>]
    /\ IF success
       THEN /\ MarkAsRead(ToSet(waitingJobs[u]))
            /\ obtained' = obtained \cup {u}
            /\ params' = params \ {u}
            /\ \E valid \in BOOLEAN :
                  plain' = IF valid /\ u \notin params THEN plain \cup {u} ELSE plain
       ELSE UNCHANGED <<articles, obtained, params, plain>>
    /\ UNCHANGED <<feedHandler, loading, parsing, overlapped>>

\* The owner of a handler is told that it has finished.
Finished(owner, success, magnet) ==
    CASE owner[1] = "feed"    -> FeedDownloadFinished(owner[2], success)
      [] owner[1] = "torrent" -> TorrentDownloadFinished(owner[2], success \/ magnet)
      [] OTHER -> UNCHANGED <<feedHandler, loading, parsing, articles, waitingJobs, torrents>>

(* The reply of i ends: with data, with an error (one that is too large ends
   twice, to the same effect), or with a redirection, to a magnet link too. *)
ReplyFinished(i) ==
    /\ i \in DOMAIN handler /\ handler[i].state = "running"
    /\ \/ \E success \in BOOLEAN :
             /\ Becomes(ReplyEnds(Manager, i))
             /\ Finished(handler[i].owner, success, FALSE)
       \/ /\ handler[i].redirections < MaxRedirections
          /\ Becomes(ReplyEnds(Manager, i))
          /\ Finished(handler[i].owner, FALSE, TRUE)
       \/ \E s \in Service :
             /\ Becomes(HandleRedirection(Manager, i, s))
             /\ IF handler[i].redirections < MaxRedirections
                THEN UNCHANGED <<feedHandler, loading, parsing, articles, waitingJobs, torrents>>
                ELSE Finished(handler[i].owner, FALSE, FALSE)
    /\ UNCHANGED <<processing, feeds, iconless, enabled, queue, timer, rule, handled, acts>>

\* The event loop comes to the deferred deletion of a handler.
Destroy(i) ==
    /\ i \in DOMAIN handler /\ ~Live(handler[i])
    /\ Becomes(Destroyed(Manager, i))
    /\ UNCHANGED <<rss, auto, torrents, handled, acts>>

\* The most recent of the articles S
Kept(S) == {a \in S : Cardinality({b \in S : b > a}) < MaxArticles}

(* Feed::handleParsingFinished and updateArticles: those of the document doc
   that are new and recent enough are added, the oldest first, and the
   downloader is told of each. *)
HandleParsingFinished(f) ==
    /\ parsing[f] > 0
    /\ parsing' = [parsing EXCEPT ![f] = @ - 1]
    /\ loading' = loading \ {f}
    /\ \E doc \in SUBSET {a \in Article : FeedOf[a] = f} :
          LET had  == DOMAIN articles[f]
              kept == Kept(had \cup doc)
              new  == OldestFirst(kept \ had)
          IN  /\ articles' = [articles EXCEPT ![f] =
                                [a \in kept |-> IF a \in had THEN articles[f][a] ELSE "unread"]]
              /\ IF enabled
                 THEN /\ AddJobs(queue, new)
                      /\ handled' = {a \in handled \cup kept :
                                        /\ FeedOf[a] = f => a \in kept
                                        /\ a \in handled \/ (a \in kept \ had /\ waitingJobs[UrlOf[a]] # <<>>)}
                 ELSE UNCHANGED <<queue, timer, handled>>
    /\ UNCHANGED <<manager, processing, feeds, iconless, feedHandler, enabled, waitingJobs, rule,
                   torrents, acts>>

-----------------------------------------------------------------------------

(* The program has started, with the feeds that it had, and without articles;
   feeds are not refreshed. *)
Init ==
    /\ ManagerInit
    /\ feeds \in Loaded
    /\ sequential = {ServiceOf[f] : f \in Present}
    /\ iconless = Present
    /\ processing = FALSE
    /\ feedHandler = [f \in Feed |-> <<>>]
    /\ loading = {}
    /\ parsing = [f \in Feed |-> 0]
    /\ articles = [f \in Feed |-> << >>]
    /\ enabled \in BOOLEAN
    /\ queue = <<>>
    /\ timer = FALSE
    /\ waitingJobs = [u \in Url |-> <<>>]
    /\ rule = [enabled |-> TRUE, matched |-> {}, computed |-> {}]
    /\ params = {}
    /\ obtained = {}
    /\ handled = {}
    /\ overlapped = {}
    /\ plain = {}
    /\ acts = 0

UserStep ==
    \/ \E f \in Feed : Refresh(f) \/ AddFeed(f) \/ RemoveFeed(f) \/ MatchingArticles(f)
    \/ RefreshTimer \/ EnableProcessing \/ DisableProcessing \/ SetProcessingEnabled
    \/ InsertRule
    \/ \E u \in Url : AddTorrent(u)
    \/ \E a \in Article : ReadArticle(a)

Next ==
    \/ UserStep
    \/ ProcessNothing \/ Process
    \/ \E i \in Handler : ReplyFinished(i) \/ Destroy(i)
    \/ \E f \in Feed : HandleParsingFinished(f)

(* The timer of the queue fires, the network answers or fails, the event loop
   deletes what it was told to, and the parser's thread works. *)
Fairness ==
    /\ WF_vars(ProcessNothing \/ Process)
    /\ \A i \in Handler : WF_vars(ReplyFinished(i)) /\ WF_vars(Destroy(i))
    /\ \A f \in Feed : WF_vars(HandleParsingFinished(f))

Spec == Init /\ [][Next]_vars /\ Fairness

-----------------------------------------------------------------------------
(* Properties *)

\* Types.
TypeOK ==
    /\ ManagerTypeOK(Owner)
    /\ processing \in BOOLEAN /\ enabled \in BOOLEAN /\ timer \in BOOLEAN
    /\ feeds \in Seq(Feed)
    /\ iconless \subseteq Present /\ loading \subseteq Present
    /\ feedHandler \in [Feed -> {<<>>} \cup {<<i>> : i \in Handler}]
    /\ parsing \in [Feed -> Nat]
    /\ \A f \in Feed :
          /\ DOMAIN articles[f] \subseteq {a \in Article : FeedOf[a] = f}
          /\ Cardinality(DOMAIN articles[f]) <= MaxArticles
          /\ \A a \in DOMAIN articles[f] : articles[f][a] \in ArticleState
    /\ queue \in Seq(Article)
    /\ waitingJobs \in [Url -> {<<>>} \cup {<<a>> : a \in Article}]
    /\ rule \in [enabled: BOOLEAN, matched: SUBSET Episode, computed: SUBSET Episode]
    /\ params \subseteq Url /\ obtained \subseteq Url /\ overlapped \subseteq Url /\ plain \subseteq Url
    /\ handled \subseteq Article

\* The manager is well typed and serves what waits, over all that its clients do.
DownloadsHold == TypeOK /\ WaitersAreServed

(* The handler that a feed keeps, to cancel it, exists, has not ended, and
   works for that feed (rss_feed.cpp:131-134, 171). *)
FeedHandlersLive ==
    \A f \in Feed : feedHandler[f] # <<>> =>
        LET i == feedHandler[f][1]
        IN  /\ f \in Present
            /\ i \in DOMAIN handler
            /\ Live(handler[i])
            /\ handler[i].owner = <<"feed", f>>

(* A job waits for a URL that can be downloaded only while it is: otherwise
   addJobForArticle would refuse its articles for good (rss_autodownloader.cpp:373).
   It does refuse those of a URL that cannot: see Process. *)
JobsAreDownloading ==
    \A u \in Downloadable : waitingJobs[u] # <<>> =>
        \E i \in DOMAIN handler : handler[i].owner = <<"torrent", u>> /\ Live(handler[i])

\* The downloader marks an article as read only when its torrent's data was received.
ReadAreObtained ==
    \A f \in Feed : \A a \in DOMAIN articles[f] :
        articles[f][a] = "read" => UrlOf[a] \in obtained

(* A job is settled by the end of its download, and by no other end than the
   one it waits for: neither is it forgotten nor is its article read too early. *)
JobsSettle == JobsAreDownloading /\ ReadAreObtained

(* While the downloader is enabled, an unread article is in its queue or was
   looked at since the queue was last made anew; and a queue has its timer. *)
UnreadAreQueued ==
    /\ enabled => Unread \subseteq ToSet(queue) \cup handled
    /\ queue # <<>> => timer

(* A torrent that was downloaded by URL is added with the parameters of someone
   who asked for it, unless the URL was asked for again in the meantime. *)
AddedAsAsked == plain \subseteq overlapped

Stuck == orphaned # {}

\* Every download ends, if no service is stuck.
DownloadsEnd == \A i \in Handler : (i \in DOMAIN handler) ~> (i \notin DOMAIN handler \/ Stuck)

\* A feed does not load for ever, if no service is stuck.
LoadingEnds == \A f \in Feed : (f \in loading) ~> (f \notin loading \/ Stuck)

\* What is queued is looked at, if no service is stuck.
QueueIsProcessed == (queue # <<>>) ~> (queue = <<>> \/ Stuck)

\* What has begun ends: downloads, loading of feeds, the work of the downloader.
AllEnds == DownloadsEnd /\ LoadingEnds /\ QueueIsProcessed

=============================================================================
