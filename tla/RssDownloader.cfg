CONSTANTS
    Service = {s1}
    Handler = {1, 2, 3}
    MaxRedirections = 1
    Feed = {f1}
    Article = {1, 2, 3, 4}
    FeedOf <- Feeds
    Url = {u1, m1, n1}
    UrlOf <- Urls
    Magnet = {m1}
    Unsupported = {n1}
    Episode = {e1}
    EpisodeOf <- Episodes1
    NoEpisode = none
    ServiceOf <- Hosts
    MaxArticles = 1
    Loaded <- AnyStart
    MaxActs = 3
    f1 = f1
    u1 = u1
    m1 = m1
    n1 = n1
    s1 = s1
    e1 = e1
    none = none
SPECIFICATION Spec
INVARIANTS DownloadsHold FeedHandlersLive JobsSettle UnreadAreQueued AddedAsAsked
PROPERTIES AllEnds
CHECK_DEADLOCK FALSE
