--------------------------- MODULE MCRssDownloader ---------------------------
(* A small instance of RssDownloader for TLC: a feed whose icon, document and
   one torrent file are on the same host; a later article has a magnet link, and
   another a link that cannot be downloaded. *)
EXTENDS RssDownloader

CONSTANTS f1, u1, m1, n1, s1, e1, none

Feeds    == <<f1, f1, f1, f1>>
Urls     == <<u1, m1, n1, u1>>
Episodes1 == <<e1, none, none, e1>>
Hosts    == [x \in {f1, u1, m1, n1} |-> s1]
AnyStart == {<<>>, <<f1>>}

=============================================================================
