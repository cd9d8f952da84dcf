----------------------------- MODULE MCSyncData -----------------------------
(* A small instance of SyncData for TLC. Between the snapshots a torrent
   changes in part, appears and goes, and so do tags and trackers. *)
EXTENDS SyncData, TLC

CONSTANTS a, t1, t2

Row(p) == [name |-> 1, progress |-> p]

Some  == [torrents |-> t1 :> Row(1), tags |-> {}, trackers |-> "k" :> {t1}]
More  == [torrents |-> (t1 :> Row(2)) @@ (t2 :> Row(1)), tags |-> {"g"}, trackers |-> "k" :> {t1, t2}]
Fewer == [torrents |-> t2 :> Row(1), tags |-> {"g"}, trackers |-> << >>]

Snapshots == {Some, More, Fewer}

=============================================================================
