------------------------- MODULE MCTorrentLifecycle -------------------------
(* Small instances of TorrentLifecycle for TLC. *)
EXTENDS TorrentLifecycle

CONSTANTS t1, t2

=============================================================================
