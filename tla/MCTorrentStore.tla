--------------------------- MODULE MCTorrentStore ---------------------------
(* Small instances of TorrentStore for TLC. *)
EXTENDS TorrentStore
=============================================================================
