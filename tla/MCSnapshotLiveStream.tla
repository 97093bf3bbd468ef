------------------------ MODULE MCSnapshotLiveStream ------------------------
(* Small instances of SnapshotLiveStream. *)
EXTENDS SnapshotLiveStream
=============================================================================
