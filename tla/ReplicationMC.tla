--------------------------- MODULE ReplicationMC ---------------------------
(* Two storage servers. *)
EXTENDS Replication
=============================================================================
