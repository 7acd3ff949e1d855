---------------------------- MODULE NMMetadataMC ----------------------------
(* Small instances of the naming server's metadata. *)
EXTENDS NMMetadata, TLC

Alike == Permutations(Metas) \cup Permutations(Threads)
           \cup Permutations(Users) \cup Permutations(Files)
=============================================================================
