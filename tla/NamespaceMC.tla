---------------------------- MODULE NamespaceMC ----------------------------
(* Two files, two folders that hold one file each, two calls at a time. *)
EXTENDS Namespace
=============================================================================
