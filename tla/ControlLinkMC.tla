--------------------------- MODULE ControlLinkMC ---------------------------
(* A control link with few threads at each end. *)
EXTENDS ControlLink
=============================================================================
