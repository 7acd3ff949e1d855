-------------------------- MODULE ClientRegistryMC --------------------------
(* Two programs that leave and join again, a registry with room for two. *)
EXTENDS ClientRegistry, TLC
CONSTANTS c1, c2, u1, u2
Names == c1 :> u1 @@ c2 :> u2
=============================================================================
