----------------------------- MODULE Lifetimes -----------------------------
(* The actors of a process as the services around them see them: an address  *)
(* is alive until the actor's task ends and its channel closes (is_alive).   *)
(* What happens inside, restarts included, is not visible: see Supervision.  *)
EXTENDS Naturals, FiniteSets

CONSTANT Actors

VARIABLE alive  \* the actors whose channel is open
=============================================================================
