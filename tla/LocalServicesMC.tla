-------------------------- MODULE LocalServicesMC --------------------------
(* Two actors, a and b; both timers belong to a.                             *)
EXTENDS LocalServices

CONSTANT a

MCOwner == [t \in Timers |-> a]
=============================================================================
