--------------------------- MODULE SupervisionMC ---------------------------
(* Small instances of Supervision for TLC. *)
EXTENDS Supervision, TLC

\* Actors are interchangeable: no action tells one id from another.
Symmetry == Permutations(Actors)
=============================================================================
