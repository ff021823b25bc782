------------------------------ MODULE GossipMC ------------------------------
(* Three nodes.  Only a gossips, with b and, once b has told of it, with c,   *)
(* which may register an actor.                                             *)
EXTENDS Gossip

CONSTANTS a, b, c, x

MCHosts == [y \in Actors |-> {c}]

MCSeeds == {<<a, b>>, <<b, c>>}
=============================================================================
