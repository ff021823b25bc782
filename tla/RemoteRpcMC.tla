---------------------------- MODULE RemoteRpcMC ----------------------------
(* Instances of RemoteRpc for TLC: plain requests are interchangeable. *)
EXTENDS RemoteRpc, TLC

Symmetry == Permutations(PlainAsks)
=============================================================================
