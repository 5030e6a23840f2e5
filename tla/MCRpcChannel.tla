---------------------------- MODULE MCRpcChannel ----------------------------
(* Small instances of RpcChannel for TLC.                                  *)
EXTENDS RpcChannel, TLC

Symmetric == Permutations(Callers) \cup Permutations(Addrs)
=============================================================================
