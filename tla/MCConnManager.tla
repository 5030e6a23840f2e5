--------------------------- MODULE MCConnManager ---------------------------
(* Small instances of ConnManager for TLC.                                 *)
EXTENDS ConnManager, TLC

\* Threads, connections and descriptors are interchangeable.
Symmetric == Permutations(Threads) \cup Permutations(Conns) \cup Permutations(Fds)
=============================================================================
