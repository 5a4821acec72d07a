----------------------------- MODULE MCWatchList -----------------------------
(* WatchList on a small instance: processes and files are interchangeable. *)
EXTENDS WatchList, TLC

Symmetry == Permutations(Pids) \cup Permutations(Files)
=============================================================================
