---------------------------- MODULE MCOpenFilters ----------------------------
(* OpenFilters on a small instance: PIDs, files and clients are each        *)
(* interchangeable.                                                         *)
EXTENDS OpenFilters, TLC

Symmetry == Permutations(Pids) \cup Permutations(Files) \cup Permutations(Clients)
=============================================================================
