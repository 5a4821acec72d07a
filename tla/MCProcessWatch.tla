--------------------------- MODULE MCProcessWatch ---------------------------
(* ProcessWatch on small instances: PIDs, files and clients are each        *)
(* interchangeable, as long as no liveness property is checked.             *)
EXTENDS ProcessWatch, TLC

Symmetry == Permutations(Pids) \cup Permutations(Files) \cup Permutations(Clients)
=============================================================================
