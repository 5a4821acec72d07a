----------------------------- MODULE MCNodeArray -----------------------------
(* NodeArray on a small instance, with one heap block to spare; the blocks  *)
(* are ordered, processes and files are interchangeable.                    *)
EXTENDS NodeArray, TLC

MCCells == 1 .. 2 * MaxNodes + 1

Symmetry == Permutations(Pids) \cup Permutations(Files)
=============================================================================
