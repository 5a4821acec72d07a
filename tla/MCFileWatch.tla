----------------------------- MODULE MCFileWatch -----------------------------
(* FileWatch on a small instance: processes and files are interchangeable. *)
EXTENDS FileWatch, TLC

Symmetry == Permutations(Pids) \cup Permutations(Files)

Opens(disp, write, execute) == [disp |-> disp, write |-> write, execute |-> execute]

\* The ways to open a file that lead through each part of the callbacks:
\* "overwriteIf" creates what "create" would and overwrites what "overwrite"
\* would, "openIf" is "create" or "open" as the file system sees it, and "open"
\* for writing leads to the test of the owner as any disposition would.
MCRequests == {Opens("open", TRUE, TRUE), Opens("overwriteIf", FALSE, FALSE)}

\* The open that creates a file only when there is none.
MCOpenIf == {Opens("openIf", TRUE, FALSE)}

\* Bound: of two files both are there only for one process that does one thing
\* at a time, enough for a tree to keep one of them for the other; and a request
\* of the client meets one process at a time that has or uses a file.
FewAtATime ==
  LET inPlay == {f \in Files : disk[f] # "unborn" \/ \E p \in Actors : io[p].file = f}
      users  == {p \in Pids : io[p] # Idle \/ \E h \in handles : h.by = p}
      active == users \cup {p \in Pids : ContainsProcess(nodes, p)}
  IN  \/ /\ Cardinality(inPlay) <= 1
         /\ io[Client] # Idle => Cardinality(users) <= 1
      \/ /\ Cardinality(active) <= 1 /\ Cardinality({q \in Actors : io[q] # Idle}) <= 1
         /\ Cardinality(handles) <= 1 /\ Len(nodes) <= 1
=============================================================================
