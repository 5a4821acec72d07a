------------------------------ MODULE MCRequests ------------------------------
(* Requests on a small instance: the sizes on both sides of every boundary  *)
(* that a handler tests, and texts in which the name occurs never, as the   *)
(* suffix, before the end, or in both places.                               *)
EXTENDS Requests

MCSizes == {0, 3, 4, 5, 7, 8, 9, 12, 15, 16, 17, 23, 24, 25}

MCTexts == {[occurs |-> o, end |-> 7] : o \in SUBSET {2, 7}}
=============================================================================
