---------------------------- MODULE MCItemsList ----------------------------
(* ItemsList with four slots and five items, 0 among them: the value of a  *)
(* cleared slot is an item like any other.                                 *)
EXTENDS ItemsList

MCValues == -1 .. 3
=============================================================================
