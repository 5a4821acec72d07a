----------------------------- MODULE BoundedSet -----------------------------
(***************************************************************************)
(* What an ItemsList promises: a set of at most MaxNum items, whose        *)
(* operations answer at once.                                              *)
(***************************************************************************)
EXTENDS Integers, FiniteSets

CONSTANTS
  Values,  \* the items: unsigned PIDs or signed file identifiers
  MaxNum   \* capacity of the list (MAX_ITEMS)

VARIABLES
  items,   \* the set
  answer   \* the operation that returned last, and what it returned

\* status is the value returned, or "n" when it is the number n; out is what
\* is left in the caller's buffer.
Answer(op, status, n, out) == [op |-> op, status |-> status, n |-> n, out |-> out]

Bool(b) == IF b THEN "TRUE" ELSE "FALSE"

\* The k smallest items.
Smallest(k) == {it \in items : Cardinality({x \in items : x < it}) < k}

Init == items = {} /\ answer = Answer("init", "TRUE", 0, {})

AddItem(it) ==
  LET status == IF Cardinality(items) = MaxNum THEN "ADD_LIMIT_EXHAUSTED"
                ELSE IF it \in items THEN "ADD_ALREADY_EXIST"
                ELSE "ADD_OK"
  IN  /\ items' = IF status = "ADD_OK" THEN items \cup {it} ELSE items
      /\ answer' = Answer("addItem", status, it, {})

DeleteItem(it) ==
  /\ items' = items \ {it}
  /\ answer' = Answer("deleteItem", Bool(it \in items), it, {})

ContainsItem(it) ==
  /\ answer' = Answer("containsItem", Bool(it \in items), it, {})
  /\ UNCHANGED items

CanAddItem ==
  /\ answer' = Answer("canAddItem", Bool(Cardinality(items) < MaxNum), 0, {})
  /\ UNCHANGED items

CountItems ==
  /\ answer' = Answer("countItems", "n", Cardinality(items), {})
  /\ UNCHANGED items

CopyItems(room) ==
  /\ answer' = Answer("copyItems", "n", Cardinality(Smallest(room)), Smallest(room))
  /\ UNCHANGED items

Destroy ==
  /\ items' = {}
  /\ answer'.op = "destroy"

Next ==
  \/ \E it \in Values : AddItem(it) \/ DeleteItem(it) \/ ContainsItem(it)
  \/ CanAddItem
  \/ CountItems
  \/ \E room \in 0 .. MaxNum : CopyItems(room)
  \/ Destroy

Spec == Init /\ [][Next]_<<items, answer>>
=============================================================================
