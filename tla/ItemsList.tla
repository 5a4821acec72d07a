------------------------------ MODULE ItemsList ------------------------------
(***************************************************************************)
(* template<typename T> struct ItemsList: a sorted array with a binary     *)
(* search, allocated when it is first needed and freed when its last item  *)
(* goes.  Each operation holds the list's mutex from its first step to its *)
(* last, so one call is in progress at a time; a step here is one turn of  *)
(* a loop, or the code between two loops.                                  *)
(***************************************************************************)
EXTENDS Integers

CONSTANTS
  Values,  \* the items
  MaxNum,  \* MAX_ITEMS
  NULL     \* no buffer

ASSUME ItemsListAssumption == Values \subseteq Int /\ MaxNum \in Nat \ {0}

ASSUME NullAssumption == NULL \notin [0 .. MaxNum -> Values \cup {0}]

VARIABLES
  Items,         \* the buffer of MaxNum + 1 slots, or NULL
  ItemCount,     \* slots in use
  MaxItemCount,  \* capacity: MaxNum, or 0 without a buffer
  pc,            \* the loop the call in progress is in
  call,          \* the call in progress: operation and item
  start, stop,   \* _getItemIndex: the interval that is left to search
  indx,          \* _addItemSorted: where the item goes
  i,             \* the index of the other loops
  answer         \* the operation that returned last, and what it returned

list == <<Items, ItemCount, MaxItemCount>>
loop == <<call, start, stop, indx, i>>
vars == <<Items, ItemCount, MaxItemCount, pc, call, start, stop, indx, i, answer>>

INVALID_INDEX == -1

Searching == {"search", "searchAgain"}

\* Answers are those of the abstract set.
Answer(op, status, n, out) == [op |-> op, status |-> status, n |-> n, out |-> out]

Bool(b) == IF b THEN "TRUE" ELSE "FALSE"

Init ==
  /\ Items = NULL /\ ItemCount = 0 /\ MaxItemCount = 0
  /\ pc = "idle"
  /\ call = [op |-> "init", it |-> 0]
  /\ start = 0 /\ stop = 0 /\ indx = 0 /\ i = 0
  /\ answer = Answer("init", "TRUE", 0, {})

Returns(status) ==
  pc' = "idle" /\ answer' = Answer(call.op, status, call.it, {})

-----------------------------------------------------------------------------
(* AllocBuffer clears the buffer before it looks at the pointer, so that a *)
(* failed allocation stops the machine.                                    *)

Cleared == [j \in 0 .. MaxNum |-> 0]

\* Fault: the slot that is kept free counts as capacity.
BufferAllocatedToTheBrim ==
  IF Items # NULL THEN UNCHANGED list
  ELSE Items' = Cleared /\ ItemCount' = 0 /\ MaxItemCount' = MaxNum + 1

BufferAllocated ==
  IF Items # NULL THEN UNCHANGED list
  ELSE Items' = Cleared /\ ItemCount' = 0 /\ MaxItemCount' = MaxNum

AllocationFails ==
  /\ pc = "idle" /\ Items = NULL
  /\ \E op \in {"initItems", "canAddItem", "addItem"} : call' = [op |-> op, it |-> 0]
  /\ pc' = "bugcheck"
  /\ UNCHANGED <<list, start, stop, indx, i, answer>>

-----------------------------------------------------------------------------
(* Operations without a loop                                               *)

InitItems ==
  /\ pc = "idle"
  /\ BufferAllocated
  /\ UNCHANGED <<pc, loop, answer>>

CanAddItem ==
  /\ pc = "idle"
  /\ BufferAllocated
  /\ answer' = Answer("canAddItem", Bool(ItemCount' < MaxItemCount'), 0, {})
  /\ UNCHANGED <<pc, loop>>

CountItems ==
  /\ pc = "idle"
  /\ answer' = Answer("countItems", "n", ItemCount, {})
  /\ UNCHANGED <<list, pc, loop>>

\* As many items as the buffer of the caller has room for, from the first.
CopyItems(room) ==
  LET copied == IF room > ItemCount THEN ItemCount ELSE room
  IN  /\ pc = "idle"
      /\ answer' = Answer("copyItems", "n", copied, {Items[j] : j \in 0 .. copied - 1})
      /\ UNCHANGED <<list, pc, loop>>

Destroy ==
  /\ pc = "idle"
  /\ Items' = NULL /\ ItemCount' = 0 /\ MaxItemCount' = 0
  /\ answer' = Answer("destroy", Bool(Items # NULL), 0, {})
  /\ UNCHANGED <<pc, loop>>

-----------------------------------------------------------------------------
(* _getItemIndex: the binary search of containsItem, deleteItem, addItem   *)

\* Fault: the slots that are not in use are searched too.
SearchWholeBuffer(where) ==
  pc' = where /\ start' = 0 /\ stop' = MaxItemCount'

SearchFromStart(where) ==
  pc' = where /\ start' = 0 /\ stop' = ItemCount'

Begin(op, it) ==
  /\ pc = "idle"
  /\ call' = [op |-> op, it |-> it]
  /\ SearchFromStart("search")
  /\ UNCHANGED <<indx, i, answer>>

ContainsItem(it) == UNCHANGED list /\ Begin("containsItem", it)

DeleteItem(it) == UNCHANGED list /\ Begin("deleteItem", it)

AddItem(it) ==
  /\ Items # NULL => ItemCount < MaxItemCount
  /\ BufferAllocated
  /\ Begin("addItem", it)

AddItemFull(it) ==
  /\ pc = "idle"
  /\ Items # NULL /\ ItemCount >= MaxItemCount
  /\ answer' = Answer("addItem", "ADD_LIMIT_EXHAUSTED", it, {})
  /\ UNCHANGED <<list, pc, loop>>

mIndx == (start + stop) \div 2

\* Fault: the exclusive end is taken for an inclusive one.
SearchGoesOnBelow ==
  /\ pc \in Searching /\ start < stop
  /\ \/ Items[mIndx] < call.it /\ start' = mIndx + 1 /\ UNCHANGED stop
     \/ Items[mIndx] > call.it /\ stop' = mIndx - 1 /\ UNCHANGED start
  /\ UNCHANGED <<list, pc, call, indx, i, answer>>

\* Fault: the middle stays in the upper half.
SearchGoesOnFromMiddle ==
  /\ pc \in Searching /\ start < stop
  /\ \/ Items[mIndx] < call.it /\ start' = mIndx /\ UNCHANGED stop
     \/ Items[mIndx] > call.it /\ stop' = mIndx /\ UNCHANGED start
  /\ UNCHANGED <<list, pc, call, indx, i, answer>>

SearchGoesOn ==
  /\ pc \in Searching /\ start < stop
  /\ \/ Items[mIndx] < call.it /\ start' = mIndx + 1 /\ UNCHANGED stop
     \/ Items[mIndx] > call.it /\ stop' = mIndx /\ UNCHANGED start
  /\ UNCHANGED <<list, pc, call, indx, i, answer>>

\* What the search returns.
SearchEnds(index) ==
  \/ start < stop /\ Items[mIndx] = call.it /\ index = mIndx
  \/ start >= stop /\ index = INVALID_INDEX

Contained(index) ==
  /\ pc = "search" /\ call.op = "containsItem" /\ SearchEnds(index)
  /\ Returns(Bool(index # INVALID_INDEX))
  /\ UNCHANGED <<list, loop>>

-----------------------------------------------------------------------------
(* addItem: _addItemSorted searches once more, then linearly for the place *)

AddItemFound(index) ==
  /\ pc = "search" /\ call.op = "addItem" /\ SearchEnds(index)
  /\ IF index # INVALID_INDEX
     THEN Returns("ADD_ALREADY_EXIST") /\ UNCHANGED <<list, loop>>
     ELSE UNCHANGED <<list, call, indx, i, answer>> /\ SearchFromStart("searchAgain")

AddFirst(index) ==
  /\ pc = "searchAgain" /\ SearchEnds(index) /\ ItemCount = 0
  /\ Items' = [Items EXCEPT ![0] = call.it]
  /\ ItemCount' = 1
  /\ Returns("ADD_OK")
  /\ UNCHANGED <<MaxItemCount, loop>>

AddSorted(index) ==
  /\ pc = "searchAgain" /\ SearchEnds(index) /\ ItemCount # 0
  /\ pc' = "findFirstGreater"
  /\ i' = IF index = INVALID_INDEX THEN 0 ELSE index
  /\ UNCHANGED <<list, call, start, stop, indx, answer>>

\* Fault: the comparison is the wrong way round.
Smaller == i < ItemCount /\ Items[i] < call.it

Greater == i < ItemCount /\ Items[i] > call.it

FindFirstGreater ==
  /\ pc = "findFirstGreater" /\ i < ItemCount /\ ~Greater
  /\ i' = i + 1
  /\ UNCHANGED <<list, pc, call, start, stop, indx, answer>>

FirstGreaterFound ==
  /\ pc = "findFirstGreater" /\ (i = ItemCount \/ Greater)
  /\ IF ItemCount >= MaxItemCount
     THEN Returns("ADD_LIMIT_EXHAUSTED") /\ UNCHANGED <<list, loop>>
     ELSE /\ pc' = "shiftItemsRight"
          /\ indx' = i
          /\ i' = ItemCount
          /\ UNCHANGED <<list, call, start, stop, answer>>

ShiftItemsRight ==
  /\ pc = "shiftItemsRight" /\ i > indx
  /\ Items' = [Items EXCEPT ![i] = Items[i - 1]]
  /\ i' = i - 1
  /\ UNCHANGED <<ItemCount, MaxItemCount, pc, call, start, stop, indx, answer>>

ItemPlaced ==
  /\ pc = "shiftItemsRight" /\ i <= indx
  /\ Items' = [Items EXCEPT ![indx] = call.it]
  /\ ItemCount' = ItemCount + 1
  /\ Returns("ADD_OK")
  /\ UNCHANGED <<MaxItemCount, loop>>

-----------------------------------------------------------------------------
(* deleteItem                                                              *)

DeleteItemFound(index) ==
  /\ pc = "search" /\ call.op = "deleteItem" /\ SearchEnds(index)
  /\ IF index = INVALID_INDEX
     THEN Returns("FALSE") /\ UNCHANGED <<list, loop>>
     ELSE /\ pc' = "shiftItemsLeft"
          /\ i' = index + 1
          /\ UNCHANGED <<list, call, start, stop, indx, answer>>

ShiftItemsLeft ==
  /\ pc = "shiftItemsLeft" /\ i < ItemCount
  /\ Items' = [Items EXCEPT ![i - 1] = Items[i]]
  /\ i' = i + 1
  /\ UNCHANGED <<ItemCount, MaxItemCount, pc, call, start, stop, indx, answer>>

\* The last slot is cleared, and the buffer freed when no item is left.
ItemDropped ==
  /\ pc = "shiftItemsLeft" /\ i >= ItemCount
  /\ IF ItemCount = 1
     THEN Items' = NULL /\ ItemCount' = 0 /\ MaxItemCount' = 0
     ELSE /\ Items' = [Items EXCEPT ![ItemCount - 1] = 0]
          /\ ItemCount' = ItemCount - 1
          /\ UNCHANGED MaxItemCount
  /\ Returns("TRUE")
  /\ UNCHANGED loop

-----------------------------------------------------------------------------
Calls ==
  \/ InitItems \/ CanAddItem \/ CountItems \/ Destroy
  \/ \E room \in 0 .. MaxNum : CopyItems(room)
  \/ \E it \in Values : ContainsItem(it) \/ DeleteItem(it) \/ AddItem(it) \/ AddItemFull(it)

LoopStep ==
  \/ SearchGoesOn
  \/ \E index \in {INVALID_INDEX} \cup 0 .. MaxNum :
        \/ Contained(index) \/ AddItemFound(index)
        \/ AddFirst(index) \/ AddSorted(index) \/ DeleteItemFound(index)
  \/ FindFirstGreater \/ FirstGreaterFound
  \/ ShiftItemsRight \/ ItemPlaced
  \/ ShiftItemsLeft \/ ItemDropped

Next == Calls \/ AllocationFails \/ LoopStep

Spec == Init /\ [][Next]_vars

\* A thread that holds the mutex goes on.
FairSpec == Spec /\ WF_vars(LoopStep)

-----------------------------------------------------------------------------
\* Counters and indices are what the code's ints can be, and the buffer has
\* MaxNum + 1 slots.
TypeOK ==
  /\ Items \in [0 .. MaxNum -> Values \cup {0}] \cup {NULL}
  /\ ItemCount \in 0 .. MaxNum
  /\ MaxItemCount \in {0, MaxNum}
  /\ pc \in Searching \cup {"idle", "findFirstGreater", "shiftItemsRight",
                            "shiftItemsLeft", "bugcheck"}
  /\ call \in [op : {"init", "initItems", "canAddItem", "containsItem", "deleteItem", "addItem"},
               it : Values \cup {0}]
  /\ start \in 0 .. MaxNum /\ stop \in 0 .. MaxNum
  /\ indx \in 0 .. MaxNum /\ i \in 0 .. MaxNum

\* No loop reads or writes outside the slots in use, but for the one that
\* makes room for a new item: a buffer there is, and the index is in it.
InBounds ==
  /\ pc \in Searching /\ start < stop => Items # NULL /\ mIndx < ItemCount
  /\ pc = "shiftItemsRight" => Items # NULL /\ indx <= i /\ i <= ItemCount /\ ItemCount < MaxItemCount
  /\ pc = "shiftItemsLeft" => Items # NULL /\ 0 < i /\ i <= ItemCount
  /\ ItemCount > 0 => Items # NULL

\* Between calls the array is strictly ascending, which the next binary
\* search relies on, and a list without items keeps no stale ones.
Ascending ==
  pc = "idle" => \A j, k \in 0 .. ItemCount - 1 : j < k => Items[j] < Items[k]

\* The contents, as the callers see them: while room is made for an item, slot
\* i is the hole; an item that is being deleted is there until the call returns.
Contents ==
  CASE pc = "shiftItemsRight" -> {Items[j] : j \in (0 .. ItemCount) \ {i}}
    [] pc = "shiftItemsLeft"  -> {Items[j] : j \in 0 .. ItemCount - 1} \cup {call.it}
    [] OTHER                  -> {Items[j] : j \in 0 .. ItemCount - 1}

\* Sorted insertion, binary search and shifting deletion are those of a set.
Set == INSTANCE BoundedSet WITH items <- Contents

ImplementsBoundedSet == Set!Spec

\* Every call returns: the interval of a search shrinks, a loop comes to its
\* end.
CallsReturn == pc \notin {"idle", "bugcheck"} ~> pc = "idle"
=============================================================================
