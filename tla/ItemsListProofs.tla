--------------------------- MODULE ItemsListProofs ---------------------------
(***************************************************************************)
(* Theorems about the sorted array, for every capacity and every set of    *)
(* integers: its indices stay in the buffer and it is ascending between    *)
(* calls.  The invariant says of each loop what it has established so far: *)
(* the part of the array that a search has excluded, the slots before the  *)
(* place of a new item, the slot that a shift leaves free.                 *)
(***************************************************************************)
EXTENDS ItemsList, FiniteSetTheorems, TLAPS

\* The slots that hold an item: a shift has one that does not.
Slots ==
  CASE pc = "shiftItemsRight" -> (0 .. ItemCount) \ {i}
    [] pc = "shiftItemsLeft"  -> (0 .. ItemCount - 1) \ {i - 1}
    [] OTHER                  -> 0 .. ItemCount - 1

BufferSound ==
  /\ Items = NULL <=> MaxItemCount = 0
  /\ Items = NULL => ItemCount = 0

Sorted == \A j, k \in Slots : j < k => Items[j] < Items[k]

\* What is left of the interval is where the item may be.
Searched ==
  pc \in Searching =>
    /\ start <= ItemCount /\ stop <= ItemCount
    /\ \A j \in Slots : /\ j < start => Items[j] < call.it
                        /\ j >= stop => Items[j] > call.it
    /\ call.op \in {"containsItem", "deleteItem", "addItem"}
    /\ call.op = "addItem" => Items # NULL /\ ItemCount < MaxItemCount

\* An item is added after a search that has not found it, and there is room.
Added ==
  pc \in {"searchAgain", "findFirstGreater", "shiftItemsRight"} =>
    /\ call.op = "addItem"
    /\ Items # NULL /\ ItemCount < MaxItemCount
    /\ \A j \in Slots : Items[j] # call.it

Passed ==
  pc = "findFirstGreater" =>
    /\ i <= ItemCount
    /\ \A j \in Slots : j < i => Items[j] < call.it

ShiftedRight ==
  pc = "shiftItemsRight" =>
    /\ indx <= i /\ i <= ItemCount
    /\ \A j \in Slots : /\ j < indx => Items[j] < call.it
                        /\ j >= indx => Items[j] > call.it

\* The free slot still holds what was in it: the item, or a copy of the slot
\* before.
ShiftedLeft ==
  pc = "shiftItemsLeft" =>
    /\ call.op = "deleteItem"
    /\ Items # NULL
    /\ 0 < i /\ i <= ItemCount
    /\ \A j \in Slots : Items[j] # call.it
    /\ Items[i - 1] = call.it \/ (i > 1 /\ Items[i - 1] = Items[i - 2])

IInv ==
  /\ TypeOK
  /\ BufferSound
  /\ Sorted
  /\ Searched
  /\ Added
  /\ Passed
  /\ ShiftedRight
  /\ ShiftedLeft

-----------------------------------------------------------------------------
(* What the steps have in common                                           *)

LEMMA MiddleIsBetween ==
  ASSUME NEW a \in Nat, NEW b \in Nat, a < b
  PROVE  (a + b) \div 2 \in a .. b - 1
BY SMT

\* The slots of a search are those in use, and the middle is one of them.
LEMMA MiddleIsSlot ==
  ASSUME IInv, pc \in Searching, start < stop
  PROVE  /\ mIndx \in start .. stop - 1
         /\ mIndx \in Slots
         /\ Items # NULL
<1>1. start \in Nat /\ stop \in Nat /\ ItemCount \in Nat
  BY ItemsListAssumption DEF IInv, TypeOK
<1>2. mIndx \in start .. stop - 1
  BY <1>1, MiddleIsBetween DEF mIndx
<1>3. stop <= ItemCount /\ Slots = 0 .. ItemCount - 1
  BY DEF IInv, Searched, Searching, Slots
<1>. QED
  BY <1>1, <1>2, <1>3 DEF IInv, BufferSound

\* Items are integers.
LEMMA ItemsAreIntegers ==
  ASSUME IInv
  PROVE  /\ Items # NULL => \A j \in 0 .. MaxNum : Items[j] \in Int
         /\ \A j \in 0 .. ItemCount - 1 : Items[j] \in Int
         /\ call.it \in Int
<1>1. \A v \in Values \cup {0} : v \in Int
  BY ItemsListAssumption
<1>2. call.it \in Values \cup {0}
  BY DEF IInv, TypeOK
<1>3. Items # NULL => \A j \in 0 .. MaxNum : Items[j] \in Values \cup {0}
  BY DEF IInv, TypeOK
<1>4. ItemCount \in 0 .. MaxNum /\ (Items = NULL => ItemCount = 0)
  BY DEF IInv, TypeOK, BufferSound
<1>5. \A j \in 0 .. ItemCount - 1 : j \in 0 .. MaxNum /\ Items # NULL
  BY <1>4, ItemsListAssumption
<1>. QED
  BY <1>1, <1>2, <1>3, <1>5

LEMMA InitInv == Init => IInv
BY ItemsListAssumption DEF Init, IInv, TypeOK, BufferSound, Sorted, Searched, Added, Passed,
   ShiftedRight, ShiftedLeft, Slots, Searching

\* A buffer that is there stays; a new one has no items.
LEMMA BufferThere ==
  ASSUME IInv, BufferAllocated
  PROVE  /\ Items' \in [0 .. MaxNum -> Values \cup {0}]
         /\ ItemCount' = ItemCount /\ MaxItemCount' = MaxNum
         /\ Items' # NULL
         /\ ItemCount # 0 => Items' = Items
<1>1. Cleared \in [0 .. MaxNum -> Values \cup {0}]
  BY DEF Cleared
<1>. QED
  BY <1>1, NullAssumption, ItemsListAssumption DEF BufferAllocated, list, IInv, BufferSound, TypeOK

-----------------------------------------------------------------------------
(* The operations without a loop, and the beginning of the others          *)

\* A call that answers at once leaves a sorted array with as many items.
LEMMA IdleInv ==
  ASSUME IInv, pc = "idle", pc' = "idle", UNCHANGED loop,
         Items' \in [0 .. MaxNum -> Values \cup {0}] \cup {NULL},
         ItemCount' \in 0 .. MaxNum, MaxItemCount' \in {0, MaxNum},
         ItemCount' # 0 => ItemCount' = ItemCount /\ Items' = Items,
         Items' = NULL <=> MaxItemCount' = 0,
         Items' = NULL => ItemCount' = 0
  PROVE  IInv'
BY ItemsListAssumption DEF IInv, TypeOK, BufferSound, Sorted, Searched, Added, Passed,
   ShiftedRight, ShiftedLeft, Slots, Searching, loop

LEMMA InitItemsInv == IInv /\ InitItems => IInv'
<1>. SUFFICES ASSUME IInv, InitItems PROVE IInv'
  OBVIOUS
<1>1. BufferAllocated
  BY DEF InitItems
<1>. QED
  BY <1>1, BufferThere, IdleInv, ItemsListAssumption DEF InitItems, IInv, TypeOK

LEMMA CanAddItemInv == IInv /\ CanAddItem => IInv'
<1>. SUFFICES ASSUME IInv, CanAddItem PROVE IInv'
  OBVIOUS
<1>1. BufferAllocated
  BY DEF CanAddItem
<1>. QED
  BY <1>1, BufferThere, IdleInv, ItemsListAssumption DEF CanAddItem, IInv, TypeOK

LEMMA QueryInv ==
  ASSUME IInv, pc = "idle", UNCHANGED <<list, pc, loop>>
  PROVE  IInv'
BY IdleInv DEF list, IInv, TypeOK, BufferSound

LEMMA DestroyInv == IInv /\ Destroy => IInv'
BY IdleInv, ItemsListAssumption DEF Destroy

LEMMA BeginInv ==
  ASSUME IInv, NEW it \in Values,
         NEW op \in {"containsItem", "deleteItem", "addItem"}, Begin(op, it),
         \/ UNCHANGED list /\ op # "addItem"
         \/ BufferAllocated /\ (Items # NULL => ItemCount < MaxItemCount)
  PROVE  IInv'
<1>1. /\ Items' \in [0 .. MaxNum -> Values \cup {0}] \cup {NULL}
      /\ ItemCount' = ItemCount /\ MaxItemCount' \in {0, MaxNum}
      /\ ItemCount # 0 => Items' = Items
      /\ Items' = NULL <=> MaxItemCount' = 0
      /\ Items' = NULL => ItemCount' = 0
      /\ op = "addItem" => Items' # NULL /\ ItemCount' < MaxItemCount'
  BY BufferThere, ItemsListAssumption DEF list, IInv, TypeOK, BufferSound
<1>2. /\ pc = "idle" /\ pc' = "search" /\ call' = [op |-> op, it |-> it]
      /\ start' = 0 /\ stop' = ItemCount /\ indx' = indx /\ i' = i
  BY <1>1 DEF Begin, SearchFromStart
<1>3. Slots = 0 .. ItemCount - 1 /\ Slots' = Slots
  BY <1>1, <1>2 DEF Slots
<1>4. TypeOK'
  BY <1>1, <1>2, ItemsListAssumption DEF IInv, TypeOK, Searching
<1>5. Sorted'
  BY <1>1, <1>3 DEF IInv, Sorted
<1>6. Searched'
  BY <1>1, <1>2, <1>3, ItemsListAssumption DEF IInv, TypeOK, Searched
<1>. QED
  BY <1>1, <1>2, <1>4, <1>5, <1>6 DEF IInv, BufferSound, Added, Passed, ShiftedRight, ShiftedLeft

LEMMA CallsInv == IInv /\ Calls => IInv'
<1>. SUFFICES ASSUME IInv, Calls PROVE IInv'
  OBVIOUS
<1>1. CASE InitItems
  BY <1>1, InitItemsInv
<1>2. CASE CanAddItem
  BY <1>2, CanAddItemInv
<1>3. CASE CountItems
  BY <1>3, QueryInv DEF CountItems
<1>4. CASE Destroy
  BY <1>4, DestroyInv
<1>5. ASSUME NEW room \in 0 .. MaxNum, CopyItems(room) PROVE IInv'
  BY <1>5, QueryInv DEF CopyItems
<1>6. ASSUME NEW it \in Values, ContainsItem(it) PROVE IInv'
  BY <1>6, BeginInv DEF ContainsItem
<1>7. ASSUME NEW it \in Values, DeleteItem(it) PROVE IInv'
  BY <1>7, BeginInv DEF DeleteItem
<1>8. ASSUME NEW it \in Values, AddItem(it) PROVE IInv'
  BY <1>8, BeginInv DEF AddItem
<1>9. ASSUME NEW it \in Values, AddItemFull(it) PROVE IInv'
  BY <1>9, QueryInv DEF AddItemFull
<1>. QED
  BY <1>1, <1>2, <1>3, <1>4, <1>5, <1>6, <1>7, <1>8, <1>9 DEF Calls

LEMMA AllocationFailsInv == IInv /\ AllocationFails => IInv'
<1>. SUFFICES ASSUME IInv, AllocationFails PROVE IInv'
  OBVIOUS
<1>1. /\ pc' = "bugcheck" /\ UNCHANGED <<list, start, stop, indx, i>>
      /\ call' \in [op : {"initItems", "canAddItem", "addItem"}, it : {0}]
  BY DEF AllocationFails
<1>. QED
  BY <1>1, ItemsListAssumption DEF IInv, TypeOK, BufferSound, Sorted, Searched, Added, Passed,
   ShiftedRight, ShiftedLeft, Slots, Searching, list, AllocationFails

-----------------------------------------------------------------------------
(* The search                                                              *)

\* The items on one side of the middle are all smaller, or all greater.
LEMMA SearchGoesOnInv == IInv /\ SearchGoesOn => IInv'
<1>. SUFFICES ASSUME IInv, SearchGoesOn PROVE IInv'
  OBVIOUS
<1>1. /\ pc \in Searching /\ start < stop
      /\ UNCHANGED <<Items, ItemCount, MaxItemCount, pc, call, indx, i>>
  BY DEF SearchGoesOn, list
<1>2. /\ mIndx \in start .. stop - 1 /\ mIndx \in Slots /\ Items # NULL
  BY <1>1, MiddleIsSlot
<1>3. Slots = 0 .. ItemCount - 1 /\ Slots' = Slots
  BY <1>1 DEF Slots, Searching
<1>4. /\ start \in Nat /\ stop \in Nat /\ ItemCount \in Nat /\ MaxNum \in Nat
      /\ ItemCount <= MaxNum
      /\ \A j \in Slots : Items[j] \in Int
      /\ call.it \in Int
  BY <1>3, ItemsAreIntegers, ItemsListAssumption DEF IInv, TypeOK
<1>5. \A j \in Slots : /\ j < mIndx => Items[j] < Items[mIndx]
                       /\ j > mIndx => Items[mIndx] < Items[j]
  BY <1>2 DEF IInv, Sorted
<1>6. \/ Items[mIndx] < call.it /\ start' = mIndx + 1 /\ stop' = stop
      \/ Items[mIndx] > call.it /\ stop' = mIndx /\ start' = start
  BY DEF SearchGoesOn
<1>7. start' \in 0 .. ItemCount /\ stop' \in 0 .. ItemCount
  <2>1. start <= ItemCount /\ stop <= ItemCount
    BY <1>1 DEF IInv, Searched
  <2>. QED
    BY <1>2, <1>4, <1>6, <2>1
<1>8. \A j \in Slots : /\ j < start' => Items[j] < call.it
                       /\ j >= stop' => Items[j] > call.it
  <2>. SUFFICES ASSUME NEW j \in Slots
                PROVE  /\ j < start' => Items[j] < call.it
                       /\ j >= stop' => Items[j] > call.it
    OBVIOUS
  <2>1. j \in Int /\ Items[j] \in Int /\ Items[mIndx] \in Int
    BY <1>2, <1>3, <1>4
  <2>2. /\ j < start => Items[j] < call.it
        /\ j >= stop => Items[j] > call.it
    BY <1>1 DEF IInv, Searched
  <2>3. mIndx \in Int /\ call.it \in Int /\ start \in Int /\ stop \in Int
    BY <1>2, <1>3, <1>4
  <2>4. j < mIndx \/ j = mIndx \/ j > mIndx
    BY <2>1, <2>3
  <2>5. CASE Items[mIndx] < call.it /\ start' = mIndx + 1 /\ stop' = stop
    <3>1. j < start' => j <= mIndx
      BY <2>1, <2>3, <2>5
    <3>2. j <= mIndx => Items[j] <= Items[mIndx]
      BY <1>5, <2>1, <2>3, <2>4
    <3>. QED
      BY <2>1, <2>2, <2>3, <2>5, <3>1, <3>2
  <2>6. CASE Items[mIndx] > call.it /\ stop' = mIndx /\ start' = start
    <3>1. j >= mIndx => Items[j] >= Items[mIndx]
      BY <1>5, <2>1, <2>3, <2>4
    <3>. QED
      BY <2>1, <2>2, <2>3, <2>6, <3>1
  <2>. QED
    BY <1>6, <2>5, <2>6
<1>9. TypeOK'
  BY <1>1, <1>4, <1>7 DEF IInv, TypeOK
<1>10. Sorted' /\ Added'
  BY <1>1, <1>3 DEF IInv, Sorted, Added
<1>11. Searched'
  BY <1>1, <1>3, <1>7, <1>8 DEF IInv, Searched
<1>. QED
  BY <1>1, <1>9, <1>10, <1>11 DEF IInv, BufferSound, Passed, ShiftedRight, ShiftedLeft, Searching

\* The index that a search returns is that of the item, and there is none when
\* the list does not have the item.
LEMMA SearchIsRight ==
  ASSUME IInv, pc \in Searching, NEW index, SearchEnds(index)
  PROVE  \/ index \in Slots /\ Items[index] = call.it /\ Items # NULL
            /\ index # INVALID_INDEX
         \/ index = INVALID_INDEX /\ \A j \in Slots : Items[j] # call.it
<1>1. CASE start < stop
  <2>1. mIndx \in Slots /\ Items # NULL /\ mIndx \in 0 .. stop
    BY <1>1, MiddleIsSlot DEF IInv, TypeOK
  <2>. QED
    BY <1>1, <2>1 DEF SearchEnds, INVALID_INDEX, IInv, TypeOK
<1>2. CASE start >= stop
  <2>1. index = INVALID_INDEX
    BY <1>2 DEF SearchEnds, IInv, TypeOK
  <2>2. ASSUME NEW j \in Slots PROVE Items[j] # call.it
    <3>1. j \in 0 .. ItemCount - 1 /\ ItemCount \in 0 .. MaxNum
      BY DEF Slots, Searching, IInv, TypeOK
    <3>2. Items[j] \in Int /\ call.it \in Int
      BY <3>1, ItemsAreIntegers
    <3>3. j < start \/ j >= stop
      BY <1>2, <3>1 DEF IInv, TypeOK
    <3>. QED
      BY <3>2, <3>3 DEF IInv, Searched
  <2>. QED
    BY <2>1, <2>2
<1>. QED
  BY <1>1, <1>2 DEF IInv, TypeOK

\* A call that returns without changing the list.
LEMMA ReturnInv ==
  ASSUME IInv, pc \in Searching \cup {"findFirstGreater"}, pc' = "idle",
         UNCHANGED <<list, loop>>
  PROVE  IInv'
<1>1. Slots' = Slots
  BY DEF Slots, Searching, list
<1>. QED
  BY <1>1 DEF IInv, TypeOK, BufferSound, Sorted, Searched, Added, Passed, ShiftedRight,
     ShiftedLeft, Searching, list, loop

LEMMA ContainedInv == ASSUME IInv, NEW index, Contained(index) PROVE IInv'
BY ReturnInv DEF Contained, Returns, Searching

\* An item that has not been found is searched for once more.
LEMMA AddItemFoundInv == ASSUME IInv, NEW index, AddItemFound(index) PROVE IInv'
<1>1. CASE index # INVALID_INDEX
  BY <1>1, ReturnInv DEF AddItemFound, Returns, Searching
<1>2. CASE index = INVALID_INDEX
  <2>1. /\ pc = "search" /\ pc' = "searchAgain" /\ call.op = "addItem"
        /\ start' = 0 /\ stop' = ItemCount
        /\ UNCHANGED <<Items, ItemCount, MaxItemCount, call, indx, i>>
    BY <1>2 DEF AddItemFound, SearchFromStart, list
  <2>2. \A j \in Slots : Items[j] # call.it
    BY <1>2, <2>1, SearchIsRight DEF AddItemFound, Searching
  <2>3. Slots' = Slots /\ Slots = 0 .. ItemCount - 1
    BY <2>1 DEF Slots
  <2>4. TypeOK'
    BY <2>1, ItemsListAssumption DEF IInv, TypeOK, Searching
  <2>5. Sorted' /\ Added'
    BY <2>1, <2>2, <2>3 DEF IInv, Sorted, Added, Searched, Searching
  <2>6. Searched'
    BY <2>1, <2>3, ItemsListAssumption DEF IInv, Searched, Searching, TypeOK
  <2>. QED
    BY <2>1, <2>4, <2>5, <2>6 DEF IInv, BufferSound, Passed, ShiftedRight, ShiftedLeft
<1>. QED
  BY <1>1, <1>2

-----------------------------------------------------------------------------
(* The insertion                                                           *)

LEMMA AddFirstInv == ASSUME IInv, NEW index, AddFirst(index) PROVE IInv'
<1>1. /\ pc = "searchAgain" /\ pc' = "idle" /\ ItemCount = 0 /\ ItemCount' = 1
      /\ Items' = [Items EXCEPT ![0] = call.it]
      /\ UNCHANGED <<MaxItemCount, call, start, stop, indx, i>>
  BY DEF AddFirst, Returns, loop
<1>2. Items # NULL
  BY <1>1 DEF IInv, Added
<1>3. TypeOK'
  BY <1>1, <1>2, ItemsListAssumption DEF IInv, TypeOK
<1>4. Sorted'
  BY <1>1 DEF Sorted, Slots
<1>5. BufferSound'
  BY <1>1, <1>2, NullAssumption DEF IInv, BufferSound, TypeOK
<1>. QED
  BY <1>1, <1>3, <1>4, <1>5 DEF IInv, Searched, Added, Passed, ShiftedRight, ShiftedLeft, Searching

LEMMA AddSortedInv == ASSUME IInv, NEW index, AddSorted(index) PROVE IInv'
<1>1. /\ pc = "searchAgain" /\ pc' = "findFirstGreater"
      /\ i' = IF index = INVALID_INDEX THEN 0 ELSE index
      /\ UNCHANGED <<Items, ItemCount, MaxItemCount, call, start, stop, indx>>
  BY DEF AddSorted, list
<1>2. index = INVALID_INDEX
  BY <1>1, SearchIsRight DEF AddSorted, Searching, IInv, Added
<1>3. i' = 0
  BY <1>1, <1>2
<1>4. Slots' = Slots /\ Slots = 0 .. ItemCount - 1
  BY <1>1 DEF Slots
<1>5. TypeOK'
  BY <1>1, <1>3, ItemsListAssumption DEF IInv, TypeOK
<1>6. Sorted' /\ Added'
  BY <1>1, <1>4 DEF IInv, Sorted, Added
<1>7. Passed'
  BY <1>1, <1>3, <1>4 DEF IInv, Passed, TypeOK
<1>. QED
  BY <1>1, <1>5, <1>6, <1>7 DEF IInv, BufferSound, Searched, ShiftedRight, ShiftedLeft, Searching

\* An item that is not greater is smaller: the new one is not on the list.
LEMMA FindFirstGreaterInv == IInv /\ FindFirstGreater => IInv'
<1>. SUFFICES ASSUME IInv, FindFirstGreater PROVE IInv'
  OBVIOUS
<1>1. /\ pc = "findFirstGreater" /\ i < ItemCount /\ i' = i + 1
      /\ UNCHANGED <<Items, ItemCount, MaxItemCount, pc, call, start, stop, indx>>
  BY DEF FindFirstGreater, list
<1>2. Slots' = Slots /\ Slots = 0 .. ItemCount - 1
  BY <1>1 DEF Slots
<1>3. ItemCount \in 0 .. MaxNum /\ i \in 0 .. MaxNum /\ MaxNum \in Nat
  BY ItemsListAssumption DEF IInv, TypeOK
<1>4. Items[i] \in Int /\ call.it \in Int
  BY <1>1, <1>3, ItemsAreIntegers
<1>5. Items[i] < call.it
  BY <1>1, <1>2, <1>3, <1>4 DEF FindFirstGreater, Greater, IInv, Added
<1>6. TypeOK'
  BY <1>1, <1>3 DEF IInv, TypeOK
<1>7. Passed'
  BY <1>1, <1>2, <1>3, <1>5 DEF IInv, Passed
<1>8. Sorted' /\ Added'
  BY <1>1, <1>2 DEF IInv, Sorted, Added
<1>. QED
  BY <1>1, <1>6, <1>7, <1>8 DEF IInv, BufferSound, Searched, ShiftedRight, ShiftedLeft, Searching

\* What follows the first greater item is greater too.
LEMMA FirstGreaterFoundInv == IInv /\ FirstGreaterFound => IInv'
<1>. SUFFICES ASSUME IInv, FirstGreaterFound PROVE IInv'
  OBVIOUS
<1>1. /\ pc = "findFirstGreater" /\ (i = ItemCount \/ Greater)
  BY DEF FirstGreaterFound
<1>2. ItemCount < MaxItemCount
  BY <1>1 DEF IInv, Added
<1>3. ItemCount \in 0 .. MaxNum /\ i \in 0 .. MaxNum /\ MaxNum \in Nat /\ MaxItemCount \in {0, MaxNum}
  BY ItemsListAssumption DEF IInv, TypeOK
<1>4. /\ pc' = "shiftItemsRight" /\ indx' = i /\ i' = ItemCount
      /\ UNCHANGED <<Items, ItemCount, MaxItemCount, call, start, stop>>
  BY <1>2, <1>3 DEF FirstGreaterFound, list
<1>5. Slots' = 0 .. ItemCount - 1 /\ Slots = 0 .. ItemCount - 1
  BY <1>1, <1>3, <1>4 DEF Slots
<1>6. i <= ItemCount
  BY <1>1 DEF IInv, Passed
<1>7. ASSUME NEW j \in Slots
      PROVE  /\ j < i => Items[j] < call.it
             /\ j >= i => Items[j] > call.it
  <2>1. j < i => Items[j] < call.it
    BY <1>1 DEF IInv, Passed
  <2>2. ASSUME j >= i PROVE Items[j] > call.it
    <3>1. j \in Int /\ i < ItemCount /\ i \in Slots
      BY <1>3, <1>5, <1>6, <2>2
    <3>2. Items[i] > call.it
      BY <1>1, <1>3, <3>1 DEF Greater
    <3>3. Items[i] \in Int /\ Items[j] \in Int /\ call.it \in Int
      BY <1>5, <3>1, ItemsAreIntegers
    <3>4. i < j => Items[i] < Items[j]
      BY <3>1 DEF IInv, Sorted
    <3>. QED
      BY <1>3, <2>2, <3>1, <3>2, <3>3, <3>4
  <2>. QED
    BY <2>1, <2>2
<1>8. TypeOK'
  BY <1>3, <1>4 DEF IInv, TypeOK
<1>9. Sorted' /\ Added'
  BY <1>1, <1>4, <1>5 DEF IInv, Sorted, Added
<1>10. ShiftedRight'
  <2>1. indx' = i /\ indx' <= i' /\ i' <= ItemCount'
    BY <1>3, <1>4, <1>6
  <2>2. \A j \in Slots : /\ j < i => Items[j] < call.it
                         /\ j >= i => Items[j] > call.it
    BY <1>7
  <2>3. \A j \in Slots' : /\ j < indx' => Items'[j] < call'.it
                          /\ j >= indx' => Items'[j] > call'.it
    BY <1>4, <1>5, <2>1, <2>2
  <2>. QED
    BY <2>1, <2>3 DEF ShiftedRight
<1>. QED
  BY <1>1, <1>4, <1>8, <1>9, <1>10 DEF IInv, BufferSound, Searched, Passed, ShiftedLeft, Searching

\* The free slot moves down, and what it leaves behind is greater.
LEMMA ShiftItemsRightInv == IInv /\ ShiftItemsRight => IInv'
<1>. SUFFICES ASSUME IInv, ShiftItemsRight PROVE IInv'
  OBVIOUS
<1>1. /\ pc = "shiftItemsRight" /\ i > indx /\ i' = i - 1
      /\ Items' = [Items EXCEPT ![i] = Items[i - 1]]
      /\ UNCHANGED <<ItemCount, MaxItemCount, pc, call, start, stop, indx>>
  BY DEF ShiftItemsRight
<1>2. /\ indx <= i /\ i <= ItemCount /\ Items # NULL /\ ItemCount < MaxItemCount
  BY <1>1 DEF IInv, ShiftedRight, Added
<1>3. /\ ItemCount \in 0 .. MaxNum /\ i \in 0 .. MaxNum /\ MaxNum \in Nat
      /\ indx \in 0 .. MaxNum
      /\ Items \in [0 .. MaxNum -> Values \cup {0}]
  BY <1>2, ItemsListAssumption DEF IInv, TypeOK
<1>4. Slots = (0 .. ItemCount) \ {i} /\ Slots' = (0 .. ItemCount) \ {i - 1}
  BY <1>1 DEF Slots
<1>5. /\ i - 1 \in Slots /\ i - 1 >= indx /\ i - 1 \in 0 .. MaxNum
      /\ Items'[i] = Items[i - 1]
      /\ \A j \in Slots' : j # i => j \in Slots /\ Items'[j] = Items[j]
  BY <1>1, <1>2, <1>3, <1>4
<1>6. TypeOK'
  BY <1>1, <1>3, <1>5 DEF IInv, TypeOK
<1>7. ASSUME NEW j \in Slots', NEW k \in Slots', j < k PROVE Items'[j] < Items'[k]
  <2>1. j \in Int /\ k \in Int /\ j # i - 1 /\ k # i - 1
    BY <1>3, <1>4
  <2>2. CASE j = i
    BY <1>3, <1>5, <1>7, <2>1, <2>2 DEF IInv, Sorted
  <2>3. CASE k = i
    <3>1. j < i - 1 /\ j # i
      BY <1>3, <1>7, <2>1, <2>3
    <3>. QED
      BY <1>5, <2>3, <3>1 DEF IInv, Sorted
  <2>4. CASE j # i /\ k # i
    BY <1>5, <1>7, <2>4 DEF IInv, Sorted
  <2>. QED
    BY <2>2, <2>3, <2>4
<1>8. Sorted'
  BY <1>7 DEF Sorted
<1>9. Added'
  <2>1. \A j \in Slots : Items[j] # call.it
    BY <1>1 DEF IInv, Added
  <2>2. \A j \in Slots' : Items'[j] # call.it
    <3>1. Items'[i] # call.it
      BY <1>5, <2>1
    <3>. QED
      BY <1>5, <2>1, <3>1
  <2>. QED
    BY <1>1, <1>2, <1>6, <2>2, NullAssumption DEF IInv, Added, TypeOK
<1>10. ShiftedRight'
  <2>1. \A j \in Slots : /\ j < indx => Items[j] < call.it
                         /\ j >= indx => Items[j] > call.it
    BY <1>1 DEF IInv, ShiftedRight
  <2>2. \A j \in Slots' : /\ j < indx => Items'[j] < call.it
                          /\ j >= indx => Items'[j] > call.it
    BY <1>1, <1>3, <1>5, <2>1
  <2>. QED
    BY <1>1, <1>2, <1>3, <2>2 DEF ShiftedRight
<1>11. BufferSound'
  BY <1>1, <1>2, <1>6, NullAssumption DEF IInv, BufferSound, TypeOK
<1>. QED
  BY <1>1, <1>6, <1>8, <1>9, <1>10, <1>11 DEF IInv, Searched, Passed, ShiftedLeft, Searching

\* The free slot is where the new item goes.
LEMMA ItemPlacedInv == IInv /\ ItemPlaced => IInv'
<1>. SUFFICES ASSUME IInv, ItemPlaced PROVE IInv'
  OBVIOUS
<1>1. /\ pc = "shiftItemsRight" /\ i <= indx /\ pc' = "idle"
      /\ Items' = [Items EXCEPT ![indx] = call.it] /\ ItemCount' = ItemCount + 1
      /\ UNCHANGED <<MaxItemCount, call, start, stop, indx, i>>
  BY DEF ItemPlaced, Returns, loop
<1>2. /\ indx <= i /\ i <= ItemCount /\ Items # NULL /\ ItemCount < MaxItemCount
  BY <1>1 DEF IInv, ShiftedRight, Added
<1>3. /\ ItemCount \in 0 .. MaxNum /\ i \in 0 .. MaxNum /\ MaxNum \in Nat
      /\ MaxItemCount \in {0, MaxNum} /\ indx = i
      /\ Items \in [0 .. MaxNum -> Values \cup {0}] /\ call.it \in Values \cup {0}
  BY <1>1, <1>2, ItemsListAssumption DEF IInv, TypeOK
<1>4. Slots = (0 .. ItemCount) \ {i} /\ Slots' = 0 .. ItemCount
  BY <1>1, <1>3 DEF Slots
<1>5. /\ Items'[i] = call.it
      /\ \A j \in Slots' : j # i => j \in Slots /\ Items'[j] = Items[j]
  BY <1>1, <1>2, <1>3, <1>4
<1>6. TypeOK'
  BY <1>1, <1>2, <1>3 DEF IInv, TypeOK
<1>7. ASSUME NEW j \in Slots', NEW k \in Slots', j < k PROVE Items'[j] < Items'[k]
  <2>1. \A m \in Slots : /\ m < i => Items[m] < call.it
                         /\ m >= i => Items[m] > call.it
    BY <1>1, <1>3 DEF IInv, ShiftedRight
  <2>2. j \in Int /\ k \in Int /\ i \in Int
    BY <1>3, <1>4
  <2>3. CASE j = i
    <3>1. k \in Slots /\ Items'[k] = Items[k] /\ k >= i /\ Items[k] > call.it
      BY <1>5, <1>7, <2>1, <2>2, <2>3
    <3>2. k \in 0 .. MaxNum
      BY <1>2, <1>3, <1>4
    <3>3. Items[k] \in Int /\ call.it \in Int
      BY <1>2, <3>2, ItemsAreIntegers
    <3>. QED
      BY <1>5, <2>3, <3>1, <3>3
  <2>4. CASE k = i
    BY <1>5, <1>7, <2>1, <2>2, <2>4
  <2>5. CASE j # i /\ k # i
    BY <1>5, <1>7, <2>5 DEF IInv, Sorted
  <2>. QED
    BY <2>3, <2>4, <2>5
<1>8. Sorted'
  BY <1>7 DEF Sorted
<1>9. BufferSound'
  BY <1>1, <1>2, <1>6, NullAssumption DEF IInv, BufferSound, TypeOK
<1>. QED
  BY <1>1, <1>6, <1>8, <1>9 DEF IInv, Searched, Added, Passed, ShiftedRight, ShiftedLeft, Searching

-----------------------------------------------------------------------------
(* The deletion                                                            *)

LEMMA DeleteItemFoundInv == ASSUME IInv, NEW index, DeleteItemFound(index) PROVE IInv'
<1>1. CASE index = INVALID_INDEX
  BY <1>1, ReturnInv DEF DeleteItemFound, Returns, Searching
<1>2. CASE index # INVALID_INDEX
  <2>1. /\ pc = "search" /\ pc' = "shiftItemsLeft" /\ call.op = "deleteItem" /\ i' = index + 1
        /\ UNCHANGED <<Items, ItemCount, MaxItemCount, call, start, stop, indx>>
    BY <1>2 DEF DeleteItemFound, list
  <2>2. index \in Slots /\ Items[index] = call.it /\ Items # NULL
    BY <1>2, <2>1, SearchIsRight DEF DeleteItemFound, Searching
  <2>3. ItemCount \in 0 .. MaxNum /\ MaxNum \in Nat
    BY ItemsListAssumption DEF IInv, TypeOK
  <2>4. Slots = 0 .. ItemCount - 1
    BY <2>1 DEF Slots
  <2>5. index \in Nat /\ i' - 1 = index /\ 0 < i' /\ i' <= ItemCount
    BY <2>1, <2>2, <2>3, <2>4
  <2>6. Slots' = Slots \ {index}
    BY <2>1, <2>4, <2>5 DEF Slots
  <2>7. TypeOK'
    BY <2>1, <2>3, <2>5 DEF IInv, TypeOK
  <2>8. Sorted'
    BY <2>1, <2>6 DEF IInv, Sorted
  <2>9. ShiftedLeft'
    <3>1. ASSUME NEW j \in Slots, j # index PROVE Items[j] # Items[index]
      <4>1. j \in Int /\ Items[j] \in Int /\ Items[index] \in Int
        BY <2>2, <2>4, ItemsAreIntegers
      <4>2. /\ j < index => Items[j] < Items[index]
            /\ index < j => Items[index] < Items[j]
        BY <2>2 DEF IInv, Sorted
      <4>. QED
        BY <2>5, <3>1, <4>1, <4>2
    <3>. QED
      BY <2>1, <2>2, <2>5, <2>6, <3>1 DEF ShiftedLeft
  <2>. QED
    BY <2>1, <2>7, <2>8, <2>9 DEF IInv, BufferSound, Searched, Added, Passed, ShiftedRight, Searching
<1>. QED
  BY <1>1, <1>2

\* The free slot moves up, and keeps a copy of what is before it.
LEMMA ShiftItemsLeftInv == IInv /\ ShiftItemsLeft => IInv'
<1>. SUFFICES ASSUME IInv, ShiftItemsLeft PROVE IInv'
  OBVIOUS
<1>1. /\ pc = "shiftItemsLeft" /\ i < ItemCount /\ i' = i + 1
      /\ Items' = [Items EXCEPT ![i - 1] = Items[i]]
      /\ UNCHANGED <<ItemCount, MaxItemCount, pc, call, start, stop, indx>>
  BY DEF ShiftItemsLeft
<1>2. 0 < i /\ Items # NULL /\ call.op = "deleteItem"
  BY <1>1 DEF IInv, ShiftedLeft
<1>3. /\ ItemCount \in 0 .. MaxNum /\ i \in 0 .. MaxNum /\ MaxNum \in Nat
      /\ Items \in [0 .. MaxNum -> Values \cup {0}]
  BY <1>2, ItemsListAssumption DEF IInv, TypeOK
<1>4. Slots = (0 .. ItemCount - 1) \ {i - 1} /\ Slots' = (0 .. ItemCount - 1) \ {i}
  BY <1>1, <1>3 DEF Slots
<1>5. /\ i \in Slots /\ i - 1 \in 0 .. MaxNum
      /\ Items'[i - 1] = Items[i] /\ Items'[i] = Items[i]
      /\ \A j \in Slots' : j # i - 1 => j \in Slots /\ Items'[j] = Items[j]
  BY <1>1, <1>2, <1>3, <1>4
<1>6. TypeOK'
  BY <1>1, <1>3, <1>5 DEF IInv, TypeOK
<1>7. ASSUME NEW j \in Slots', NEW k \in Slots', j < k PROVE Items'[j] < Items'[k]
  <2>1. j \in Int /\ k \in Int /\ j # i /\ k # i
    BY <1>3, <1>4
  <2>2. CASE j = i - 1
    <3>1. i < k /\ k # i - 1
      BY <1>3, <1>7, <2>1, <2>2
    <3>. QED
      BY <1>5, <2>2, <3>1 DEF IInv, Sorted
  <2>3. CASE k = i - 1
    <3>1. j < i /\ j # i - 1
      BY <1>3, <1>7, <2>1, <2>3
    <3>. QED
      BY <1>5, <2>3, <3>1 DEF IInv, Sorted
  <2>4. CASE j # i - 1 /\ k # i - 1
    BY <1>5, <1>7, <2>4 DEF IInv, Sorted
  <2>. QED
    BY <2>2, <2>3, <2>4
<1>8. Sorted'
  BY <1>7 DEF Sorted
<1>9. BufferSound'
  BY <1>1, <1>2, <1>6, NullAssumption DEF IInv, BufferSound, TypeOK
<1>10. ShiftedLeft'
  <2>1. \A j \in Slots : Items[j] # call.it
    BY <1>1 DEF IInv, ShiftedLeft
  <2>2. \A j \in Slots' : Items'[j] # call'.it
    <3>1. Items'[i - 1] # call.it
      BY <1>5, <2>1
    <3>. QED
      BY <1>1, <1>5, <2>1, <3>1
  <2>3. Items' # NULL
    BY <1>1, <1>2, <1>9 DEF IInv, BufferSound
  <2>4. 0 < i' /\ i' <= ItemCount' /\ i' > 1
    BY <1>1, <1>2, <1>3
  <2>5. i' - 1 = i /\ i' - 2 = i - 1
    BY <1>1, <1>3
  <2>6. Items'[i' - 1] = Items'[i' - 2]
    BY <1>5, <2>5
  <2>. QED
    BY <1>1, <1>2, <2>2, <2>3, <2>4, <2>6 DEF ShiftedLeft
<1>. QED
  BY <1>1, <1>6, <1>8, <1>9, <1>10 DEF IInv, Searched, Added, Passed, ShiftedRight, Searching

LEMMA ItemDroppedInv == IInv /\ ItemDropped => IInv'
<1>. SUFFICES ASSUME IInv, ItemDropped PROVE IInv'
  OBVIOUS
<1>1. /\ pc = "shiftItemsLeft" /\ i >= ItemCount /\ pc' = "idle"
      /\ UNCHANGED <<call, start, stop, indx, i>>
  BY DEF ItemDropped, Returns, loop
<1>2. 0 < i /\ i <= ItemCount /\ Items # NULL
  BY <1>1 DEF IInv, ShiftedLeft
<1>3. /\ ItemCount \in 0 .. MaxNum /\ i \in 0 .. MaxNum /\ MaxNum \in Nat /\ i = ItemCount
      /\ Items \in [0 .. MaxNum -> Values \cup {0}]
  BY <1>1, <1>2, ItemsListAssumption DEF IInv, TypeOK
<1>4. CASE ItemCount = 1
  <2>1. Items' = NULL /\ ItemCount' = 0 /\ MaxItemCount' = 0
    BY <1>4 DEF ItemDropped
  <2>. QED
    BY <1>1, <1>3, <2>1 DEF IInv, TypeOK, BufferSound, Sorted, Searched, Added, Passed,
       ShiftedRight, ShiftedLeft, Slots, Searching
<1>5. CASE ItemCount # 1
  <2>1. /\ Items' = [Items EXCEPT ![ItemCount - 1] = 0] /\ ItemCount' = ItemCount - 1
        /\ MaxItemCount' = MaxItemCount
    BY <1>5 DEF ItemDropped
  <2>2. Slots = (0 .. ItemCount - 1) \ {ItemCount - 1} /\ Slots' = 0 .. ItemCount - 2
    BY <1>1, <1>3, <2>1 DEF Slots
  <2>3. \A j \in Slots' : j \in Slots /\ Items'[j] = Items[j]
    BY <1>3, <2>1, <2>2
  <2>4. TypeOK'
    BY <1>1, <1>2, <1>3, <2>1 DEF IInv, TypeOK
  <2>5. Sorted'
    BY <2>3 DEF IInv, Sorted
  <2>6. BufferSound'
    BY <1>2, <2>1, <2>4, NullAssumption DEF IInv, BufferSound, TypeOK
  <2>. QED
    BY <1>1, <2>4, <2>5, <2>6 DEF IInv, Searched, Added, Passed, ShiftedRight, ShiftedLeft, Searching
<1>. QED
  BY <1>4, <1>5

-----------------------------------------------------------------------------
LEMMA NextInv == IInv /\ [Next]_vars => IInv'
<1>. SUFFICES ASSUME IInv, [Next]_vars PROVE IInv'
  OBVIOUS
<1>1. CASE Calls
  BY <1>1, CallsInv
<1>2. CASE AllocationFails
  BY <1>2, AllocationFailsInv
<1>3. CASE LoopStep
  BY <1>3, SearchGoesOnInv, ContainedInv, AddItemFoundInv, AddFirstInv, AddSortedInv,
     FindFirstGreaterInv, FirstGreaterFoundInv, ShiftItemsRightInv, ItemPlacedInv,
     DeleteItemFoundInv, ShiftItemsLeftInv, ItemDroppedInv DEF LoopStep
<1>4. CASE UNCHANGED vars
  BY <1>4 DEF vars, IInv, TypeOK, BufferSound, Sorted, Searched, Added, Passed,
     ShiftedRight, ShiftedLeft, Slots, Searching
<1>. QED
  BY <1>1, <1>2, <1>3, <1>4 DEF Next

LEMMA IInvIsInvariant == Spec => []IInv
<1>. QED
  BY InitInv, NextInv, PTL DEF Spec

\* The counters and indices stay in their ranges and the buffer keeps its
\* MaxNum + 1 slots of items, whatever calls are made.
THEOREM ListTyped == Spec => []TypeOK
<1>1. IInv => TypeOK
  BY DEF IInv
<1>. QED
  BY <1>1, IInvIsInvariant, PTL

\* No loop of _getItemIndex, _addItemSorted, _shiftItemsRight or deleteItem
\* leaves the slots in use, and none runs without a buffer, for any capacity.
THEOREM IndicesInBounds == Spec => []InBounds
<1>1. IInv => InBounds
  <2>. SUFFICES ASSUME IInv PROVE InBounds
    OBVIOUS
  <2>1. ASSUME pc \in Searching, start < stop PROVE Items # NULL /\ mIndx < ItemCount
    <3>1. Slots = 0 .. ItemCount - 1 /\ ItemCount \in 0 .. MaxNum
      BY <2>1 DEF Slots, Searching, IInv, TypeOK
    <3>. QED
      BY <2>1, <3>1, MiddleIsSlot
  <2>. QED
    BY <2>1 DEF IInv, BufferSound, Added, ShiftedRight, ShiftedLeft, InBounds
<1>. QED
  BY <1>1, IInvIsInvariant, PTL

\* After every call the items are strictly ascending, so that the next binary
\* search of _getItemIndex finds what is there.
THEOREM StaysAscending == Spec => []Ascending
<1>1. IInv => Ascending
  BY DEF IInv, Sorted, Slots, Ascending
<1>. QED
  BY <1>1, IInvIsInvariant, PTL

-----------------------------------------------------------------------------
(* The set that the array stands for                                       *)

\* The first n slots.
Prefix(n) == {Items[j] : j \in 0 .. n - 1}

\* The call in progress is about an item.
CallSound == pc \notin {"idle", "bugcheck"} => call.it \in Values

LEMMA CallStaysSound == CallSound /\ [Next]_vars => CallSound'
<1>. SUFFICES ASSUME CallSound, [Next]_vars PROVE CallSound'
  OBVIOUS
<1>. USE DEF CallSound
<1>1. CASE Calls
  <2>1. ASSUME pc = "idle", pc' = pc PROVE CallSound'
    BY <2>1
  <2>2. ASSUME NEW op, NEW it \in Values, Begin(op, it) PROVE CallSound'
    BY <2>2 DEF Begin
  <2>. QED
    BY <1>1, <2>1, <2>2 DEF Calls, InitItems, CanAddItem, CountItems, Destroy, CopyItems,
       ContainsItem, DeleteItem, AddItem, AddItemFull
<1>2. CASE AllocationFails
  BY <1>2 DEF AllocationFails
<1>3. CASE LoopStep
  BY <1>3 DEF LoopStep, SearchGoesOn, Contained, AddItemFound, AddFirst, AddSorted,
     DeleteItemFound, FindFirstGreater, FirstGreaterFound, ShiftItemsRight, ItemPlaced,
     ShiftItemsLeft, ItemDropped, Returns, SearchFromStart, Searching, loop
<1>4. CASE UNCHANGED vars
  BY <1>4 DEF vars
<1>. QED
  BY <1>1, <1>2, <1>3, <1>4 DEF Next

\* A strictly ascending part of an array has as many members as slots.
LEMMA AscendingSize ==
  ASSUME NEW f, NEW n \in Nat,
         \A j \in 0 .. n - 1 : f[j] \in Int,
         \A j, k \in 0 .. n - 1 : j < k => f[j] < f[k]
  PROVE  LET S == {f[j] : j \in 0 .. n - 1}
         IN  IsFiniteSet(S) /\ Cardinality(S) = n
<1>. DEFINE S == {f[j] : j \in 0 .. n - 1}
            g == [j \in 0 .. n - 1 |-> f[j]]
<1>1. g \in [0 .. n - 1 -> S]
  OBVIOUS
<1>2. ASSUME NEW j \in 0 .. n - 1, NEW k \in 0 .. n - 1, j # k PROVE g[j] # g[k]
  <2>1. j \in Int /\ k \in Int /\ f[j] \in Int /\ f[k] \in Int
    OBVIOUS
  <2>2. f[j] < f[k] \/ f[k] < f[j]
    BY <1>2, <2>1
  <2>. QED
    BY <2>1, <2>2
<1>3. \A t \in S : \E j \in 0 .. n - 1 : g[j] = t
  OBVIOUS
<1>4. g \in Bijection(0 .. n - 1, S)
  BY <1>1, <1>2, <1>3 DEF Bijection, Injection, IsInjective, Surjection
<1>5. IsFiniteSet(0 .. n - 1) /\ Cardinality(0 .. n - 1) = n
  BY FS_Interval
<1>. QED
  BY <1>4, <1>5, FS_Bijection DEF ExistsBijection

LEMMA PrefixSize ==
  ASSUME NEW n \in Nat,
         \A j \in 0 .. n - 1 : Items[j] \in Int,
         \A j, k \in 0 .. n - 1 : j < k => Items[j] < Items[k]
  PROVE  IsFiniteSet(Prefix(n)) /\ Cardinality(Prefix(n)) = n
BY AscendingSize DEF Prefix

\* Outside of the shifts the set is the slots in use.
LEMMA ContentsArePrefix ==
  ASSUME IInv, pc \notin {"shiftItemsRight", "shiftItemsLeft"}
  PROVE  /\ Contents = Prefix(ItemCount)
         /\ Slots = 0 .. ItemCount - 1
         /\ IsFiniteSet(Contents) /\ Cardinality(Contents) = ItemCount
<1>1. Contents = Prefix(ItemCount) /\ Slots = 0 .. ItemCount - 1
  BY DEF Contents, Prefix, Slots
<1>2. ItemCount \in Nat
  BY ItemsListAssumption DEF IInv, TypeOK
<1>. QED
  BY <1>1, <1>2, PrefixSize, ItemsAreIntegers DEF IInv, Sorted

LEMMA SameCardinality == ASSUME NEW S PROVE Set!Cardinality(S) = Cardinality(S)
BY DEF Set!Cardinality, Cardinality

\* What is smaller than an item of the ascending array stands before it.
LEMMA SmallestArePrefix ==
  ASSUME IInv, pc = "idle", NEW room \in Nat
  PROVE  Set!Smallest(room) = Prefix(IF room > ItemCount THEN ItemCount ELSE room)
<1>. DEFINE n == IF room > ItemCount THEN ItemCount ELSE room
<1>1. ItemCount \in Nat /\ n \in Nat /\ n <= ItemCount
  BY ItemsListAssumption DEF IInv, TypeOK
<1>2. Contents = Prefix(ItemCount) /\ Slots = 0 .. ItemCount - 1
  BY ContentsArePrefix
<1>3. \A j \in 0 .. ItemCount - 1 : Items[j] \in Int
  BY ItemsAreIntegers
<1>4. \A j, k \in 0 .. ItemCount - 1 : j < k => Items[j] < Items[k]
  BY <1>2 DEF IInv, Sorted
<1>5. ASSUME NEW m \in 0 .. ItemCount - 1
      PROVE  Cardinality({x \in Contents : x < Items[m]}) = m
  <2>1. {x \in Contents : x < Items[m]} = Prefix(m)
    <3>1. ASSUME NEW j \in 0 .. ItemCount - 1 PROVE Items[j] < Items[m] <=> j < m
      BY <1>1, <1>3, <1>4
    <3>2. 0 .. m - 1 \subseteq 0 .. ItemCount - 1
      BY <1>1
    <3>. QED
      BY <1>1, <1>2, <3>1, <3>2 DEF Prefix
  <2>2. m \in Nat /\ 0 .. m - 1 \subseteq 0 .. ItemCount - 1
    BY <1>1
  <2>. QED
    BY <1>3, <1>4, <2>1, <2>2, PrefixSize
<1>6. \A m \in 0 .. ItemCount - 1 : m < room <=> m \in 0 .. n - 1
  BY <1>1
<1>7. 0 .. n - 1 \subseteq 0 .. ItemCount - 1
  BY <1>1
<1>8. Set!Smallest(room) = {x \in Contents : \E m \in 0 .. n - 1 : x = Items[m]}
  <2>. DEFINE Below(it) == {x \in Contents : x < it}
  <2>1. Set!Smallest(room) = {it \in Contents : Cardinality(Below(it)) < room}
    <3>1. \A it : Set!Cardinality(Below(it)) = Cardinality(Below(it))
      BY SameCardinality
    <3>2. Set!Smallest(room) = {it \in Contents : Set!Cardinality(Below(it)) < room}
      BY DEF Set!Smallest
    <3>. HIDE DEF Below
    <3>. QED
      BY <3>1, <3>2
  <2>2. ASSUME NEW it \in Contents
        PROVE  Cardinality(Below(it)) < room <=> \E m \in 0 .. n - 1 : it = Items[m]
    <3>1. PICK m \in 0 .. ItemCount - 1 : it = Items[m]
      BY <1>2 DEF Prefix
    <3>2. Cardinality(Below(it)) = m
      BY <1>5, <3>1
    <3>3. ASSUME NEW k \in 0 .. n - 1, it = Items[k] PROVE k = m
      <4>1. k \in 0 .. ItemCount - 1 /\ k \in Int /\ m \in Int
        BY <1>1
      <4>2. Items[k] \in Int /\ Items[m] \in Int
        BY <1>3, <4>1
      <4>3. /\ k < m => Items[k] < Items[m]
            /\ m < k => Items[m] < Items[k]
        BY <1>4, <4>1
      <4>. QED
        BY <3>1, <3>3, <4>1, <4>2, <4>3
    <3>. HIDE DEF Below, n
    <3>. QED
      BY <1>6, <3>1, <3>2, <3>3
  <2>. HIDE DEF Below
  <2>. QED
    BY <2>1, <2>2
<1>. QED
  BY <1>2, <1>7, <1>8 DEF Prefix

\* Steps that are nothing to the set.
LEMMA Stutters ==
  ASSUME UNCHANGED <<Items, ItemCount, answer>>,
         pc \notin {"shiftItemsRight", "shiftItemsLeft"},
         pc' \notin {"shiftItemsRight", "shiftItemsLeft"}
  PROVE  UNCHANGED <<Contents, answer>>
BY DEF Contents

\* A buffer is allocated for the empty set.
LEMMA BufferIsNothing ==
  ASSUME IInv, BufferAllocated, pc \notin {"shiftItemsRight", "shiftItemsLeft"},
         pc' \notin {"shiftItemsRight", "shiftItemsLeft"}
  PROVE  Contents' = Contents
<1>1. /\ Contents = {Items[j] : j \in 0 .. ItemCount - 1}
      /\ Contents' = {Items'[j] : j \in 0 .. ItemCount' - 1}
  BY DEF Contents
<1>2. ItemCount' = ItemCount /\ (ItemCount # 0 => Items' = Items)
  BY BufferThere
<1>3. ItemCount = 0 => 0 .. ItemCount - 1 = {}
  OBVIOUS
<1>. QED
  BY <1>1, <1>2, <1>3

LEMMA SameAnswers ==
  /\ \A op, status, n, out : Set!Answer(op, status, n, out) = Answer(op, status, n, out)
  /\ \A b \in BOOLEAN : Set!Bool(b) = Bool(b)
BY DEF Set!Answer, Answer, Set!Bool, Bool

\* The calls that answer at once.
LEMMA CallsImplement ==
  ASSUME IInv, Calls
  PROVE  [Set!Next]_<<Contents, answer>>
<1>. USE SameAnswers
<1>1. pc = "idle"
  BY DEF Calls, InitItems, CanAddItem, CountItems, Destroy, CopyItems, ContainsItem,
     DeleteItem, AddItem, AddItemFull, Begin
<1>2. /\ Contents = Prefix(ItemCount) /\ IsFiniteSet(Contents)
      /\ Cardinality(Contents) = ItemCount /\ Slots = 0 .. ItemCount - 1
  BY <1>1, ContentsArePrefix
<1>3. ItemCount \in 0 .. MaxNum /\ MaxNum \in Nat
  BY ItemsListAssumption DEF IInv, TypeOK
<1>4. CASE InitItems
  BY <1>1, <1>4, BufferIsNothing DEF InitItems
<1>5. CASE CanAddItem
  <2>1. Contents' = Contents
    BY <1>1, <1>5, BufferIsNothing DEF CanAddItem
  <2>2. ItemCount' = ItemCount /\ MaxItemCount' = MaxNum
    BY <1>5, BufferThere DEF CanAddItem
  <2>3. answer' = Set!Answer("canAddItem", Set!Bool(Cardinality(Contents) < MaxNum), 0, {})
    BY <1>2, <1>5, <2>2 DEF CanAddItem, Answer, Set!Answer, Bool, Set!Bool
  <2>. QED
    BY <2>1, <2>3, SameCardinality DEF Set!CanAddItem, Set!Next
<1>6. CASE CountItems
  <2>1. UNCHANGED Contents
    BY <1>6 DEF CountItems, list, loop, Contents
  <2>. QED
    BY <1>2, <1>6, <2>1, SameCardinality DEF CountItems, Set!CountItems, Set!Next
<1>7. ASSUME NEW room \in 0 .. MaxNum, CopyItems(room) PROVE Set!CopyItems(room)
  <2>. DEFINE copied == IF room > ItemCount THEN ItemCount ELSE room
  <2>1. UNCHANGED Contents
    BY <1>7 DEF CopyItems, list, loop, Contents
  <2>2. Set!Smallest(room) = Prefix(copied)
    BY <1>1, SmallestArePrefix
  <2>3. copied \in Nat /\ 0 .. copied - 1 \subseteq 0 .. ItemCount - 1
    BY <1>3
  <2>4. Cardinality(Prefix(copied)) = copied
    BY <1>2, <2>3, PrefixSize, ItemsAreIntegers DEF IInv, Sorted
  <2>5. answer' = Answer("copyItems", "n", copied, Prefix(copied))
    BY <1>7 DEF CopyItems, Prefix
  <2>. QED
    BY <2>1, <2>2, <2>4, <2>5, SameCardinality DEF Set!CopyItems
<1>8. CASE Destroy
  <2>1. Contents' = {}
    BY <1>1, <1>8 DEF Destroy, loop, Contents
  <2>2. answer'.op = "destroy"
    BY <1>8 DEF Destroy, Answer
  <2>. QED
    BY <2>1, <2>2 DEF Set!Destroy, Set!Next
<1>9. ASSUME NEW it \in Values, ContainsItem(it) \/ DeleteItem(it)
      PROVE  UNCHANGED <<Contents, answer>>
  BY <1>9, Stutters DEF ContainsItem, DeleteItem, Begin, SearchFromStart, list
<1>10. ASSUME NEW it \in Values, AddItem(it) PROVE UNCHANGED <<Contents, answer>>
  BY <1>10, BufferIsNothing DEF AddItem, Begin, SearchFromStart
<1>11. ASSUME NEW it \in Values, AddItemFull(it) PROVE Set!AddItem(it)
  <2>1. UNCHANGED Contents
    BY <1>11 DEF AddItemFull, list, loop, Contents
  <2>2. ItemCount = MaxNum
    BY <1>3, <1>11 DEF AddItemFull, IInv, TypeOK, BufferSound
  <2>. QED
    BY <1>2, <1>11, <2>1, <2>2, SameCardinality DEF AddItemFull, Set!AddItem
<1>. QED
  BY <1>4, <1>5, <1>6, <1>7, <1>8, <1>9, <1>10, <1>11 DEF Calls, Set!Next

\* What a search finds is in the set.
LEMMA SearchedSet ==
  ASSUME IInv, pc \in Searching, NEW index, SearchEnds(index)
  PROVE  /\ index # INVALID_INDEX <=> call.it \in Contents
         /\ Cardinality(Contents) = ItemCount
<1>1. /\ Contents = Prefix(ItemCount) /\ Slots = 0 .. ItemCount - 1
      /\ Cardinality(Contents) = ItemCount
  BY ContentsArePrefix DEF Searching
<1>. QED
  BY <1>1, SearchIsRight DEF Prefix

LEMMA ContainedImplements ==
  ASSUME IInv, CallSound, NEW index, Contained(index)
  PROVE  \E it \in Values : Set!ContainsItem(it)
<1>1. index # INVALID_INDEX <=> call.it \in Contents
  BY SearchedSet DEF Contained, Searching
<1>2. UNCHANGED Contents
  BY DEF Contained, Returns, list, loop, Contents
<1>3. call.it \in Values /\ call.op = "containsItem"
  BY DEF Contained, CallSound
<1>4. answer' = Set!Answer("containsItem", Set!Bool(call.it \in Contents), call.it, {})
  BY <1>1, <1>3 DEF Contained, Returns, Answer, Set!Answer, Bool, Set!Bool
<1>. QED
  BY <1>2, <1>3, <1>4 DEF Set!ContainsItem

LEMMA AddItemFoundImplements ==
  ASSUME IInv, CallSound, NEW index, AddItemFound(index)
  PROVE  (\E it \in Values : Set!AddItem(it)) \/ UNCHANGED <<Contents, answer>>
<1>1. CASE index # INVALID_INDEX
  <2>1. call.it \in Contents /\ Cardinality(Contents) = ItemCount
    BY <1>1, SearchedSet DEF AddItemFound, Searching
  <2>2. ItemCount # MaxNum
    BY ItemsListAssumption DEF AddItemFound, IInv, Searched, Searching, TypeOK, BufferSound
  <2>3. UNCHANGED Contents
    BY <1>1 DEF AddItemFound, Returns, list, loop, Contents
  <2>4. call.it \in Values /\ call.op = "addItem"
    BY DEF AddItemFound, CallSound
  <2>5. answer' = Set!Answer("addItem", "ADD_ALREADY_EXIST", call.it, {})
    BY <1>1, <2>4, SameAnswers DEF AddItemFound, Returns
  <2>6. Set!AddItem(call.it)
    BY <2>1, <2>2, <2>3, <2>5, SameCardinality DEF Set!AddItem
  <2>. QED
    BY <2>4, <2>6
<1>2. CASE index = INVALID_INDEX
  BY <1>2, Stutters DEF AddItemFound, SearchFromStart, list
<1>. QED
  BY <1>1, <1>2

\* The abstract AddItem, of a new item.
LEMMA NewItem ==
  ASSUME CallSound, pc \notin {"idle", "bugcheck"}, call.op = "addItem", Returns("ADD_OK"),
         call.it \notin Contents, Cardinality(Contents) # MaxNum,
         Contents' = Contents \cup {call.it}
  PROVE  \E it \in Values : Set!AddItem(it)
<1>1. answer' = Set!Answer("addItem", "ADD_OK", call.it, {})
  BY SameAnswers DEF Returns
<1>2. Set!AddItem(call.it)
  BY <1>1, SameCardinality DEF Set!AddItem
<1>. QED
  BY <1>2 DEF CallSound

LEMMA AddFirstImplements ==
  ASSUME IInv, IInv', CallSound, NEW index, AddFirst(index)
  PROVE  \E it \in Values : Set!AddItem(it)
<1>1. /\ pc = "searchAgain" /\ pc' = "idle" /\ ItemCount = 0 /\ ItemCount' = 1
      /\ Items' = [Items EXCEPT ![0] = call.it] /\ Returns("ADD_OK")
  BY DEF AddFirst, Returns
<1>2. Contents = {}
  BY <1>1 DEF Contents
<1>3. Items \in [0 .. MaxNum -> Values \cup {0}] /\ 0 \in 0 .. MaxNum
  BY <1>1, ItemsListAssumption DEF IInv, TypeOK, Added
<1>4. Contents' = {call.it}
  <2>1. 0 .. ItemCount' - 1 = {0}
    BY <1>1
  <2>2. Contents' = {Items'[j] : j \in {0}}
    BY <1>1, <2>1 DEF Contents
  <2>. QED
    BY <1>1, <1>3, <2>2
<1>5. Cardinality(Contents) # MaxNum
  BY <1>2, FS_EmptySet, ItemsListAssumption
<1>6. call.op = "addItem"
  BY <1>1 DEF IInv, Added
<1>. QED
  BY <1>1, <1>2, <1>4, <1>5, <1>6, NewItem

LEMMA ShiftItemsRightImplements ==
  ASSUME IInv, ShiftItemsRight
  PROVE  UNCHANGED <<Contents, answer>>
<1>1. /\ pc = "shiftItemsRight" /\ pc' = pc /\ i > indx /\ i' = i - 1
      /\ Items' = [Items EXCEPT ![i] = Items[i - 1]]
      /\ UNCHANGED <<ItemCount, answer>>
  BY DEF ShiftItemsRight
<1>2. indx <= i /\ i <= ItemCount
  BY <1>1 DEF IInv, ShiftedRight
<1>3. /\ ItemCount \in 0 .. MaxNum /\ i \in 0 .. MaxNum /\ indx \in 0 .. MaxNum
      /\ MaxNum \in Nat /\ Items \in [0 .. MaxNum -> Values \cup {0}]
  BY <1>1, ItemsListAssumption DEF IInv, TypeOK, Added
<1>4. /\ Contents = {Items[j] : j \in (0 .. ItemCount) \ {i}}
      /\ Contents' = {Items'[j] : j \in (0 .. ItemCount) \ {i - 1}}
  BY <1>1 DEF Contents
<1>5. /\ i \in (0 .. ItemCount) \ {i - 1} /\ i - 1 \in (0 .. ItemCount) \ {i}
      /\ Items'[i] = Items[i - 1]
      /\ \A j \in 0 .. ItemCount : j # i => Items'[j] = Items[j]
  BY <1>1, <1>2, <1>3
<1>6. Contents' \subseteq Contents
  <2>. SUFFICES ASSUME NEW j \in (0 .. ItemCount) \ {i - 1} PROVE Items'[j] \in Contents
    BY <1>4
  <2>. QED
    BY <1>4, <1>5
<1>7. Contents \subseteq Contents'
  <2>. SUFFICES ASSUME NEW j \in (0 .. ItemCount) \ {i} PROVE Items[j] \in Contents'
    BY <1>4
  <2>. QED
    BY <1>4, <1>5
<1>. QED
  BY <1>1, <1>6, <1>7

\* The array with the new item is the one without it and the item.
LEMMA ItemPlacedImplements ==
  ASSUME IInv, IInv', CallSound, ItemPlaced
  PROVE  \E it \in Values : Set!AddItem(it)
<1>1. /\ pc = "shiftItemsRight" /\ pc' = "idle" /\ i <= indx
      /\ Items' = [Items EXCEPT ![indx] = call.it] /\ ItemCount' = ItemCount + 1
      /\ Returns("ADD_OK")
  BY DEF ItemPlaced, Returns
<1>2. /\ indx <= i /\ i <= ItemCount /\ Items # NULL /\ ItemCount < MaxItemCount
      /\ call.op = "addItem" /\ \A j \in Slots : Items[j] # call.it
  BY <1>1 DEF IInv, ShiftedRight, Added
<1>3. /\ ItemCount \in 0 .. MaxNum /\ i \in 0 .. MaxNum /\ MaxNum \in Nat
      /\ MaxItemCount \in {0, MaxNum} /\ indx = i
      /\ Items \in [0 .. MaxNum -> Values \cup {0}]
  BY <1>1, <1>2, ItemsListAssumption DEF IInv, TypeOK
<1>4. /\ Slots = (0 .. ItemCount) \ {i}
      /\ Contents = {Items[j] : j \in (0 .. ItemCount) \ {i}}
      /\ Contents' = {Items'[j] : j \in 0 .. ItemCount}
      /\ Slots' = 0 .. ItemCount
  BY <1>1, <1>3 DEF Contents, Slots
<1>5. call.it \notin Contents
  BY <1>2, <1>4
<1>6. Contents' = Contents \cup {call.it}
  <2>1. Items'[i] = call.it /\ \A j \in (0 .. ItemCount) \ {i} : Items'[j] = Items[j]
    BY <1>1, <1>2, <1>3
  <2>2. i \in 0 .. ItemCount
    BY <1>2, <1>3
  <2>. QED
    BY <1>4, <2>1, <2>2
<1>7. IsFiniteSet(Contents') /\ Cardinality(Contents') = ItemCount + 1
  <2>1. \A j \in 0 .. ItemCount : Items'[j] \in Int
    <3>1. \A v \in Values \cup {0} : v \in Int
      BY ItemsListAssumption
    <3>2. \A j \in 0 .. ItemCount : Items'[j] \in Values \cup {0}
      BY <1>1, <1>2, <1>3 DEF IInv, TypeOK
    <3>. QED
      BY <3>1, <3>2
  <2>2. \A j, k \in 0 .. ItemCount : j < k => Items'[j] < Items'[k]
    BY <1>4 DEF IInv, Sorted
  <2>3. ItemCount + 1 \in Nat /\ (ItemCount + 1) - 1 = ItemCount
    BY <1>3
  <2>. QED
    BY <1>4, <2>1, <2>2, <2>3, AscendingSize, ZenonT(60)
<1>8. Contents = Contents' \ {call.it}
  BY <1>5, <1>6
<1>9. Cardinality(Contents) = ItemCount
  <2>1. call.it \in Contents'
    BY <1>6
  <2>2. Cardinality(Contents' \ {call.it}) = Cardinality(Contents') - 1
    BY <1>7, <2>1, FS_RemoveElement
  <2>. QED
    BY <1>3, <1>7, <1>8, <2>2
<1>. QED
  BY <1>1, <1>2, <1>3, <1>5, <1>6, <1>9, NewItem

LEMMA DeleteItemFoundImplements ==
  ASSUME IInv, CallSound, NEW index, DeleteItemFound(index)
  PROVE  (\E it \in Values : Set!DeleteItem(it)) \/ UNCHANGED <<Contents, answer>>
<1>1. index # INVALID_INDEX <=> call.it \in Contents
  BY SearchedSet DEF DeleteItemFound, Searching
<1>2. CASE index = INVALID_INDEX
  <2>1. UNCHANGED Contents
    BY <1>2 DEF DeleteItemFound, Returns, list, loop, Contents
  <2>2. call.it \in Values /\ call.op = "deleteItem"
    BY DEF DeleteItemFound, CallSound
  <2>3. answer' = Set!Answer("deleteItem", Set!Bool(call.it \in Contents), call.it, {})
    BY <1>1, <1>2, <2>2 DEF DeleteItemFound, Returns, Answer, Set!Answer, Set!Bool
  <2>4. Contents \ {call.it} = Contents
    BY <1>1, <1>2
  <2>. QED
    BY <2>1, <2>2, <2>3, <2>4 DEF Set!DeleteItem
<1>3. CASE index # INVALID_INDEX
  <2>1. /\ Contents = {Items[j] : j \in 0 .. ItemCount - 1}
        /\ Contents' = {Items'[j] : j \in 0 .. ItemCount' - 1} \cup {call'.it}
        /\ UNCHANGED <<Items, ItemCount, call, answer>>
    BY <1>3 DEF DeleteItemFound, list, Contents
  <2>. QED
    BY <1>1, <1>3, <2>1
<1>. QED
  BY <1>2, <1>3

LEMMA ShiftItemsLeftImplements ==
  ASSUME IInv, ShiftItemsLeft
  PROVE  UNCHANGED <<Contents, answer>>
<1>1. /\ pc = "shiftItemsLeft" /\ pc' = pc /\ i < ItemCount
      /\ Items' = [Items EXCEPT ![i - 1] = Items[i]]
      /\ UNCHANGED <<ItemCount, call, answer>>
  BY DEF ShiftItemsLeft
<1>2. 0 < i /\ (Items[i - 1] = call.it \/ (i > 1 /\ Items[i - 1] = Items[i - 2]))
  BY <1>1 DEF IInv, ShiftedLeft
<1>3. /\ ItemCount \in 0 .. MaxNum /\ i \in 0 .. MaxNum
      /\ MaxNum \in Nat /\ Items \in [0 .. MaxNum -> Values \cup {0}]
  BY <1>1, ItemsListAssumption DEF IInv, TypeOK, ShiftedLeft
<1>4. /\ Contents = {Items[j] : j \in 0 .. ItemCount - 1} \cup {call.it}
      /\ Contents' = {Items'[j] : j \in 0 .. ItemCount - 1} \cup {call.it}
  BY <1>1 DEF Contents
<1>5. /\ i \in 0 .. ItemCount - 1
      /\ Items'[i - 1] = Items[i]
      /\ \A j \in 0 .. ItemCount - 1 : j # i - 1 => Items'[j] = Items[j]
      /\ i > 1 => i - 2 \in 0 .. ItemCount - 1 /\ i - 2 # i - 1
  BY <1>1, <1>2, <1>3
<1>6. Contents' \subseteq Contents
  <2>. SUFFICES ASSUME NEW j \in 0 .. ItemCount - 1 PROVE Items'[j] \in Contents
    BY <1>4
  <2>. QED
    BY <1>4, <1>5
<1>7. Contents \subseteq Contents'
  <2>. SUFFICES ASSUME NEW j \in 0 .. ItemCount - 1 PROVE Items[j] \in Contents'
    BY <1>4
  <2>1. CASE j # i - 1
    BY <1>4, <1>5, <2>1
  <2>2. CASE j = i - 1
    <3>1. i > 1 => Items'[i - 2] = Items[i - 2] /\ Items'[i - 2] \in Contents'
      BY <1>4, <1>5
    <3>. QED
      BY <1>2, <1>4, <2>2, <3>1
  <2>. QED
    BY <2>1, <2>2
<1>. QED
  BY <1>1, <1>6, <1>7

\* What is dropped with the last slot is a copy, or the item.
LEMMA ItemDroppedImplements ==
  ASSUME IInv, CallSound, ItemDropped
  PROVE  \E it \in Values : Set!DeleteItem(it)
<1>1. /\ pc = "shiftItemsLeft" /\ pc' = "idle" /\ i >= ItemCount /\ Returns("TRUE")
  BY DEF ItemDropped, Returns
<1>2. /\ 0 < i /\ i <= ItemCount /\ call.op = "deleteItem"
      /\ Items[i - 1] = call.it \/ (i > 1 /\ Items[i - 1] = Items[i - 2])
      /\ \A j \in Slots : Items[j] # call.it
  BY <1>1 DEF IInv, ShiftedLeft
<1>3. /\ ItemCount \in 0 .. MaxNum /\ i = ItemCount /\ i \in Nat
      /\ MaxNum \in Nat /\ Items \in [0 .. MaxNum -> Values \cup {0}]
  BY <1>1, <1>2, ItemsListAssumption DEF IInv, TypeOK, ShiftedLeft
<1>4. /\ Contents = {Items[j] : j \in 0 .. ItemCount - 1} \cup {call.it}
      /\ Contents' = {Items'[j] : j \in 0 .. ItemCount' - 1}
      /\ Slots = (0 .. ItemCount - 1) \ {i - 1}
  BY <1>1 DEF Contents, Slots
<1>5. Slots = 0 .. ItemCount - 2
  BY <1>3, <1>4
<1>6. Contents' = {Items[j] : j \in Slots}
  <2>1. CASE ItemCount = 1
    <3>1. ItemCount' = 0 /\ 0 .. ItemCount' - 1 = {} /\ Slots = {}
      BY <1>5, <2>1 DEF ItemDropped
    <3>. QED
      BY <1>4, <3>1
  <2>2. CASE ItemCount # 1
    <3>1. Items' = [Items EXCEPT ![ItemCount - 1] = 0] /\ ItemCount' = ItemCount - 1
      BY <2>2 DEF ItemDropped
    <3>2. 0 .. ItemCount' - 1 = Slots
      BY <1>3, <1>5, <3>1
    <3>3. \A j \in Slots : Items'[j] = Items[j]
      BY <1>3, <1>5, <3>1
    <3>. QED
      BY <1>4, <3>2, <3>3
  <2>. QED
    BY <2>1, <2>2
<1>7. Contents \ {call.it} = {Items[j] : j \in Slots}
  <2>1. {Items[j] : j \in Slots} \subseteq Contents \ {call.it}
    BY <1>2, <1>4
  <2>2. ASSUME NEW j \in 0 .. ItemCount - 1, Items[j] # call.it
        PROVE  Items[j] \in {Items[k] : k \in Slots}
    <3>1. CASE j \in Slots
      BY <3>1
    <3>2. CASE j \notin Slots
      <4>1. j = i - 1
        BY <1>4, <3>2
      <4>2. i > 1 /\ Items[j] = Items[i - 2]
        BY <1>2, <2>2, <4>1
      <4>3. i - 2 \in Slots
        BY <1>3, <1>5, <4>2
      <4>. QED
        BY <4>2, <4>3
    <3>. QED
      BY <3>1, <3>2
  <2>. QED
    BY <1>4, <2>1, <2>2
<1>8. answer' = Set!Answer("deleteItem", Set!Bool(call.it \in Contents), call.it, {})
  BY <1>1, <1>2, <1>4 DEF Returns, Answer, Set!Answer, Set!Bool
<1>9. call.it \in Values
  BY <1>1 DEF CallSound
<1>. QED
  BY <1>6, <1>7, <1>8, <1>9 DEF Set!DeleteItem

LEMMA LoopsImplement ==
  ASSUME IInv, IInv', CallSound, LoopStep
  PROVE  [Set!Next]_<<Contents, answer>>
<1>1. CASE SearchGoesOn
  BY <1>1, Stutters DEF SearchGoesOn, Searching, list
<1>2. ASSUME NEW index, AddSorted(index) PROVE UNCHANGED <<Contents, answer>>
  BY <1>2, Stutters DEF AddSorted, list
<1>3. CASE FindFirstGreater
  BY <1>3, Stutters DEF FindFirstGreater, list
<1>4. CASE FirstGreaterFound
  <2>1. /\ pc = "findFirstGreater" /\ ItemCount < MaxItemCount
    BY <1>4 DEF FirstGreaterFound, IInv, Added
  <2>2. ItemCount \in 0 .. MaxNum /\ MaxNum \in Nat /\ MaxItemCount \in {0, MaxNum}
    BY ItemsListAssumption DEF IInv, TypeOK
  <2>3. /\ pc' = "shiftItemsRight" /\ i' = ItemCount /\ UNCHANGED <<Items, ItemCount, answer>>
    BY <1>4, <2>1, <2>2 DEF FirstGreaterFound, list
  <2>4. /\ Contents = {Items[j] : j \in 0 .. ItemCount - 1}
        /\ Contents' = {Items[j] : j \in (0 .. ItemCount) \ {ItemCount}}
    BY <2>1, <2>3 DEF Contents
  <2>5. (0 .. ItemCount) \ {ItemCount} = 0 .. ItemCount - 1
    BY <2>2
  <2>. QED
    BY <2>3, <2>4, <2>5
<1>. QED
  BY <1>1, <1>2, <1>3, <1>4, ContainedImplements, AddItemFoundImplements,
     AddFirstImplements, DeleteItemFoundImplements, ShiftItemsRightImplements,
     ItemPlacedImplements, ShiftItemsLeftImplements, ItemDroppedImplements
     DEF LoopStep, Set!Next

LEMMA NextImplements ==
  IInv /\ IInv' /\ CallSound /\ [Next]_vars => [Set!Next]_<<Contents, answer>>
<1>. SUFFICES ASSUME IInv, IInv', CallSound, [Next]_vars
              PROVE  [Set!Next]_<<Contents, answer>>
  OBVIOUS
<1>1. CASE Calls
  BY <1>1, CallsImplement
<1>2. CASE AllocationFails
  BY <1>2, Stutters DEF AllocationFails, list
<1>3. CASE LoopStep
  BY <1>3, LoopsImplement
<1>4. CASE UNCHANGED vars
  BY <1>4 DEF vars, Contents
<1>. QED
  BY <1>1, <1>2, <1>3, <1>4 DEF Next

LEMMA InitImplements == Init => CallSound /\ Set!Init
BY SameAnswers DEF Init, CallSound, Contents, Set!Init

\* Sorted insertion, binary search and shifting deletion answer like the
\* operations of a set of at most MaxNum items, for every capacity: addItem,
\* deleteItem, containsItem, canAddItem, countItems, copyItems and destroy.
THEOREM ListImplementsSet == Spec => ImplementsBoundedSet
<1>1. Spec => []CallSound
  BY InitImplements, CallStaysSound, PTL DEF Spec
<1>. QED
  BY <1>1, IInvIsInvariant, InitImplements, NextImplements, PTL
     DEF Spec, ImplementsBoundedSet, Set!Spec

=============================================================================
