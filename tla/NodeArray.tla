------------------------------ MODULE NodeArray ------------------------------
(***************************************************************************)
(* The memory of the watch list: the array Items[0 .. MaxItemCount], whose *)
(* slots hold a node's fields and two pointers, and the heap blocks that   *)
(* the pointers lead to, each an ItemsList with its buffer.                *)
(*                                                                         *)
(* _DestroyNodeIfEmpty copies the last slot over the one that is freed and *)
(* leaves the pointers of the last slot as they are, so that at every      *)
(* moment slots beyond ItemCount hold pointers that another slot owns, or  *)
(* that have been freed.  Reads go through the pointers here, as in the    *)
(* code: a list that is shared, or freed too early, shows in what the      *)
(* operations answer.                                                      *)
(*                                                                         *)
(* Allocations succeed: where one does not, AllocBuffer writes to address  *)
(* 0 (module ItemsList), and the paths that clean up after it are dead.    *)
(***************************************************************************)
EXTENDS ProcessNodes

CONSTANTS
  Cells,  \* heap blocks, numbered
  NULL    \* the null pointer

ASSUME CellsAssumption ==
  Cells \subseteq Nat /\ IsFiniteSet(Cells) /\ Cardinality(Cells) >= 2 * MaxNodes

ASSUME NullAssumption == NULL \notin Cells

VARIABLE mem  \* the list and its heap, a record:
              \*   items         the plain fields of Items[0 .. ItemCount-1]
              \*   pointers      the two pointers of every slot of the array
              \*   maxItemCount  0 while there is no array
              \*   allocated     the heap blocks in use
              \*   content       what each heap block holds

NoLists == [processList |-> NULL, filesList |-> NULL]

Init ==
  mem = [ items        |-> << >>,
          pointers     |-> [i \in 1 .. MaxNodes |-> NoLists],
          maxItemCount |-> MaxNodes,
          allocated    |-> {},
          content      |-> [c \in Cells |-> {}] ]

-----------------------------------------------------------------------------
(* Reading through the pointers                                            *)

ListAt(m, p) == IF p = NULL THEN {} ELSE m.content[p]

\* The array of nodes that the loops of ProcessNodesList see.
View(m) ==
  [i \in DOMAIN m.items |->
     [ rootPid        |-> m.items[i].rootPid,
       imgFile        |-> m.items[i].imgFile,
       processList    |-> ListAt(m, m.pointers[i].processList),
       filesList      |-> ListAt(m, m.pointers[i].filesList),
       respawnProtect |-> m.items[i].respawnProtect ]]

-----------------------------------------------------------------------------
(* struct ProcessNode: the slot i of the memory m                          *)

\* The allocator may hand out a block that a stale pointer still leads to:
\* it gives the lowest free one.
AllocBuffer(m) == First(Cells \ m.allocated)

\* A pointer that is null gets a new, empty list.
InitList(m, i, list) ==
  LET c == AllocBuffer(m)
  IN  IF m.pointers[i][list] # NULL THEN m
      ELSE [m EXCEPT !.pointers[i][list] = c, !.allocated = @ \cup {c}, !.content[c] = {}]

\* Fault: the two pointers get the same list.
InitListsShared(m, i) ==
  LET n == InitList(m, i, "processList")
  IN  [n EXCEPT !.pointers[i].filesList = n.pointers[i].processList]

InitLists(m, i) == InitList(InitList(m, i, "processList"), i, "filesList")

\* Fault: the pointers that are left in the slot are kept.
InitNodeKeepingPointers(m, pid, noresp, img) ==
  [m EXCEPT !.items = Append(@, [rootPid |-> pid, imgFile |-> img, respawnProtect |-> noresp])]

\* _getNewItemPtr and _init: the slot after the last one in use.
InitNode(m, pid, noresp, img) ==
  [m EXCEPT !.items = Append(@, [rootPid |-> pid, imgFile |-> img, respawnProtect |-> noresp]),
            !.pointers[Len(m.items) + 1] = NoLists]

AddItem(m, i, list, it) == [m EXCEPT !.content[m.pointers[i][list]] = @ \cup {it}]

DeleteItem(m, i, list, it) == [m EXCEPT !.content[m.pointers[i][list]] = @ \ {it}]

FreeList(m, i, list) ==
  LET c == m.pointers[i][list]
  IN  IF c = NULL THEN m
      ELSE [m EXCEPT !.pointers[i][list] = NULL, !.allocated = @ \ {c}, !.content[c] = {}]

\* Fault: the lists of files are forgotten.
DestroyHalf(m, i) == FreeList(m, i, "processList")

Destroy(m, i) == FreeList(FreeList(m, i, "processList"), i, "filesList")

Copy(m, i, j) == [m EXCEPT !.items[i] = m.items[j], !.pointers[i] = m.pointers[j]]

-----------------------------------------------------------------------------
(* struct ProcessNodesList                                                 *)

DropLast(m) == [m EXCEPT !.items = SubSeq(@, 1, Len(@) - 1)]

\* _DestroyNodeIfEmpty
FreeNodeIfEmpty(m, i) ==
  IF ~IsEmptyNode(View(m)[i]) THEN m
  ELSE DropLast(IF Len(m.items) > 1 THEN Copy(Destroy(m, i), i, Len(m.items))
                                    ELSE Destroy(m, i))

\* While there is no array, the capacity is 0 and no node can be added.
HasNoRoom(m) == Len(m.items) >= m.maxItemCount

CreateNode(pid, imgFile, noresp) ==
  /\ AddProcessNodeStatus(View(mem), pid) = "ADD_OK"
  /\ ~HasNoRoom(mem)
  /\ LET i == Len(mem.items) + 1
         m == InitLists(InitNode(mem, pid, noresp, imgFile), i)
     IN  mem' = AddItem(m, i, "processList", pid)

SpawnProcess(pid, parentPid) ==
  /\ AddProcessStatus(View(mem), pid, parentPid) = "ADD_OK"
  /\ mem' = AddItem(mem, First(TreesOf(View(mem), parentPid)), "processList", pid)

RemoveProcess(pid) ==
  LET i == First(Holding(View(mem), pid))
  IN  /\ Holding(View(mem), pid) # {}
      /\ mem' = FreeNodeIfEmpty(DeleteItem(mem, i, "processList", pid), i)

WithoutFile(m, fileId) ==
  LET i == First(Owning(View(m), fileId))
  IN  FreeNodeIfEmpty(DeleteItem(m, i, "filesList", fileId), i)

RemoveFile(fileId) ==
  /\ Owning(View(mem), fileId) # {}
  /\ mem' = WithoutFile(mem, fileId)

\* The tree of the parent is looked for again once the file's previous owner,
\* and perhaps its slot, is gone; the addition itself may then be refused.
TakeFile(fileId, parentPid) ==
  LET m == IF PreviousAssociation(View(mem), fileId, parentPid) = "DELETE_OK"
           THEN WithoutFile(mem, fileId) ELSE mem
      i == First(Holding(View(m), parentPid))
  IN  /\ FileAdmission(View(mem), fileId, parentPid) = "ADD_OK"
      /\ mem' = IF AddFileStatus(View(mem), fileId, parentPid) = "ADD_OK"
                THEN AddItem(m, i, "filesList", fileId) ELSE m

ListsInUse(m) ==
  UNION {{m.pointers[i].processList, m.pointers[i].filesList} : i \in DOMAIN m.items}

\* Fault: the count outlives the array.
DestroyListKeepingCount ==
  /\ mem.maxItemCount # 0
  /\ mem' = [ items        |-> mem.items,
              pointers     |-> [i \in 1 .. MaxNodes |-> NoLists],
              maxItemCount |-> 0,
              allocated    |-> mem.allocated \ ListsInUse(mem),
              content      |-> [c \in Cells |-> IF c \in ListsInUse(mem) THEN {}
                                                ELSE mem.content[c]] ]

\* destroy: the lists of every node in use, then the array.
DestroyList ==
  /\ mem.maxItemCount # 0
  /\ mem' = [ items        |-> << >>,
              pointers     |-> [i \in 1 .. MaxNodes |-> NoLists],
              maxItemCount |-> 0,
              allocated    |-> mem.allocated \ ListsInUse(mem),
              content      |-> [c \in Cells |-> IF c \in ListsInUse(mem) THEN {}
                                                ELSE mem.content[c]] ]

\* initItems, when the driver is loaded: an array that is cleared.
AllocateList ==
  /\ mem.maxItemCount = 0
  /\ mem' = [mem EXCEPT !.items = << >>, !.maxItemCount = MaxNodes,
                        !.pointers = [i \in 1 .. MaxNodes |-> NoLists]]

Next ==
  \/ \E pid \in Pids, imgFile \in Files \cup {NoFile}, noresp \in t_noresp :
        CreateNode(pid, imgFile, noresp)
  \/ \E pid \in Pids, parentPid \in Pids : SpawnProcess(pid, parentPid)
  \/ \E pid \in Pids : RemoveProcess(pid)
  \/ \E fileId \in Files, parentPid \in Pids : TakeFile(fileId, parentPid)
  \/ \E fileId \in Files : RemoveFile(fileId)
  \/ DestroyList
  \/ AllocateList

Spec == Init /\ [][Next]_mem

-----------------------------------------------------------------------------
\* The array is as long as ItemCount says and within MaxItemCount; pointers
\* are null or lead into the heap, and a free block holds nothing.
TypeOK ==
  /\ mem.items \in Seq([rootPid : Pids, imgFile : Files \cup {NoFile}, respawnProtect : t_noresp])
  /\ mem.maxItemCount \in {0, MaxNodes} /\ Len(mem.items) <= mem.maxItemCount
  /\ mem.pointers \in [1 .. MaxNodes -> [processList : Cells \cup {NULL}, filesList : Cells \cup {NULL}]]
  /\ mem.allocated \subseteq Cells
  /\ \A c \in Cells \ mem.allocated : mem.content[c] = {}

\* Each node in use owns two lists that are allocated, and shares neither
\* with another node: so no list is used after it has been freed, and none
\* is freed twice, whatever the slots beyond ItemCount still point at.
ListsOwnedOnce ==
  /\ ListsInUse(mem) \subseteq mem.allocated
  /\ Cardinality(ListsInUse(mem)) = 2 * Len(mem.items)

\* A list that no node in use owns has been freed: nothing is lost when a
\* node goes or when the driver is unloaded.
NoListLost == mem.allocated \subseteq ListsInUse(mem)

-----------------------------------------------------------------------------
\* What the operations do through the pointers is what they do to the values.
List == INSTANCE WatchList WITH nodes <- View(mem)

\* Copying pointers, leaving stale ones behind and handing out freed blocks
\* again never shows in the list: the array is a list of values.
ImplementsList == List!Spec
=============================================================================
