--------------------------- MODULE NodeArrayProofs ---------------------------
(***************************************************************************)
(* Theorems about the memory of the watch list: the lists of nodes in use  *)
(* are allocated and not shared, none is lost, and the operations through  *)
(* the pointers are the operations on values of WatchList.                 *)
(*                                                                         *)
(* The invariant says nothing of the slots beyond ItemCount: whatever      *)
(* their pointers lead to, _init clears them before it takes a slot.       *)
(***************************************************************************)
EXTENDS NodeArray, ProcessNodesProofs, FunctionTheorems

-----------------------------------------------------------------------------
(* The invariant                                                           *)

Fields == [rootPid : Pids, imgFile : Files \cup {NoFile}, respawnProtect : t_noresp]

Pointers == [processList : Cells \cup {NULL}, filesList : Cells \cup {NULL}]

Memory ==
  [ items        : Seq(Fields),
    pointers     : [1 .. MaxNodes -> Pointers],
    maxItemCount : {0, MaxNodes},
    allocated    : SUBSET Cells,
    content      : [Cells -> SUBSET (Pids \cup Files)] ]

InUse(m) == 1 .. Len(m.items)

PL(m, i) == m.pointers[i].processList

FL(m, i) == m.pointers[i].filesList

\* The slots in use lead to lists, and these hold what they should.
Leads(m) ==
  \A i \in InUse(m) :
    /\ PL(m, i) \in m.allocated /\ m.content[PL(m, i)] \subseteq Pids
    /\ FL(m, i) \in m.allocated /\ m.content[FL(m, i)] \subseteq Files

\* No two of their pointers are equal.
Unshared(m) ==
  \A i, j \in InUse(m) :
    /\ PL(m, i) # FL(m, j)
    /\ i # j => PL(m, i) # PL(m, j) /\ FL(m, i) # FL(m, j)

\* Nothing else is allocated, and what is free is empty.
Accounted(m) ==
  /\ \A c \in m.allocated : \E i \in InUse(m) : c \in {PL(m, i), FL(m, i)}
  /\ \A c \in Cells \ m.allocated : m.content[c] = {}

Owned(m) ==
  /\ m \in Memory
  /\ Len(m.items) <= m.maxItemCount
  /\ Leads(m)
  /\ Unshared(m)
  /\ Accounted(m)

LEMMA MemoryTyped ==
  ASSUME NEW m, m \in Memory, Len(m.items) <= m.maxItemCount
  PROVE  /\ Len(m.items) \in Nat /\ Len(m.items) <= MaxNodes
         /\ DOMAIN m.items = InUse(m) /\ InUse(m) \subseteq 1 .. MaxNodes
         /\ \A i \in InUse(m) : m.items[i] \in Fields
         /\ \A i \in 1 .. MaxNodes :
              m.pointers[i] \in Pointers /\ PL(m, i) \in Cells \cup {NULL} /\ FL(m, i) \in Cells \cup {NULL}
<1>1. m.items \in Seq(Fields) /\ m.maxItemCount \in {0, MaxNodes}
      /\ m.pointers \in [1 .. MaxNodes -> Pointers] /\ MaxNodes \in Nat
  BY LimitAssumption DEF Memory
<1>2. Len(m.items) \in Nat /\ DOMAIN m.items = 1 .. Len(m.items)
      /\ \A i \in 1 .. Len(m.items) : m.items[i] \in Fields
  BY <1>1
<1>3. \A i \in 1 .. MaxNodes : m.pointers[i] \in Pointers
  BY <1>1
<1>. QED
  BY <1>1, <1>2, <1>3 DEF InUse, PL, FL, Pointers

\* What is seen of a slot in use.
Seen(m, i) ==
  [ rootPid        |-> m.items[i].rootPid,
    imgFile        |-> m.items[i].imgFile,
    processList    |-> m.content[PL(m, i)],
    filesList      |-> m.content[FL(m, i)],
    respawnProtect |-> m.items[i].respawnProtect ]

LEMMA ViewOf ==
  ASSUME NEW m, Owned(m)
  PROVE  /\ View(m) \in Seq(ProcessNode)
         /\ Len(View(m)) = Len(m.items) /\ DOMAIN View(m) = InUse(m)
         /\ \A i \in InUse(m) : View(m)[i] = Seen(m, i) /\ Seen(m, i) \in ProcessNode
<1>1. /\ Len(m.items) \in Nat /\ DOMAIN m.items = InUse(m) /\ InUse(m) = 1 .. Len(m.items)
      /\ \A i \in InUse(m) : m.items[i] \in Fields
  BY MemoryTyped DEF Owned, InUse
<1>2. \A i \in InUse(m) : /\ PL(m, i) \in Cells /\ FL(m, i) \in Cells
                          /\ PL(m, i) # NULL /\ FL(m, i) # NULL
  BY NullAssumption DEF Owned, Memory, Leads
<1>3. \A i \in InUse(m) :
         /\ ListAt(m, m.pointers[i].processList) = m.content[PL(m, i)]
         /\ ListAt(m, m.pointers[i].filesList) = m.content[FL(m, i)]
  BY <1>2 DEF ListAt, PL, FL
<1>4. View(m) = [i \in InUse(m) |-> Seen(m, i)]
  BY <1>1, <1>3 DEF View, Seen
<1>5. \A i \in InUse(m) : Seen(m, i) \in ProcessNode
  BY <1>1 DEF Owned, Leads, Seen, ProcessNode, Fields
<1>. QED
  BY <1>1, <1>4, <1>5

\* Two memories of as many slots are seen alike when their slots are.
LEMMA SeenAlike ==
  ASSUME NEW m, Owned(m), NEW ns \in Seq(ProcessNode), Len(ns) = Len(m.items),
         \A i \in InUse(m) : View(m)[i] = ns[i]
  PROVE  View(m) = ns
<1>1. Len(View(m)) = Len(ns) /\ View(m) \in Seq(ProcessNode)
      /\ \A i \in 1 .. Len(ns) : View(m)[i] = ns[i]
  BY ViewOf DEF InUse
<1>. QED
  BY <1>1

Replace(ns, i, n) == [ns EXCEPT ![i] = n]

\* One slot is seen with another node on it, the others as they were.
LEMMA SeenBut ==
  ASSUME NEW m, Owned(m), NEW r, Owned(r), InUse(r) = InUse(m), NEW i \in InUse(m),
         NEW n, Seen(r, i) = n,
         \A j \in InUse(m) : j # i => Seen(r, j) = Seen(m, j)
  PROVE  View(r) = Replace(View(m), i, n)
<1>1. /\ View(m) \in Seq(ProcessNode) /\ DOMAIN View(m) = InUse(m)
      /\ \A j \in InUse(m) : View(m)[j] = Seen(m, j)
  BY ViewOf
<1>2. /\ View(r) \in Seq(ProcessNode) /\ DOMAIN View(r) = InUse(m)
      /\ \A j \in InUse(m) : View(r)[j] = Seen(r, j)
  BY ViewOf
<1>3. \A j \in InUse(m) : View(r)[j] = IF j = i THEN n ELSE View(m)[j]
  BY <1>1, <1>2
<1>4. /\ View(m) = [j \in InUse(m) |-> View(m)[j]]
      /\ View(r) = [j \in InUse(m) |-> View(r)[j]]
  BY <1>1, <1>2
<1>. QED
  BY <1>1, <1>3, <1>4 DEF Replace

-----------------------------------------------------------------------------
(* Writing to a list                                                       *)

Written(m, c, S) == [m EXCEPT !.content[c] = S]

\* No other list changes with the list that is written.
LEMMA WriteList ==
  ASSUME NEW m, Owned(m), NEW i \in InUse(m), NEW c \in {PL(m, i), FL(m, i)}, NEW S,
         c = PL(m, i) => S \subseteq Pids,
         c = FL(m, i) => S \subseteq Files,
         NEW r, r = Written(m, c, S)
  PROVE  /\ Owned(r) /\ InUse(r) = InUse(m)
         /\ \A j \in InUse(m) : j # i => Seen(r, j) = Seen(m, j)
         /\ c = PL(m, i) => Seen(r, i) = [Seen(m, i) EXCEPT !.processList = S]
         /\ c = FL(m, i) => Seen(r, i) = [Seen(m, i) EXCEPT !.filesList = S]
<1>1. c \in m.allocated /\ c \in Cells
  BY DEF Owned, Memory, Leads
<1>2. /\ r.items = m.items /\ r.pointers = m.pointers /\ r.maxItemCount = m.maxItemCount
      /\ r.allocated = m.allocated
      /\ r.content = [m.content EXCEPT ![c] = S]
      /\ r \in Memory
  BY <1>1 DEF Owned, Memory, Written
<1>3. /\ InUse(r) = InUse(m)
      /\ \A j : PL(r, j) = PL(m, j) /\ FL(r, j) = FL(m, j)
  BY <1>2 DEF InUse, PL, FL
<1>4. \A j \in InUse(m) :
        /\ PL(m, j) \in Cells /\ FL(m, j) \in Cells
        /\ r.content[PL(m, j)] = IF j = i /\ c = PL(m, i) THEN S ELSE m.content[PL(m, j)]
        /\ r.content[FL(m, j)] = IF j = i /\ c = FL(m, i) THEN S ELSE m.content[FL(m, j)]
  BY <1>1, <1>2 DEF Owned, Memory, Leads, Unshared
<1>5. PL(m, i) # FL(m, i)
  BY DEF Owned, Unshared
<1>6. Leads(r)
  BY <1>2, <1>3, <1>4, <1>5 DEF Owned, Leads
<1>7. Unshared(r)
  BY <1>3 DEF Owned, Unshared
<1>8. Accounted(r)
  BY <1>1, <1>2, <1>3 DEF Owned, Accounted, Memory
<1>9. Owned(r)
  BY <1>2, <1>6, <1>7, <1>8 DEF Owned
<1>10. \A j \in InUse(m) : j # i => Seen(r, j) = Seen(m, j)
  BY <1>2, <1>3, <1>4 DEF Seen
<1>11. c = PL(m, i) => Seen(r, i) = [Seen(m, i) EXCEPT !.processList = S]
  BY <1>2, <1>3, <1>4, <1>5 DEF Seen
<1>12. c = FL(m, i) => Seen(r, i) = [Seen(m, i) EXCEPT !.filesList = S]
  BY <1>2, <1>3, <1>4, <1>5 DEF Seen
<1>. QED
  BY <1>3, <1>9, <1>10, <1>11, <1>12

WithProcessList(ns, i, S) == [ns EXCEPT ![i].processList = S]

WithFilesList(ns, i, S) == [ns EXCEPT ![i].filesList = S]

LEMMA WriteProcessList ==
  ASSUME NEW m, Owned(m), NEW i \in InUse(m), NEW S \in SUBSET Pids,
         NEW r, r = Written(m, PL(m, i), S)
  PROVE  Owned(r) /\ View(r) = WithProcessList(View(m), i, S)
<1>1. PL(m, i) # FL(m, i) /\ View(m)[i] = Seen(m, i)
  BY ViewOf DEF Owned, Unshared
<1>2. /\ Owned(r) /\ InUse(r) = InUse(m)
      /\ \A j \in InUse(m) : j # i => Seen(r, j) = Seen(m, j)
      /\ Seen(r, i) = [Seen(m, i) EXCEPT !.processList = S]
  BY <1>1, WriteList
<1>3. View(r) = Replace(View(m), i, Seen(r, i))
  BY <1>2, SeenBut
<1>. QED
  BY <1>1, <1>2, <1>3 DEF Replace, WithProcessList

LEMMA WriteFilesList ==
  ASSUME NEW m, Owned(m), NEW i \in InUse(m), NEW S \in SUBSET Files,
         NEW r, r = Written(m, FL(m, i), S)
  PROVE  Owned(r) /\ View(r) = WithFilesList(View(m), i, S)
<1>1. PL(m, i) # FL(m, i) /\ View(m)[i] = Seen(m, i)
  BY ViewOf DEF Owned, Unshared
<1>2. /\ Owned(r) /\ InUse(r) = InUse(m)
      /\ \A j \in InUse(m) : j # i => Seen(r, j) = Seen(m, j)
      /\ Seen(r, i) = [Seen(m, i) EXCEPT !.filesList = S]
  BY <1>1, WriteList
<1>3. View(r) = Replace(View(m), i, Seen(r, i))
  BY <1>2, SeenBut
<1>. QED
  BY <1>1, <1>2, <1>3 DEF Replace, WithFilesList

\* An item that is added through a pointer is added to the node, and one that
\* is deleted is deleted from it.
LEMMA ProcessAdded ==
  ASSUME NEW m, Owned(m), NEW i \in InUse(m), NEW it \in Pids,
         NEW r, r = AddItem(m, i, "processList", it)
  PROVE  Owned(r) /\ View(r) = WithProcessList(View(m), i, View(m)[i].processList \cup {it})
<1>1. PICK S : S = m.content[PL(m, i)] \cup {it}
  OBVIOUS
<1>2. Seen(m, i).processList = m.content[PL(m, i)] /\ S \in SUBSET Pids
  BY <1>1 DEF Seen, Owned, Leads
<1>3. View(m)[i].processList \cup {it} = S
  BY <1>1, <1>2, ViewOf
<1>4. r = Written(m, PL(m, i), S)
  BY <1>1 DEF AddItem, Written, PL
<1>5. Owned(r) /\ View(r) = WithProcessList(View(m), i, S)
  BY <1>2, <1>4, WriteProcessList
<1>. QED
  BY <1>3, <1>5

LEMMA ProcessDeleted ==
  ASSUME NEW m, Owned(m), NEW i \in InUse(m), NEW it,
         NEW r, r = DeleteItem(m, i, "processList", it)
  PROVE  Owned(r) /\ View(r) = WithProcessList(View(m), i, View(m)[i].processList \ {it})
<1>1. PICK S : S = m.content[PL(m, i)] \ {it}
  OBVIOUS
<1>2. Seen(m, i).processList = m.content[PL(m, i)] /\ S \in SUBSET Pids
  BY <1>1 DEF Seen, Owned, Leads
<1>3. View(m)[i].processList \ {it} = S
  BY <1>1, <1>2, ViewOf
<1>4. r = Written(m, PL(m, i), S)
  BY <1>1 DEF DeleteItem, Written, PL
<1>5. Owned(r) /\ View(r) = WithProcessList(View(m), i, S)
  BY <1>2, <1>4, WriteProcessList
<1>. QED
  BY <1>3, <1>5

LEMMA FileAdded ==
  ASSUME NEW m, Owned(m), NEW i \in InUse(m), NEW it \in Files,
         NEW r, r = AddItem(m, i, "filesList", it)
  PROVE  Owned(r) /\ View(r) = WithFilesList(View(m), i, View(m)[i].filesList \cup {it})
<1>1. PICK S : S = m.content[FL(m, i)] \cup {it}
  OBVIOUS
<1>2. Seen(m, i).filesList = m.content[FL(m, i)] /\ S \in SUBSET Files
  BY <1>1 DEF Seen, Owned, Leads
<1>3. View(m)[i].filesList \cup {it} = S
  BY <1>1, <1>2, ViewOf
<1>4. r = Written(m, FL(m, i), S)
  BY <1>1 DEF AddItem, Written, FL
<1>5. Owned(r) /\ View(r) = WithFilesList(View(m), i, S)
  BY <1>2, <1>4, WriteFilesList
<1>. QED
  BY <1>3, <1>5

LEMMA FileDeleted ==
  ASSUME NEW m, Owned(m), NEW i \in InUse(m), NEW it,
         NEW r, r = DeleteItem(m, i, "filesList", it)
  PROVE  Owned(r) /\ View(r) = WithFilesList(View(m), i, View(m)[i].filesList \ {it})
<1>1. PICK S : S = m.content[FL(m, i)] \ {it}
  OBVIOUS
<1>2. Seen(m, i).filesList = m.content[FL(m, i)] /\ S \in SUBSET Files
  BY <1>1 DEF Seen, Owned, Leads
<1>3. View(m)[i].filesList \ {it} = S
  BY <1>1, <1>2, ViewOf
<1>4. r = Written(m, FL(m, i), S)
  BY <1>1 DEF DeleteItem, Written, FL
<1>5. Owned(r) /\ View(r) = WithFilesList(View(m), i, S)
  BY <1>2, <1>4, WriteFilesList
<1>. QED
  BY <1>3, <1>5

-----------------------------------------------------------------------------
(* Freeing a node                                                          *)

LEMMA ProcessListFreed ==
  ASSUME NEW m, m \in Memory, NEW i \in 1 .. MaxNodes, PL(m, i) \in Cells,
         NEW r, r = FreeList(m, i, "processList")
  PROVE  /\ r \in Memory
         /\ r.items = m.items /\ r.maxItemCount = m.maxItemCount
         /\ \A j \in 1 .. MaxNodes : j # i => r.pointers[j] = m.pointers[j]
         /\ FL(r, i) = FL(m, i)
         /\ r.allocated = m.allocated \ {PL(m, i)}
         /\ \A c \in Cells : r.content[c] = IF c = PL(m, i) THEN {} ELSE m.content[c]
<1>1. r = [m EXCEPT !.pointers[i].processList = NULL, !.allocated = @ \ {PL(m, i)},
                    !.content[PL(m, i)] = {}]
  BY NullAssumption DEF FreeList, PL
<1>2. /\ r.items = m.items /\ r.maxItemCount = m.maxItemCount
      /\ r.pointers = [m.pointers EXCEPT ![i] = [@ EXCEPT !.processList = NULL]]
      /\ r.allocated = m.allocated \ {PL(m, i)}
      /\ r.content = [m.content EXCEPT ![PL(m, i)] = {}]
      /\ r \in Memory
  <2>1. r.items = m.items /\ r.maxItemCount = m.maxItemCount
    BY <1>1 DEF Memory
  <2>2. r.pointers = [m.pointers EXCEPT ![i] = [@ EXCEPT !.processList = NULL]]
    BY <1>1 DEF Memory
  <2>3. r.allocated = m.allocated \ {PL(m, i)}
    BY <1>1 DEF Memory
  <2>4. r.content = [m.content EXCEPT ![PL(m, i)] = {}]
    BY <1>1 DEF Memory
  <2>5. r \in Memory
    <3>1. r = [m EXCEPT !.pointers = r.pointers, !.allocated = r.allocated, !.content = r.content]
      BY <1>1 DEF Memory
    <3>2. /\ m.pointers \in [1 .. MaxNodes -> Pointers] /\ m.allocated \in SUBSET Cells
          /\ m.content \in [Cells -> SUBSET (Pids \cup Files)]
      BY DEF Memory
    <3>3. [m.pointers[i] EXCEPT !.processList = NULL] \in Pointers
      BY <3>2 DEF Pointers
    <3>4. r.pointers \in [1 .. MaxNodes -> Pointers]
      BY <2>2, <3>2, <3>3
    <3>5. r.allocated \in SUBSET Cells /\ r.content \in [Cells -> SUBSET (Pids \cup Files)]
      BY <2>3, <2>4, <3>2
    <3>. QED
      BY <3>1, <3>4, <3>5 DEF Memory
  <2>. QED
    BY <2>1, <2>2, <2>3, <2>4, <2>5
<1>3. m.pointers \in [1 .. MaxNodes -> Pointers] /\ m.content \in [Cells -> SUBSET (Pids \cup Files)]
  BY DEF Memory
<1>4. FL(r, i) = FL(m, i)
  BY <1>2, <1>3 DEF FL, Pointers
<1>. QED
  BY <1>2, <1>3, <1>4

LEMMA FilesListFreed ==
  ASSUME NEW m, m \in Memory, NEW i \in 1 .. MaxNodes, FL(m, i) \in Cells,
         NEW r, r = FreeList(m, i, "filesList")
  PROVE  /\ r \in Memory
         /\ r.items = m.items /\ r.maxItemCount = m.maxItemCount
         /\ \A j \in 1 .. MaxNodes : j # i => r.pointers[j] = m.pointers[j]
         /\ PL(r, i) = PL(m, i)
         /\ r.allocated = m.allocated \ {FL(m, i)}
         /\ \A c \in Cells : r.content[c] = IF c = FL(m, i) THEN {} ELSE m.content[c]
<1>1. r = [m EXCEPT !.pointers[i].filesList = NULL, !.allocated = @ \ {FL(m, i)},
                    !.content[FL(m, i)] = {}]
  BY NullAssumption DEF FreeList, FL
<1>2. /\ r.items = m.items /\ r.maxItemCount = m.maxItemCount
      /\ r.pointers = [m.pointers EXCEPT ![i] = [@ EXCEPT !.filesList = NULL]]
      /\ r.allocated = m.allocated \ {FL(m, i)}
      /\ r.content = [m.content EXCEPT ![FL(m, i)] = {}]
      /\ r \in Memory
  <2>1. r.items = m.items /\ r.maxItemCount = m.maxItemCount
    BY <1>1 DEF Memory
  <2>2. r.pointers = [m.pointers EXCEPT ![i] = [@ EXCEPT !.filesList = NULL]]
    BY <1>1 DEF Memory
  <2>3. r.allocated = m.allocated \ {FL(m, i)}
    BY <1>1 DEF Memory
  <2>4. r.content = [m.content EXCEPT ![FL(m, i)] = {}]
    BY <1>1 DEF Memory
  <2>5. r \in Memory
    <3>1. r = [m EXCEPT !.pointers = r.pointers, !.allocated = r.allocated, !.content = r.content]
      BY <1>1 DEF Memory
    <3>2. /\ m.pointers \in [1 .. MaxNodes -> Pointers] /\ m.allocated \in SUBSET Cells
          /\ m.content \in [Cells -> SUBSET (Pids \cup Files)]
      BY DEF Memory
    <3>3. [m.pointers[i] EXCEPT !.filesList = NULL] \in Pointers
      BY <3>2 DEF Pointers
    <3>4. r.pointers \in [1 .. MaxNodes -> Pointers]
      BY <2>2, <3>2, <3>3
    <3>5. r.allocated \in SUBSET Cells /\ r.content \in [Cells -> SUBSET (Pids \cup Files)]
      BY <2>3, <2>4, <3>2
    <3>. QED
      BY <3>1, <3>4, <3>5 DEF Memory
  <2>. QED
    BY <2>1, <2>2, <2>3, <2>4, <2>5
<1>3. m.pointers \in [1 .. MaxNodes -> Pointers] /\ m.content \in [Cells -> SUBSET (Pids \cup Files)]
  BY DEF Memory
<1>4. PL(r, i) = PL(m, i)
  BY <1>2, <1>3 DEF PL, Pointers
<1>. QED
  BY <1>2, <1>3, <1>4

\* The two lists of the slot go back to the heap.
LEMMA DestroyFrees ==
  ASSUME NEW m, Owned(m), NEW i \in InUse(m), NEW r, r = Destroy(m, i)
  PROVE  /\ r \in Memory
         /\ r.items = m.items /\ r.maxItemCount = m.maxItemCount
         /\ \A j \in 1 .. MaxNodes : j # i => r.pointers[j] = m.pointers[j]
         /\ r.allocated = m.allocated \ {PL(m, i), FL(m, i)}
         /\ \A c \in Cells : r.content[c] = IF c \in {PL(m, i), FL(m, i)} THEN {} ELSE m.content[c]
<1>1. PL(m, i) \in Cells /\ FL(m, i) \in Cells /\ i \in 1 .. MaxNodes /\ m \in Memory
  BY MemoryTyped DEF Owned, Memory, Leads
<1>2. PICK k : k = FreeList(m, i, "processList")
  OBVIOUS
<1>3. /\ k \in Memory
      /\ k.items = m.items /\ k.maxItemCount = m.maxItemCount
      /\ \A j \in 1 .. MaxNodes : j # i => k.pointers[j] = m.pointers[j]
      /\ FL(k, i) = FL(m, i)
      /\ k.allocated = m.allocated \ {PL(m, i)}
      /\ \A c \in Cells : k.content[c] = IF c = PL(m, i) THEN {} ELSE m.content[c]
  BY <1>1, <1>2, ProcessListFreed
<1>4. r = FreeList(k, i, "filesList")
  BY <1>2 DEF Destroy
<1>5. /\ r \in Memory
      /\ r.items = k.items /\ r.maxItemCount = k.maxItemCount
      /\ \A j \in 1 .. MaxNodes : j # i => r.pointers[j] = k.pointers[j]
      /\ r.allocated = k.allocated \ {FL(m, i)}
      /\ \A c \in Cells : r.content[c] = IF c = FL(m, i) THEN {} ELSE k.content[c]
  BY <1>1, <1>3, <1>4, FilesListFreed
<1>. QED
  BY <1>3, <1>5

LEMMA CopyMoves ==
  ASSUME NEW m, m \in Memory, NEW i \in InUse(m), NEW j \in InUse(m),
         i \in 1 .. MaxNodes, j \in 1 .. MaxNodes,
         NEW r, r = Copy(m, i, j)
  PROVE  /\ r \in Memory
         /\ InUse(r) = InUse(m) /\ Len(r.items) = Len(m.items)
         /\ \A k \in InUse(m) : r.items[k] = IF k = i THEN m.items[j] ELSE m.items[k]
         /\ \A k \in 1 .. MaxNodes : r.pointers[k] = IF k = i THEN m.pointers[j] ELSE m.pointers[k]
         /\ r.maxItemCount = m.maxItemCount
         /\ r.allocated = m.allocated /\ r.content = m.content
<1>1. /\ m.items \in Seq(Fields) /\ DOMAIN m.items = InUse(m)
      /\ m.pointers \in [1 .. MaxNodes -> Pointers]
  BY DEF Memory, InUse
<1>2. /\ r.items = [m.items EXCEPT ![i] = m.items[j]]
      /\ r.pointers = [m.pointers EXCEPT ![i] = m.pointers[j]]
      /\ r.maxItemCount = m.maxItemCount
      /\ r.allocated = m.allocated /\ r.content = m.content
  BY DEF Copy, Memory
<1>3. r = [m EXCEPT !.items = r.items, !.pointers = r.pointers]
  BY <1>2 DEF Copy, Memory
<1>4. r.items \in Seq(Fields) /\ Len(r.items) = Len(m.items)
  BY <1>1, <1>2
<1>5. r.pointers \in [1 .. MaxNodes -> Pointers]
  BY <1>1, <1>2
<1>6. r \in Memory
  BY <1>3, <1>4, <1>5 DEF Memory
<1>7. \A k \in InUse(m) : r.items[k] = IF k = i THEN m.items[j] ELSE m.items[k]
  BY <1>1, <1>2
<1>8. \A k \in 1 .. MaxNodes : r.pointers[k] = IF k = i THEN m.pointers[j] ELSE m.pointers[k]
  BY <1>1, <1>2
<1>. QED
  BY <1>2, <1>4, <1>6, <1>7, <1>8 DEF InUse

LEMMA DropLastShortens ==
  ASSUME NEW m, m \in Memory, Len(m.items) > 0, NEW r, r = DropLast(m)
  PROVE  /\ r \in Memory
         /\ Len(r.items) = Len(m.items) - 1
         /\ \A k \in 1 .. Len(m.items) - 1 : r.items[k] = m.items[k]
         /\ r.pointers = m.pointers /\ r.maxItemCount = m.maxItemCount
         /\ r.allocated = m.allocated /\ r.content = m.content
<1>1. m.items \in Seq(Fields) /\ Len(m.items) \in Nat
  BY DEF Memory
<1>2. /\ r.items = SubSeq(m.items, 1, Len(m.items) - 1)
      /\ r.pointers = m.pointers /\ r.maxItemCount = m.maxItemCount
      /\ r.allocated = m.allocated /\ r.content = m.content
      /\ r = [m EXCEPT !.items = r.items]
  BY DEF DropLast, Memory
<1>3. /\ r.items \in Seq(Fields) /\ Len(r.items) = Len(m.items) - 1
      /\ \A k \in 1 .. Len(m.items) - 1 : r.items[k] = m.items[k]
  BY <1>1, <1>2
<1>4. r \in Memory
  BY <1>2, <1>3 DEF Memory
<1>. QED
  BY <1>2, <1>3, <1>4

\* The slot a node is found in once the node of slot i is gone.
From(m, i, j) == IF j = i THEN Len(m.items) ELSE j

Freed(m, i) ==
  DropLast(IF Len(m.items) > 1 THEN Copy(Destroy(m, i), i, Len(m.items)) ELSE Destroy(m, i))

LEMMA FreedMoves ==
  ASSUME NEW m, Owned(m), NEW i \in InUse(m), NEW r, r = Freed(m, i)
  PROVE  /\ r \in Memory
         /\ Len(r.items) = Len(m.items) - 1
         /\ \A j \in InUse(r) : /\ r.items[j] = m.items[From(m, i, j)]
                                /\ r.pointers[j] = m.pointers[From(m, i, j)]
         /\ r.maxItemCount = m.maxItemCount
         /\ r.allocated = m.allocated \ {PL(m, i), FL(m, i)}
         /\ \A c \in Cells : r.content[c] = IF c \in {PL(m, i), FL(m, i)} THEN {} ELSE m.content[c]
<1>1. PICK n : n = Len(m.items)
  OBVIOUS
<1>2. n \in Nat /\ n > 0 /\ i \in 1 .. n /\ InUse(m) = 1 .. n /\ 1 .. n \subseteq 1 .. MaxNodes
  BY <1>1, MemoryTyped DEF Owned, InUse
<1>3. PICK d : d = Destroy(m, i)
  OBVIOUS
<1>4. /\ d \in Memory
      /\ d.items = m.items /\ d.maxItemCount = m.maxItemCount
      /\ \A j \in 1 .. MaxNodes : j # i => d.pointers[j] = m.pointers[j]
      /\ d.allocated = m.allocated \ {PL(m, i), FL(m, i)}
      /\ \A c \in Cells : d.content[c] = IF c \in {PL(m, i), FL(m, i)} THEN {} ELSE m.content[c]
  BY <1>3, DestroyFrees
<1>5. PICK e : e = IF n > 1 THEN Copy(d, i, n) ELSE d
  OBVIOUS
<1>6. /\ e \in Memory /\ Len(e.items) = n
      /\ \A j \in 1 .. n - 1 : /\ e.items[j] = m.items[From(m, i, j)]
                               /\ e.pointers[j] = m.pointers[From(m, i, j)]
      /\ e.maxItemCount = m.maxItemCount /\ e.allocated = d.allocated /\ e.content = d.content
  <2>1. CASE n > 1
    <3>1. InUse(d) = 1 .. n /\ n \in 1 .. n
      BY <1>1, <1>2, <1>4 DEF InUse
    <3>2. /\ e \in Memory /\ Len(e.items) = n
          /\ \A k \in 1 .. n : e.items[k] = IF k = i THEN d.items[n] ELSE d.items[k]
          /\ \A k \in 1 .. MaxNodes : e.pointers[k] = IF k = i THEN d.pointers[n] ELSE d.pointers[k]
          /\ e.maxItemCount = d.maxItemCount /\ e.allocated = d.allocated /\ e.content = d.content
      <4>1. e = Copy(d, i, n)
        BY <1>5, <2>1
      <4>2. /\ d \in Memory /\ i \in InUse(d) /\ n \in InUse(d)
            /\ i \in 1 .. MaxNodes /\ n \in 1 .. MaxNodes
        BY <1>2, <1>4, <3>1
      <4>3. /\ e \in Memory
            /\ InUse(e) = InUse(d) /\ Len(e.items) = Len(d.items)
            /\ \A k \in InUse(d) : e.items[k] = IF k = i THEN d.items[n] ELSE d.items[k]
            /\ \A k \in 1 .. MaxNodes : e.pointers[k] = IF k = i THEN d.pointers[n] ELSE d.pointers[k]
            /\ e.maxItemCount = d.maxItemCount /\ e.allocated = d.allocated /\ e.content = d.content
        BY <4>1, <4>2, CopyMoves
      <4>. QED
        BY <1>1, <1>4, <3>1, <4>3
    <3>. QED
      BY <1>1, <1>2, <1>4, <3>2, SMTT(30) DEF From
  <2>2. CASE ~(n > 1)
    BY <1>1, <1>2, <1>4, <1>5, <2>2
  <2>. QED
    BY <2>1, <2>2
<1>7. r = DropLast(e)
  BY <1>1, <1>3, <1>5 DEF Freed
<1>8. /\ r \in Memory /\ Len(r.items) = n - 1
      /\ \A k \in 1 .. n - 1 : r.items[k] = e.items[k]
      /\ r.pointers = e.pointers /\ r.maxItemCount = e.maxItemCount
      /\ r.allocated = e.allocated /\ r.content = e.content
  BY <1>2, <1>6, <1>7, DropLastShortens
<1>9. InUse(r) = 1 .. n - 1
  BY <1>8 DEF InUse
<1>. QED
  BY <1>1, <1>4, <1>6, <1>8, <1>9

\* The last node is found in the slot that was freed, the others where they
\* were: each still leads to its own lists.
LEMMA FreedIsOwned ==
  ASSUME NEW m, Owned(m), NEW i \in InUse(m), NEW r, r = Freed(m, i)
  PROVE  /\ Owned(r) /\ Len(r.items) = Len(m.items) - 1
         /\ \A j \in InUse(r) : From(m, i, j) \in InUse(m) /\ Seen(r, j) = Seen(m, From(m, i, j))
<1>1. PICK n : n = Len(m.items)
  OBVIOUS
<1>2. n \in Nat /\ n > 0 /\ i \in 1 .. n /\ InUse(m) = 1 .. n
  BY <1>1, MemoryTyped DEF Owned, InUse
<1>3. /\ r \in Memory /\ Len(r.items) = n - 1
      /\ \A j \in InUse(r) : /\ r.items[j] = m.items[From(m, i, j)]
                             /\ r.pointers[j] = m.pointers[From(m, i, j)]
      /\ r.maxItemCount = m.maxItemCount
      /\ r.allocated = m.allocated \ {PL(m, i), FL(m, i)}
      /\ \A c \in Cells : r.content[c] = IF c \in {PL(m, i), FL(m, i)} THEN {} ELSE m.content[c]
  BY <1>1, FreedMoves
<1>4. InUse(r) = 1 .. n - 1
  BY <1>3 DEF InUse
<1>5. /\ \A j \in InUse(r) : From(m, i, j) \in InUse(m) /\ From(m, i, j) # i
      /\ \A j, k \in InUse(r) : j # k => From(m, i, j) # From(m, i, k)
      /\ \A k \in InUse(m) : k # i => \E j \in InUse(r) : From(m, i, j) = k
  <2>1. \A j \in InUse(r) : From(m, i, j) = IF j = i THEN n ELSE j
    BY <1>1 DEF From
  <2>2. ASSUME NEW k \in InUse(m), k # i PROVE \E j \in InUse(r) : From(m, i, j) = k
    <3>1. CASE k = n
      BY <1>2, <1>4, <2>1, <2>2, <3>1
    <3>2. CASE k # n
      BY <1>2, <1>4, <2>1, <2>2, <3>2
    <3>. QED
      BY <3>1, <3>2
  <2>. QED
    BY <1>2, <1>4, <2>1, <2>2
<1>6. \A j \in InUse(r) : PL(r, j) = PL(m, From(m, i, j)) /\ FL(r, j) = FL(m, From(m, i, j))
  BY <1>3 DEF PL, FL
<1>7. \A k \in InUse(m) : k # i =>
        /\ PL(m, k) \in r.allocated /\ r.content[PL(m, k)] = m.content[PL(m, k)]
        /\ FL(m, k) \in r.allocated /\ r.content[FL(m, k)] = m.content[FL(m, k)]
  BY <1>3 DEF Owned, Memory, Leads, Unshared
<1>8. Leads(r)
  BY <1>5, <1>6, <1>7 DEF Owned, Leads
<1>9. Unshared(r)
  BY <1>5, <1>6 DEF Owned, Unshared
<1>10. Accounted(r)
  <2>1. ASSUME NEW c \in r.allocated PROVE \E j \in InUse(r) : c \in {PL(r, j), FL(r, j)}
    <3>1. PICK k \in InUse(m) : c \in {PL(m, k), FL(m, k)}
      BY <1>3, <2>1 DEF Owned, Accounted
    <3>2. k # i
      BY <1>3, <2>1, <3>1
    <3>. QED
      BY <1>5, <1>6, <3>1, <3>2
  <2>2. \A c \in Cells \ r.allocated : r.content[c] = {}
    BY <1>3 DEF Owned, Accounted
  <2>. QED
    BY <2>1, <2>2 DEF Accounted
<1>11. Owned(r)
  <2>1. n <= r.maxItemCount /\ r.maxItemCount \in Nat
    BY <1>1, <1>3, LimitAssumption DEF Owned, Memory
  <2>2. Len(r.items) <= r.maxItemCount
    BY <1>2, <1>3, <2>1
  <2>. QED
    BY <1>3, <1>8, <1>9, <1>10, <2>2 DEF Owned
<1>12. \A j \in InUse(r) : Seen(r, j) = Seen(m, From(m, i, j))
  BY <1>3, <1>5, <1>6, <1>7 DEF Seen
<1>. QED
  BY <1>1, <1>3, <1>5, <1>11, <1>12

\* _DestroyNodeIfEmpty through the pointers is what it is on values.
LEMMA FreeNodeOnView ==
  ASSUME NEW m, Owned(m), NEW i \in InUse(m), NEW r, r = FreeNodeIfEmpty(m, i)
  PROVE  Owned(r) /\ View(r) = DestroyNodeIfEmpty(View(m), i)
<1>1. CASE ~IsEmptyNode(View(m)[i])
  BY <1>1 DEF FreeNodeIfEmpty, DestroyNodeIfEmpty
<1>2. CASE IsEmptyNode(View(m)[i])
  <2>1. PICK n : n = Len(m.items)
    OBVIOUS
  <2>2. n \in Nat /\ n > 0 /\ InUse(m) = 1 .. n
    BY <2>1, MemoryTyped DEF Owned, InUse
  <2>3. r = Freed(m, i)
    BY <1>2 DEF FreeNodeIfEmpty, Freed
  <2>4. /\ Owned(r) /\ Len(r.items) = n - 1
        /\ \A j \in InUse(r) : From(m, i, j) \in InUse(m) /\ Seen(r, j) = Seen(m, From(m, i, j))
    BY <2>1, <2>3, FreedIsOwned
  <2>5. /\ InUse(r) = 1 .. n - 1
        /\ \A j \in InUse(r) : From(m, i, j) = IF j = i THEN n ELSE j
    BY <2>1, <2>4 DEF InUse, From
  <2>6. /\ View(m) \in Seq(ProcessNode) /\ Len(View(m)) = n
        /\ \A j \in InUse(m) : View(m)[j] = Seen(m, j)
    BY <2>1, ViewOf
  <2>7. /\ View(r) \in Seq(ProcessNode) /\ DOMAIN View(r) = 1 .. n - 1
        /\ \A j \in 1 .. n - 1 : View(r)[j] = Seen(r, j)
    BY <2>4, <2>5, ViewOf
  <2>8. \A j \in 1 .. n - 1 : View(r)[j] = IF j = i THEN View(m)[n] ELSE View(m)[j]
    BY <2>2, <2>4, <2>5, <2>6, <2>7
  <2>9. View(r) = [j \in 1 .. n - 1 |-> IF j = i THEN View(m)[n] ELSE View(m)[j]]
    <3>1. View(r) = [j \in 1 .. n - 1 |-> View(r)[j]]
      BY <2>7
    <3>. QED
      BY <2>8, <3>1
  <2>. QED
    BY <1>2, <2>4, <2>6, <2>9 DEF DestroyNodeIfEmpty
<1>. QED
  BY <1>1, <1>2

-----------------------------------------------------------------------------
(* Counting                                                                *)

\* Two lists for each node, and none besides.
LEMMA ListsCounted ==
  ASSUME NEW m, Owned(m)
  PROVE  /\ ListsInUse(m) = m.allocated
         /\ IsFiniteSet(m.allocated) /\ Cardinality(m.allocated) = 2 * Len(m.items)
<1>1. PICK n \in Nat : n = Len(m.items) /\ DOMAIN m.items = 1 .. n /\ InUse(m) = 1 .. n
  BY MemoryTyped DEF Owned, InUse
<1>2. ListsInUse(m) = m.allocated
  <2>1. \A c : c \in ListsInUse(m) <=> \E i \in InUse(m) : c \in {PL(m, i), FL(m, i)}
    BY <1>1 DEF ListsInUse, PL, FL
  <2>2. \A c : c \in m.allocated <=> \E i \in InUse(m) : c \in {PL(m, i), FL(m, i)}
    BY DEF Owned, Leads, Accounted
  <2>. QED
    BY <2>1, <2>2
<1>. DEFINE f == [k \in 1 .. 2 * n |-> IF k <= n THEN PL(m, k) ELSE FL(m, k - n)]
<1>3. \A k \in 1 .. n : /\ k \in 1 .. 2 * n /\ f[k] = PL(m, k)
                        /\ k + n \in 1 .. 2 * n /\ f[k + n] = FL(m, k)
  BY <1>1
<1>4. f \in [1 .. 2 * n -> m.allocated]
  <2>1. ASSUME NEW k \in 1 .. 2 * n PROVE IF k <= n THEN k \in InUse(m) ELSE k - n \in InUse(m)
    BY <1>1
  <2>. QED
    BY <2>1 DEF Owned, Leads
<1>5. \A t \in m.allocated : \E s \in 1 .. 2 * n : f[s] = t
  <2>1. ASSUME NEW t \in m.allocated PROVE \E i \in 1 .. n : t \in {PL(m, i), FL(m, i)}
    BY <1>1 DEF Owned, Accounted
  <2>. HIDE DEF f
  <2>. QED
    BY <1>3, <2>1
<1>6. \A a, b \in 1 .. 2 * n : f[a] = f[b] => a = b
  <2>1. ASSUME NEW a \in 1 .. 2 * n, NEW b \in 1 .. 2 * n, f[a] = f[b], a <= n, b <= n PROVE a = b
    BY <1>1, <2>1 DEF Owned, Unshared
  <2>2. ASSUME NEW a \in 1 .. 2 * n, NEW b \in 1 .. 2 * n, f[a] = f[b], a <= n, b > n PROVE FALSE
    <3>1. a \in InUse(m) /\ b - n \in InUse(m) /\ f[a] = PL(m, a) /\ f[b] = FL(m, b - n)
      BY <1>1, <2>2
    <3>. QED
      BY <2>2, <3>1 DEF Owned, Unshared
  <2>3. ASSUME NEW a \in 1 .. 2 * n, NEW b \in 1 .. 2 * n, f[a] = f[b], a > n, b > n PROVE a = b
    <3>1. a - n \in InUse(m) /\ b - n \in InUse(m) /\ f[a] = FL(m, a - n) /\ f[b] = FL(m, b - n)
      BY <1>1, <2>3
    <3>2. a - n = b - n
      BY <2>3, <3>1 DEF Owned, Unshared
    <3>. QED
      BY <3>2
  <2>. HIDE DEF f
  <2>. QED
    BY <2>1, <2>2, <2>3
<1>7. ExistsBijection(1 .. 2 * n, m.allocated)
  <2>. HIDE DEF f
  <2>1. f \in Bijection(1 .. 2 * n, m.allocated)
    BY <1>4, <1>5, <1>6, Fun_IsBij
  <2>. QED
    BY <2>1 DEF ExistsBijection
<1>8. IsFiniteSet(1 .. 2 * n) /\ Cardinality(1 .. 2 * n) = 2 * n
  BY FS_Interval
<1>9. IsFiniteSet(m.allocated) /\ Cardinality(m.allocated) = 2 * n
  BY <1>7, <1>8, FS_Bijection
<1>. QED
  BY <1>1, <1>2, <1>9

\* The heap has two blocks for every slot.
LEMMA TwoFreeBlocks ==
  ASSUME NEW m, Owned(m), Len(m.items) < MaxNodes,
         NEW c, c = First(Cells \ m.allocated),
         NEW d, d = First(Cells \ (m.allocated \cup {c}))
  PROVE  /\ c \in Cells /\ c \notin m.allocated
         /\ d \in Cells /\ d \notin m.allocated /\ d # c
<1>1. /\ m.allocated \subseteq Cells /\ IsFiniteSet(m.allocated)
      /\ Cardinality(m.allocated) = 2 * Len(m.items)
      /\ Len(m.items) \in Nat /\ MaxNodes \in Nat
      /\ Cells \subseteq Nat /\ IsFiniteSet(Cells) /\ Cardinality(Cells) >= 2 * MaxNodes
      /\ Cardinality(Cells) \in Nat
  BY ListsCounted, MemoryTyped, LimitAssumption, CellsAssumption, FS_CardinalityType DEF Owned, Memory
<1>2. /\ IsFiniteSet(m.allocated \cup {c})
      /\ Cardinality(m.allocated \cup {c}) <= 2 * Len(m.items) + 1
      /\ Cardinality(m.allocated \cup {c}) \in Nat
  <2>1. IsFiniteSet(m.allocated)
    BY <1>1
  <2>2. /\ IsFiniteSet(m.allocated \cup {c})
        /\ Cardinality(m.allocated \cup {c}) =
             IF c \in m.allocated THEN Cardinality(m.allocated) ELSE Cardinality(m.allocated) + 1
    BY <2>1, FS_AddElement
  <2>3. Cardinality(m.allocated \cup {c}) \in Nat
    BY <2>2, FS_CardinalityType
  <2>. QED
    BY <1>1, <2>2, <2>3
<1>3. Cells # m.allocated /\ ~(Cells \subseteq m.allocated \cup {c})
  <2>1. Cardinality(Cells) >= 2 * Len(m.items) + 2
    BY <1>1
  <2>2. ASSUME Cells \subseteq m.allocated \cup {c} PROVE FALSE
    <3>1. Cardinality(Cells) <= Cardinality(m.allocated \cup {c})
      BY <1>2, <2>2, FS_Subset
    <3>. QED
      BY <1>1, <1>2, <2>1, <3>1
  <2>. QED
    BY <2>2
<1>4. c \in Cells \ m.allocated
  <2>1. (Cells \ m.allocated) \in SUBSET Nat /\ Cells \ m.allocated # {}
    BY <1>1, <1>3
  <2>. QED
    BY <2>1, FirstIsMember
<1>5. d \in Cells \ (m.allocated \cup {c})
  <2>1. (Cells \ (m.allocated \cup {c})) \in SUBSET Nat /\ Cells \ (m.allocated \cup {c}) # {}
    BY <1>1, <1>3
  <2>. QED
    BY <2>1, FirstIsMember
<1>. QED
  BY <1>4, <1>5

-----------------------------------------------------------------------------
(* Taking a slot                                                           *)

LEMMA SlotTaken ==
  ASSUME NEW m, m \in Memory, Len(m.items) < MaxNodes,
         NEW pid \in Pids, NEW noresp \in t_noresp, NEW img \in Files \cup {NoFile},
         NEW n, n = Len(m.items),
         NEW r, r = InitNode(m, pid, noresp, img)
  PROVE  /\ r \in Memory /\ Len(r.items) = n + 1
         /\ \A j \in 1 .. n : r.items[j] = m.items[j]
         /\ r.items[n + 1] = [rootPid |-> pid, imgFile |-> img, respawnProtect |-> noresp]
         /\ \A j \in 1 .. MaxNodes : r.pointers[j] = IF j = n + 1 THEN NoLists ELSE m.pointers[j]
         /\ r.maxItemCount = m.maxItemCount
         /\ r.allocated = m.allocated /\ r.content = m.content
<1>. DEFINE f == [rootPid |-> pid, imgFile |-> img, respawnProtect |-> noresp]
<1>1. /\ m.items \in Seq(Fields) /\ n \in Nat
      /\ m.pointers \in [1 .. MaxNodes -> Pointers]
      /\ f \in Fields /\ NoLists \in Pointers
  BY DEF Memory, Fields, Pointers, NoLists
<1>2. /\ r.items = Append(m.items, f)
      /\ r.pointers = [m.pointers EXCEPT ![n + 1] = NoLists]
      /\ r.maxItemCount = m.maxItemCount
      /\ r.allocated = m.allocated /\ r.content = m.content
  BY DEF InitNode, Memory
<1>3. r = [m EXCEPT !.items = r.items, !.pointers = r.pointers]
  BY <1>2 DEF InitNode, Memory
<1>. HIDE DEF f
<1>4. /\ r.items \in Seq(Fields) /\ Len(r.items) = n + 1
      /\ \A j \in 1 .. n : r.items[j] = m.items[j]
      /\ r.items[n + 1] = f
  BY <1>1, <1>2
<1>5. /\ r.pointers \in [1 .. MaxNodes -> Pointers]
      /\ \A j \in 1 .. MaxNodes : r.pointers[j] = IF j = n + 1 THEN NoLists ELSE m.pointers[j]
  BY <1>1, <1>2
<1>6. r \in Memory
  BY <1>3, <1>4, <1>5 DEF Memory
<1>. QED
  BY <1>2, <1>4, <1>5, <1>6 DEF f

LEMMA ProcessListMade ==
  ASSUME NEW m, m \in Memory, NEW i \in 1 .. MaxNodes, PL(m, i) = NULL,
         NEW c, c = AllocBuffer(m), c \in Cells,
         NEW r, r = InitList(m, i, "processList")
  PROVE  /\ r \in Memory
         /\ r.items = m.items /\ r.maxItemCount = m.maxItemCount
         /\ \A j \in 1 .. MaxNodes : j # i => r.pointers[j] = m.pointers[j]
         /\ PL(r, i) = c /\ FL(r, i) = FL(m, i)
         /\ r.allocated = m.allocated \cup {c}
         /\ \A e \in Cells : r.content[e] = IF e = c THEN {} ELSE m.content[e]
<1>1. r = [m EXCEPT !.pointers[i].processList = c, !.allocated = @ \cup {c}, !.content[c] = {}]
  BY DEF InitList, PL
<1>2. /\ m.pointers \in [1 .. MaxNodes -> Pointers] /\ m.allocated \in SUBSET Cells
      /\ m.content \in [Cells -> SUBSET (Pids \cup Files)]
  BY DEF Memory
<1>3. r.items = m.items /\ r.maxItemCount = m.maxItemCount
  BY <1>1 DEF Memory
<1>4. r.pointers = [m.pointers EXCEPT ![i] = [@ EXCEPT !.processList = c]]
  BY <1>1 DEF Memory
<1>5. r.allocated = m.allocated \cup {c}
  BY <1>1 DEF Memory
<1>6. r.content = [m.content EXCEPT ![c] = {}]
  BY <1>1 DEF Memory
<1>7. r = [m EXCEPT !.pointers = r.pointers, !.allocated = r.allocated, !.content = r.content]
  BY <1>1 DEF Memory
<1>8. PICK p : p = m.pointers[i] /\ p \in Pointers
  BY <1>2
<1>13. /\ [p EXCEPT !.processList = c] \in Pointers
       /\ [p EXCEPT !.processList = c].processList = c
       /\ [p EXCEPT !.processList = c].filesList = p.filesList
  BY <1>8 DEF Pointers
<1>14. r.pointers[i] = [p EXCEPT !.processList = c]
  BY <1>2, <1>4, <1>8
<1>9. r.pointers \in [1 .. MaxNodes -> Pointers]
  BY <1>2, <1>4, <1>8, <1>13
<1>10. r.allocated \in SUBSET Cells /\ r.content \in [Cells -> SUBSET (Pids \cup Files)]
  BY <1>2, <1>5, <1>6
<1>11. r \in Memory
  BY <1>7, <1>9, <1>10 DEF Memory
<1>12. PL(r, i) = c /\ FL(r, i) = FL(m, i)
  BY <1>8, <1>13, <1>14 DEF PL, FL
<1>. QED
  BY <1>2, <1>3, <1>4, <1>5, <1>6, <1>11, <1>12

LEMMA FilesListMade ==
  ASSUME NEW m, m \in Memory, NEW i \in 1 .. MaxNodes, FL(m, i) = NULL,
         NEW c, c = AllocBuffer(m), c \in Cells,
         NEW r, r = InitList(m, i, "filesList")
  PROVE  /\ r \in Memory
         /\ r.items = m.items /\ r.maxItemCount = m.maxItemCount
         /\ \A j \in 1 .. MaxNodes : j # i => r.pointers[j] = m.pointers[j]
         /\ PL(r, i) = PL(m, i) /\ FL(r, i) = c
         /\ r.allocated = m.allocated \cup {c}
         /\ \A e \in Cells : r.content[e] = IF e = c THEN {} ELSE m.content[e]
<1>1. r = [m EXCEPT !.pointers[i].filesList = c, !.allocated = @ \cup {c}, !.content[c] = {}]
  BY DEF InitList, FL
<1>2. /\ m.pointers \in [1 .. MaxNodes -> Pointers] /\ m.allocated \in SUBSET Cells
      /\ m.content \in [Cells -> SUBSET (Pids \cup Files)]
  BY DEF Memory
<1>3. r.items = m.items /\ r.maxItemCount = m.maxItemCount
  BY <1>1 DEF Memory
<1>4. r.pointers = [m.pointers EXCEPT ![i] = [@ EXCEPT !.filesList = c]]
  BY <1>1 DEF Memory
<1>5. r.allocated = m.allocated \cup {c}
  BY <1>1 DEF Memory
<1>6. r.content = [m.content EXCEPT ![c] = {}]
  BY <1>1 DEF Memory
<1>7. r = [m EXCEPT !.pointers = r.pointers, !.allocated = r.allocated, !.content = r.content]
  BY <1>1 DEF Memory
<1>8. PICK p : p = m.pointers[i] /\ p \in Pointers
  BY <1>2
<1>13. /\ [p EXCEPT !.filesList = c] \in Pointers
       /\ [p EXCEPT !.filesList = c].filesList = c
       /\ [p EXCEPT !.filesList = c].processList = p.processList
  BY <1>8 DEF Pointers
<1>14. r.pointers[i] = [p EXCEPT !.filesList = c]
  BY <1>2, <1>4, <1>8
<1>9. r.pointers \in [1 .. MaxNodes -> Pointers]
  BY <1>2, <1>4, <1>8, <1>13
<1>10. r.allocated \in SUBSET Cells /\ r.content \in [Cells -> SUBSET (Pids \cup Files)]
  BY <1>2, <1>5, <1>6
<1>11. r \in Memory
  BY <1>7, <1>9, <1>10 DEF Memory
<1>12. PL(r, i) = PL(m, i) /\ FL(r, i) = c
  BY <1>8, <1>13, <1>14 DEF PL, FL
<1>. QED
  BY <1>2, <1>3, <1>4, <1>5, <1>6, <1>11, <1>12

\* The slot leads to two new lists, whatever it led to before.
LEMMA NodeInited ==
  ASSUME NEW m, Owned(m), Len(m.items) < m.maxItemCount,
         NEW pid \in Pids, NEW noresp \in t_noresp, NEW img \in Files \cup {NoFile},
         NEW n, n = Len(m.items),
         NEW r, r = InitLists(InitNode(m, pid, noresp, img), n + 1)
  PROVE  /\ Owned(r) /\ Len(r.items) = n + 1
         /\ \A j \in 1 .. n : Seen(r, j) = Seen(m, j)
         /\ Seen(r, n + 1) = [rootPid |-> pid, imgFile |-> img, processList |-> {},
                               filesList |-> {}, respawnProtect |-> noresp]
<1>0. PICK i : i = n + 1
  OBVIOUS
<1>1. /\ m \in Memory /\ n \in Nat /\ n < MaxNodes /\ m.maxItemCount = MaxNodes
      /\ i \in 1 .. MaxNodes /\ 1 .. n \subseteq 1 .. MaxNodes /\ InUse(m) = 1 .. n
  BY <1>0, LimitAssumption, MemoryTyped DEF Owned, Memory, InUse
<1>2. PICK s : s = InitNode(m, pid, noresp, img)
  OBVIOUS
<1>3. /\ s \in Memory /\ Len(s.items) = n + 1
      /\ \A j \in 1 .. n : s.items[j] = m.items[j]
      /\ s.items[i] = [rootPid |-> pid, imgFile |-> img, respawnProtect |-> noresp]
      /\ \A j \in 1 .. MaxNodes : s.pointers[j] = IF j = i THEN NoLists ELSE m.pointers[j]
      /\ s.maxItemCount = m.maxItemCount
      /\ s.allocated = m.allocated /\ s.content = m.content
  BY <1>0, <1>1, <1>2, SlotTaken
<1>4. PICK c, d : c = First(Cells \ m.allocated) /\ d = First(Cells \ (m.allocated \cup {c}))
  OBVIOUS
<1>5. /\ c \in Cells /\ c \notin m.allocated
      /\ d \in Cells /\ d \notin m.allocated /\ d # c
  BY <1>1, <1>4, TwoFreeBlocks
<1>6. PL(s, i) = NULL /\ FL(s, i) = NULL
  BY <1>1, <1>3 DEF PL, FL, NoLists
<1>7. PICK u : u = InitList(s, i, "processList")
  OBVIOUS
<1>8. /\ u \in Memory
      /\ u.items = s.items /\ u.maxItemCount = s.maxItemCount
      /\ \A j \in 1 .. MaxNodes : j # i => u.pointers[j] = s.pointers[j]
      /\ PL(u, i) = c /\ FL(u, i) = NULL
      /\ u.allocated = s.allocated \cup {c}
      /\ \A e \in Cells : u.content[e] = IF e = c THEN {} ELSE s.content[e]
  <2>1. c = AllocBuffer(s)
    BY <1>3, <1>4 DEF AllocBuffer
  <2>2. /\ u \in Memory
        /\ u.items = s.items /\ u.maxItemCount = s.maxItemCount
        /\ \A j \in 1 .. MaxNodes : j # i => u.pointers[j] = s.pointers[j]
        /\ PL(u, i) = c /\ FL(u, i) = FL(s, i)
        /\ u.allocated = s.allocated \cup {c}
        /\ \A e \in Cells : u.content[e] = IF e = c THEN {} ELSE s.content[e]
    <3>1. s \in Memory /\ i \in 1 .. MaxNodes /\ PL(s, i) = NULL /\ c \in Cells
      BY <1>1, <1>3, <1>5, <1>6
    <3>. QED
      BY <1>7, <2>1, <3>1, ProcessListMade
  <2>. QED
    BY <1>6, <2>2
<1>9. r = InitList(u, i, "filesList")
  BY <1>0, <1>2, <1>7 DEF InitLists
<1>10. /\ r \in Memory
       /\ r.items = u.items /\ r.maxItemCount = u.maxItemCount
       /\ \A j \in 1 .. MaxNodes : j # i => r.pointers[j] = u.pointers[j]
       /\ PL(r, i) = c /\ FL(r, i) = d
       /\ r.allocated = u.allocated \cup {d}
       /\ \A e \in Cells : r.content[e] = IF e = d THEN {} ELSE u.content[e]
  <2>1. u.allocated = m.allocated \cup {c}
    BY <1>3, <1>8
  <2>2. d = AllocBuffer(u)
    BY <1>4, <2>1 DEF AllocBuffer
  <2>3. /\ r \in Memory
        /\ r.items = u.items /\ r.maxItemCount = u.maxItemCount
        /\ \A j \in 1 .. MaxNodes : j # i => r.pointers[j] = u.pointers[j]
        /\ PL(r, i) = PL(u, i) /\ FL(r, i) = d
        /\ r.allocated = u.allocated \cup {d}
        /\ \A e \in Cells : r.content[e] = IF e = d THEN {} ELSE u.content[e]
    <3>1. u \in Memory /\ i \in 1 .. MaxNodes /\ FL(u, i) = NULL /\ d \in Cells
      BY <1>1, <1>5, <1>8
    <3>. QED
      BY <1>9, <2>2, <3>1, FilesListMade
  <2>. QED
    BY <1>8, <2>3
<1>11. /\ Len(r.items) = n + 1 /\ r.maxItemCount = MaxNodes
       /\ \A j \in 1 .. n : r.items[j] = m.items[j] /\ PL(r, j) = PL(m, j) /\ FL(r, j) = FL(m, j)
       /\ r.allocated = m.allocated \cup {c, d}
       /\ \A e \in Cells : r.content[e] = IF e \in {c, d} THEN {} ELSE m.content[e]
  <2>1. \A j \in 1 .. n : j \in 1 .. MaxNodes /\ j # i
    BY <1>0, <1>1
  <2>2. \A j \in 1 .. n : r.pointers[j] = m.pointers[j]
    BY <1>3, <1>8, <1>10, <2>1
  <2>. QED
    BY <1>1, <1>3, <1>5, <1>8, <1>10, <2>2 DEF PL, FL
<1>12. InUse(r) = 1 .. n + 1 /\ \A j \in InUse(r) : j \in 1 .. n \/ j = i
  BY <1>0, <1>1, <1>11 DEF InUse
<1>13. \A j \in 1 .. n :
         /\ PL(m, j) \in m.allocated /\ m.content[PL(m, j)] \subseteq Pids
         /\ FL(m, j) \in m.allocated /\ m.content[FL(m, j)] \subseteq Files
         /\ PL(m, j) \in Cells \ {c, d} /\ FL(m, j) \in Cells \ {c, d}
  BY <1>1, <1>5 DEF Owned, Leads, Memory
<1>14. Leads(r)
  BY <1>5, <1>10, <1>11, <1>12, <1>13 DEF Leads
<1>15. Unshared(r)
  BY <1>1, <1>5, <1>10, <1>11, <1>12, <1>13 DEF Owned, Unshared
<1>16. Accounted(r)
  <2>1. ASSUME NEW e \in r.allocated PROVE \E j \in InUse(r) : e \in {PL(r, j), FL(r, j)}
    <3>1. CASE e \in {c, d}
      BY <1>0, <1>1, <1>10, <1>12, <3>1
    <3>2. CASE e \in m.allocated
      BY <1>1, <1>11, <1>12, <3>2 DEF Owned, Accounted
    <3>. QED
      BY <1>11, <2>1, <3>1, <3>2
  <2>2. \A e \in Cells \ r.allocated : r.content[e] = {}
    BY <1>11 DEF Owned, Accounted
  <2>. QED
    BY <2>1, <2>2 DEF Accounted
<1>17. Owned(r)
  BY <1>0, <1>1, <1>10, <1>11, <1>14, <1>15, <1>16 DEF Owned
<1>18. \A j \in 1 .. n : Seen(r, j) = Seen(m, j)
  BY <1>11, <1>13 DEF Seen
<1>19. Seen(r, i) = [rootPid |-> pid, imgFile |-> img, processList |-> {},
                         filesList |-> {}, respawnProtect |-> noresp]
  <2>1. r.items[i] = [rootPid |-> pid, imgFile |-> img, respawnProtect |-> noresp]
    BY <1>3, <1>8, <1>10
  <2>2. r.content[PL(r, i)] = {} /\ r.content[FL(r, i)] = {}
    BY <1>5, <1>10, <1>11
  <2>3. r.items[i].rootPid = pid /\ r.items[i].imgFile = img /\ r.items[i].respawnProtect = noresp
    BY <2>1
  <2>. QED
    BY <2>2, <2>3 DEF Seen
<1>. QED
  BY <1>0, <1>11, <1>17, <1>18, <1>19

-----------------------------------------------------------------------------
(* The operations on the memory are those on the values                    *)

LEMMA LastWritten ==
  ASSUME NEW ns \in Seq(ProcessNode), NEW n \in ProcessNode, NEW S,
         NEW k \in ProcessNode, k = [n EXCEPT !.processList = S]
  PROVE  WithProcessList(Append(ns, n), Len(ns) + 1, S) = Append(ns, k)
<1>1. PICK e : e = Append(ns, n)
  OBVIOUS
<1>2. /\ e \in Seq(ProcessNode) /\ Len(ns) \in Nat /\ Len(e) = Len(ns) + 1
      /\ e[Len(ns) + 1] = n /\ \A j \in 1 .. Len(ns) : e[j] = ns[j]
  BY <1>1
<1>3. WithProcessList(e, Len(ns) + 1, S) = [e EXCEPT ![Len(ns) + 1] = k]
  BY <1>2 DEF WithProcessList
<1>4. [e EXCEPT ![Len(ns) + 1] = k] = Append(ns, k)
  <2>1. PICK d : d = [e EXCEPT ![Len(ns) + 1] = k]
    OBVIOUS
  <2>2. /\ d \in Seq(ProcessNode) /\ Len(d) = Len(ns) + 1
        /\ \A j \in 1 .. Len(ns) + 1 : d[j] = IF j = Len(ns) + 1 THEN k ELSE e[j]
    BY <1>2, <2>1, ExceptSeq
  <2>3. /\ Append(ns, k) \in Seq(ProcessNode) /\ Len(Append(ns, k)) = Len(ns) + 1
        /\ Append(ns, k)[Len(ns) + 1] = k /\ \A j \in 1 .. Len(ns) : Append(ns, k)[j] = ns[j]
    BY AppendProperties
  <2>4. \A j \in 1 .. Len(ns) + 1 : d[j] = Append(ns, k)[j]
    BY <1>2, <2>2, <2>3
  <2>5. d = Append(ns, k)
    BY <2>2, <2>3, <2>4, SeqEqual
  <2>. QED
    BY <2>1, <2>5
<1>. QED
  BY <1>1, <1>3, <1>4

LEMMA CreateOnView ==
  ASSUME NEW m, Owned(m), ~HasNoRoom(m),
         NEW pid \in Pids, NEW noresp \in t_noresp, NEW img \in Files \cup {NoFile},
         AddProcessNodeStatus(View(m), pid) = "ADD_OK",
         NEW i, i = Len(m.items) + 1,
         NEW q, q = InitLists(InitNode(m, pid, noresp, img), i),
         NEW r, r = AddItem(q, i, "processList", pid)
  PROVE  Owned(r) /\ View(r) = AddProcessNode(View(m), pid, img, noresp)
<1>. DEFINE new == [rootPid |-> pid, imgFile |-> img, processList |-> {},
                    filesList |-> {}, respawnProtect |-> noresp]
<1>1. PICK n \in Nat : n = Len(m.items) /\ i = n + 1 /\ InUse(m) = 1 .. n /\ n < m.maxItemCount
  BY MemoryTyped, LimitAssumption DEF Owned, InUse, HasNoRoom, Memory
<1>2. /\ Owned(q) /\ Len(q.items) = n + 1
      /\ \A j \in 1 .. n : Seen(q, j) = Seen(m, j)
      /\ Seen(q, i) = new
  <2>1. q = InitLists(InitNode(m, pid, noresp, img), n + 1)
    BY <1>1
  <2>. QED
    BY <1>1, <2>1, NodeInited
<1>3. InUse(q) = 1 .. n + 1 /\ i \in InUse(q)
  BY <1>1, <1>2 DEF InUse
<1>. DEFINE full == [rootPid |-> pid, imgFile |-> img, processList |-> {pid},
                     filesList |-> {}, respawnProtect |-> noresp]
<1>4. /\ new \in ProcessNode /\ full \in ProcessNode
      /\ new.processList = {} /\ full = [new EXCEPT !.processList = {pid}]
  <2>1. new \in ProcessNode /\ full \in ProcessNode
    BY DEF ProcessNode
  <2>2. new.processList = {}
    OBVIOUS
  <2>3. full = [new EXCEPT !.processList = {pid}]
    <3>1. PICK k : k = [new EXCEPT !.processList = {pid}]
      OBVIOUS
    <3>2. k = [rootPid |-> pid, imgFile |-> img, processList |-> {pid},
               filesList |-> {}, respawnProtect |-> noresp]
      BY <3>1
    <3>. QED
      BY <3>1, <3>2
  <2>. QED
    BY <2>1, <2>2, <2>3
<1>. HIDE DEF new, full
<1>5. /\ View(m) \in Seq(ProcessNode) /\ Len(View(m)) = n
      /\ \A j \in 1 .. n : View(m)[j] = Seen(m, j)
  BY <1>1, ViewOf
<1>6. /\ View(q) \in Seq(ProcessNode) /\ Len(View(q)) = n + 1
      /\ \A j \in 1 .. n + 1 : View(q)[j] = Seen(q, j)
  BY <1>2, <1>3, ViewOf
<1>7. View(q) = Append(View(m), new)
  <2>1. Append(View(m), new) \in Seq(ProcessNode) /\ Len(Append(View(m), new)) = n + 1
    BY <1>4, <1>5
  <2>2. \A j \in 1 .. n + 1 : View(q)[j] = Append(View(m), new)[j]
    BY <1>1, <1>2, <1>5, <1>6
  <2>. QED
    BY <1>2, <1>3, <2>1, <2>2, SeenAlike
<1>8. View(q)[i] = new
  BY <1>1, <1>2, <1>6
<1>9. Owned(r) /\ View(r) = WithProcessList(View(q), i, {pid})
  <2>1. View(q)[i].processList \cup {pid} = {pid}
    BY <1>4, <1>8
  <2>. QED
    BY <1>2, <1>3, <2>1, ProcessAdded
<1>10. WithProcessList(View(q), i, {pid}) = Append(View(m), full)
  <2>1. i = Len(View(m)) + 1
    BY <1>1, <1>5
  <2>2. WithProcessList(Append(View(m), new), Len(View(m)) + 1, {pid}) = Append(View(m), full)
    BY <1>4, <1>5, LastWritten
  <2>. QED
    BY <1>7, <2>1, <2>2
<1>. QED
  BY <1>9, <1>10 DEF AddProcessNode, full

LEMMA SpawnOnView ==
  ASSUME NEW m, Owned(m), NEW pid \in Pids, NEW parentPid \in Pids,
         AddProcessStatus(View(m), pid, parentPid) = "ADD_OK",
         NEW r, r = AddItem(m, First(TreesOf(View(m), parentPid)), "processList", pid)
  PROVE  Owned(r) /\ View(r) = AddProcess(View(m), pid, parentPid)
<1>1. PICK i : i = First(TreesOf(View(m), parentPid))
  OBVIOUS
<1>2. View(m) \in Seq(ProcessNode) /\ DOMAIN View(m) = InUse(m)
  BY ViewOf
<1>3. TreesOf(View(m), parentPid) # {}
  BY DEF AddProcessStatus
<1>4. i \in InUse(m)
  BY <1>1, <1>2, <1>3, FirstMatch
<1>5. Owned(r) /\ View(r) = WithProcessList(View(m), i, View(m)[i].processList \cup {pid})
  BY <1>1, <1>4, ProcessAdded
<1>. QED
  BY <1>1, <1>5 DEF AddProcess, WithProcessList

LEMMA RemoveOnView ==
  ASSUME NEW m, Owned(m), NEW pid, Holding(View(m), pid) # {},
         NEW i, i = First(Holding(View(m), pid)),
         NEW r, r = FreeNodeIfEmpty(DeleteItem(m, i, "processList", pid), i)
  PROVE  Owned(r) /\ View(r) = DeleteProcess(View(m), pid)
<1>1. View(m) \in Seq(ProcessNode) /\ DOMAIN View(m) = InUse(m)
  BY ViewOf
<1>2. i \in InUse(m)
  BY <1>1, FirstMatch
<1>3. PICK d : d = DeleteItem(m, i, "processList", pid)
  OBVIOUS
<1>4. Owned(d) /\ View(d) = WithProcessList(View(m), i, View(m)[i].processList \ {pid})
  BY <1>2, <1>3, ProcessDeleted
<1>5. i \in InUse(d)
  BY <1>1, <1>2, <1>4, ViewOf DEF WithProcessList
<1>6. Owned(r) /\ View(r) = DestroyNodeIfEmpty(View(d), i)
  BY <1>3, <1>4, <1>5, FreeNodeOnView
<1>. QED
  BY <1>4, <1>6 DEF DeleteProcess, ContainsProcess, WithProcessList

LEMMA WithoutFileOnView ==
  ASSUME NEW m, Owned(m), NEW f, Owning(View(m), f) # {},
         NEW r, r = WithoutFile(m, f)
  PROVE  Owned(r) /\ View(r) = DeleteFile(View(m), f)
<1>0. PICK i : i = First(Owning(View(m), f))
  OBVIOUS
<1>1. View(m) \in Seq(ProcessNode) /\ DOMAIN View(m) = InUse(m)
  BY ViewOf
<1>2. i \in InUse(m)
  BY <1>0, <1>1, FirstMatch
<1>3. PICK d : d = DeleteItem(m, i, "filesList", f)
  OBVIOUS
<1>4. Owned(d) /\ View(d) = WithFilesList(View(m), i, View(m)[i].filesList \ {f})
  BY <1>2, <1>3, FileDeleted
<1>5. i \in InUse(d)
  BY <1>1, <1>2, <1>4, ViewOf DEF WithFilesList
<1>6. Owned(r) /\ View(r) = DestroyNodeIfEmpty(View(d), i)
  <2>1. r = FreeNodeIfEmpty(d, i)
    BY <1>0, <1>3 DEF WithoutFile
  <2>. QED
    BY <1>4, <1>5, <2>1, FreeNodeOnView
<1>. QED
  BY <1>0, <1>4, <1>6 DEF DeleteFile, WithFilesList

\* The tree of the parent is found in what is left once the file is gone.
LEMMA TakeOnView ==
  ASSUME NEW m, Owned(m), NEW f \in Files, NEW parentPid \in Pids,
         FileAdmission(View(m), f, parentPid) = "ADD_OK",
         NEW d, d = IF PreviousAssociation(View(m), f, parentPid) = "DELETE_OK"
                    THEN WithoutFile(m, f) ELSE m,
         NEW i, i = First(Holding(View(d), parentPid)),
         NEW r, r = IF AddFileStatus(View(m), f, parentPid) = "ADD_OK"
                    THEN AddItem(d, i, "filesList", f) ELSE d
  PROVE  Owned(r) /\ View(r) = AddFile(View(m), f, parentPid)
<1>1. View(m) \in Seq(ProcessNode)
  BY ViewOf
<1>2. Owned(d) /\ View(d) = DeletePreviousAssociation(View(m), f, parentPid)
  <2>1. CASE PreviousAssociation(View(m), f, parentPid) = "DELETE_OK"
    <3>1. Owning(View(m), f) # {}
      BY <2>1 DEF PreviousAssociation
    <3>. QED
      BY <2>1, <3>1, WithoutFileOnView DEF DeletePreviousAssociation
  <2>2. CASE PreviousAssociation(View(m), f, parentPid) # "DELETE_OK"
    BY <2>2 DEF DeletePreviousAssociation
  <2>. QED
    BY <2>1, <2>2
<1>3. Holding(View(d), parentPid) # {}
  <2>1. Holding(View(m), parentPid) # {}
    BY DEF FileAdmission, CanAddFileStatus
  <2>. QED
    BY <1>1, <1>2, <2>1, DeletePreviousAssociationKeepsHolder
<1>4. i \in InUse(d)
  BY <1>2, <1>3, ViewOf, FirstMatch
<1>5. CASE AddFileStatus(View(m), f, parentPid) = "ADD_OK"
  <2>1. Owned(r) /\ View(r) = WithFilesList(View(d), i, View(d)[i].filesList \cup {f})
    BY <1>2, <1>4, <1>5, FileAdded
  <2>. QED
    BY <1>2, <1>5, <2>1 DEF AddFile, WithFilesList
<1>6. CASE AddFileStatus(View(m), f, parentPid) # "ADD_OK"
  BY <1>2, <1>6 DEF AddFile
<1>. QED
  BY <1>5, <1>6

LEMMA DestroyOnView ==
  ASSUME NEW m, Owned(m),
         NEW r, r = [ items        |-> << >>,
                      pointers     |-> [j \in 1 .. MaxNodes |-> NoLists],
                      maxItemCount |-> 0,
                      allocated    |-> m.allocated \ ListsInUse(m),
                      content      |-> [c \in Cells |-> IF c \in ListsInUse(m) THEN {}
                                                        ELSE m.content[c]] ]
  PROVE  Owned(r) /\ View(r) = << >>
<1>1. /\ ListsInUse(m) = m.allocated /\ m.content \in [Cells -> SUBSET (Pids \cup Files)]
      /\ \A c \in Cells \ m.allocated : m.content[c] = {}
  BY ListsCounted DEF Owned, Memory, Accounted
<1>2. /\ r.items = << >> /\ r.maxItemCount = 0 /\ r.allocated = {}
      /\ r.content \in [Cells -> SUBSET (Pids \cup Files)]
      /\ \A c \in Cells : r.content[c] = {}
      /\ r.pointers \in [1 .. MaxNodes -> Pointers]
  BY <1>1 DEF Pointers, NoLists
<1>3. r \in Memory
  BY <1>2 DEF Memory
<1>4. Len(r.items) = 0 /\ InUse(r) = {} /\ << >> \in Seq(ProcessNode)
  BY <1>2 DEF InUse
<1>5. Owned(r)
  BY <1>2, <1>3, <1>4 DEF Owned, Leads, Unshared, Accounted
<1>. QED
  BY <1>2, <1>4, <1>5, SeenAlike

\* Where there is no array there are no nodes.
LEMMA AllocateOnView ==
  ASSUME NEW m, Owned(m), m.maxItemCount = 0,
         NEW r, r = [m EXCEPT !.items = << >>, !.maxItemCount = MaxNodes,
                              !.pointers = [j \in 1 .. MaxNodes |-> NoLists]]
  PROVE  Owned(r) /\ View(r) = << >> /\ View(m) = << >>
<1>1. /\ Len(m.items) = 0 /\ InUse(m) = {} /\ m \in Memory /\ << >> \in Seq(ProcessNode)
      /\ MaxNodes \in Nat
  BY MemoryTyped, LimitAssumption DEF Owned, InUse
<1>2. View(m) = << >>
  BY <1>1, SeenAlike
<1>3. /\ r.items = << >> /\ r.maxItemCount = MaxNodes
      /\ r.allocated = m.allocated /\ r.content = m.content
      /\ r.pointers = [j \in 1 .. MaxNodes |-> NoLists]
  BY <1>1 DEF Memory
<1>4. r.pointers \in [1 .. MaxNodes -> Pointers]
  BY <1>3 DEF Pointers, NoLists
<1>5. r = [ items |-> << >>, pointers |-> r.pointers, maxItemCount |-> MaxNodes,
            allocated |-> m.allocated, content |-> m.content ]
  BY <1>1, <1>3 DEF Memory
<1>6. r \in Memory
  <2>1. /\ << >> \in Seq(Fields) /\ MaxNodes \in {0, MaxNodes}
        /\ m.allocated \in SUBSET Cells /\ m.content \in [Cells -> SUBSET (Pids \cup Files)]
    BY <1>1 DEF Memory
  <2>. QED
    BY <1>4, <1>5, <2>1 DEF Memory
<1>7. Len(r.items) = 0 /\ InUse(r) = {}
  BY <1>3 DEF InUse
<1>8. Owned(r)
  BY <1>1, <1>3, <1>6, <1>7 DEF Owned, Leads, Unshared, Accounted
<1>. QED
  BY <1>1, <1>2, <1>7, <1>8, SeenAlike

-----------------------------------------------------------------------------
(* The invariant and what follows from it                                  *)

LEMMA InitOwned == Init => Owned(mem) /\ View(mem) = << >>
<1>. SUFFICES ASSUME Init PROVE Owned(mem) /\ View(mem) = << >>
  OBVIOUS
<1>1. /\ mem.items = << >> /\ mem.maxItemCount = MaxNodes /\ mem.allocated = {}
      /\ \A c \in Cells : mem.content[c] = {}
      /\ MaxNodes \in Nat
  BY LimitAssumption DEF Init
<1>2. mem \in Memory
  <2>1. << >> \in Seq(Fields) /\ NoLists \in Pointers
    BY DEF NoLists, Pointers
  <2>. QED
    BY <2>1 DEF Init, Memory
<1>3. Len(mem.items) = 0 /\ InUse(mem) = {} /\ << >> \in Seq(ProcessNode)
  BY <1>1 DEF InUse
<1>4. Owned(mem)
  BY <1>1, <1>2, <1>3 DEF Owned, Leads, Unshared, Accounted
<1>. QED
  BY <1>1, <1>3, <1>4, SeenAlike

\* What each action does to the memory, and to the values.
StepOnView ==
  \/ \E pid \in Pids, img \in Files \cup {NoFile}, noresp \in t_noresp :
        View(mem)' = AddProcessNode(View(mem), pid, img, noresp)
  \/ \E pid \in Pids, parentPid \in Pids : View(mem)' = AddProcess(View(mem), pid, parentPid)
  \/ \E pid \in Pids : View(mem)' = DeleteProcess(View(mem), pid)
  \/ \E f \in Files, parentPid \in Pids : View(mem)' = AddFile(View(mem), f, parentPid)
  \/ \E f \in Files : View(mem)' = DeleteFile(View(mem), f)
  \/ View(mem)' = << >>

LEMMA NextOwned == Owned(mem) /\ Next => Owned(mem)' /\ StepOnView
<1>. SUFFICES ASSUME Owned(mem), Next PROVE Owned(mem') /\ StepOnView
  OBVIOUS
<1>1. ASSUME NEW pid \in Pids, NEW img \in Files \cup {NoFile}, NEW noresp \in t_noresp,
             CreateNode(pid, img, noresp)
      PROVE  Owned(mem') /\ View(mem') = AddProcessNode(View(mem), pid, img, noresp)
  BY <1>1, CreateOnView DEF CreateNode
<1>2. ASSUME NEW pid \in Pids, NEW parentPid \in Pids, SpawnProcess(pid, parentPid)
      PROVE  Owned(mem') /\ View(mem') = AddProcess(View(mem), pid, parentPid)
  BY <1>2, SpawnOnView DEF SpawnProcess
<1>3. ASSUME NEW pid \in Pids, RemoveProcess(pid)
      PROVE  Owned(mem') /\ View(mem') = DeleteProcess(View(mem), pid)
  BY <1>3, RemoveOnView DEF RemoveProcess
<1>4. ASSUME NEW f \in Files, NEW parentPid \in Pids, TakeFile(f, parentPid)
      PROVE  Owned(mem') /\ View(mem') = AddFile(View(mem), f, parentPid)
  BY <1>4, TakeOnView DEF TakeFile
<1>5. ASSUME NEW f \in Files, RemoveFile(f)
      PROVE  Owned(mem') /\ View(mem') = DeleteFile(View(mem), f)
  BY <1>5, WithoutFileOnView DEF RemoveFile
<1>6. CASE DestroyList
  BY <1>6, DestroyOnView DEF DestroyList, StepOnView
<1>7. CASE AllocateList
  BY <1>7, AllocateOnView DEF AllocateList, StepOnView
<1>. QED
  BY <1>1, <1>2, <1>3, <1>4, <1>5, <1>6, <1>7 DEF Next, StepOnView

\* Each list is owned by one node in use, and what a pointer of a free slot
\* leads to does not count: no operation reads a slot that _init has not set.
THEOREM MemoryOwned == Spec => []Owned(mem)
<1>1. Init => Owned(mem)
  BY InitOwned
<1>2. Owned(mem) /\ [Next]_mem => Owned(mem)'
  <2>1. CASE Next
    BY <2>1, NextOwned
  <2>2. CASE UNCHANGED mem
    BY <2>2
  <2>. QED
    BY <2>1, <2>2
<1>. QED
  BY <1>1, <1>2, PTL DEF Spec

\* The slots and their pointers are well formed, and a free block is empty.
THEOREM ArrayTyped == Spec => []TypeOK
<1>1. Owned(mem) => TypeOK
  BY DEF Owned, Memory, Accounted, TypeOK, Fields, Pointers
<1>. QED
  BY <1>1, MemoryOwned, PTL

\* No node in use leads to a list that is freed, or that another one owns:
\* after a swap the pointers left in the last slot are never used (_init sets
\* a slot's pointers before InitLists reads them).
THEOREM NoListShared == Spec => []ListsOwnedOnce
<1>1. Owned(mem) => ListsOwnedOnce
  BY ListsCounted DEF ListsOwnedOnce
<1>. QED
  BY <1>1, MemoryOwned, PTL

\* A node that goes frees both of its lists, and destroy those of all nodes.
THEOREM ListsFreed == Spec => []NoListLost
<1>1. Owned(mem) => NoListLost
  BY ListsCounted DEF NoListLost
<1>. QED
  BY <1>1, MemoryOwned, PTL

-----------------------------------------------------------------------------
(* The memory implements the watch list                                    *)

\* What List looks up is what this module looks up.
LEMMA SameQueries ==
  /\ List!t_noresp = t_noresp
  /\ \A S : List!First(S) = First(S)
  /\ \A ns, pid : List!Holding(ns, pid) = Holding(ns, pid)
  /\ \A ns, f : List!Owning(ns, f) = Owning(ns, f)
  /\ \A ns, pid : List!TreesOf(ns, pid) = TreesOf(ns, pid)
  /\ \A ns, pid : List!ContainsProcess(ns, pid) <=> ContainsProcess(ns, pid)
<1>1. \A ns, pid : List!RootedAt(ns, pid) = RootedAt(ns, pid)
  BY DEF List!RootedAt, RootedAt
<1>2. \A ns, pid : List!Holding(ns, pid) = Holding(ns, pid)
  BY DEF List!Holding, Holding
<1>3. \A ns, pid : List!TreesOf(ns, pid) = TreesOf(ns, pid)
  BY <1>1, <1>2 DEF List!TreesOf, TreesOf
<1>4. \A ns, pid : List!ContainsProcess(ns, pid) <=> ContainsProcess(ns, pid)
  BY <1>2 DEF List!ContainsProcess, ContainsProcess
<1>5. \A ns, f : List!Owning(ns, f) = Owning(ns, f)
  BY DEF List!Owning, Owning
<1>6. \A S : List!First(S) = First(S)
  BY DEF List!First, First
<1>. QED
  BY <1>2, <1>3, <1>4, <1>5, <1>6 DEF List!t_noresp, t_noresp

LEMMA SameNodes ==
  /\ \A n : List!IsDeadNode(n) <=> IsDeadNode(n)
  /\ \A n : List!IsEmptyNode(n) <=> IsEmptyNode(n)
  /\ \A n, pid : List!NodeAddProcessStatus(n, pid) = NodeAddProcessStatus(n, pid)
  /\ \A n, f : List!NodeAddFileStatus(n, f) = NodeAddFileStatus(n, f)
  /\ \A n : List!NodeCanAddFile(n) <=> NodeCanAddFile(n)
<1>1. \A n : List!IsDeadNode(n) <=> IsDeadNode(n)
  BY DEF List!IsDeadNode, IsDeadNode
<1>2. \A n : List!IsEmptyNode(n) <=> IsEmptyNode(n)
  BY <1>1 DEF List!IsEmptyNode, IsEmptyNode
<1>7. \A S : List!Cardinality(S) = Cardinality(S)
  BY DEF List!Cardinality, Cardinality
<1>3. \A S, it : List!AddItemStatus(S, it) = AddItemStatus(S, it)
  BY <1>7 DEF List!AddItemStatus, AddItemStatus
<1>4. \A n, pid : List!NodeAddProcessStatus(n, pid) = NodeAddProcessStatus(n, pid)
  BY <1>1, <1>3 DEF List!NodeAddProcessStatus, NodeAddProcessStatus
<1>5. \A n, f : List!NodeAddFileStatus(n, f) = NodeAddFileStatus(n, f)
  BY <1>1, <1>3 DEF List!NodeAddFileStatus, NodeAddFileStatus
<1>6. \A n : List!NodeCanAddFile(n) <=> NodeCanAddFile(n)
  BY <1>7, <1>1 DEF List!NodeCanAddFile, NodeCanAddFile
<1>. QED
  BY <1>1, <1>2, <1>4, <1>5, <1>6

LEMMA SameDeletions ==
  /\ \A ns, pid : List!DeleteProcess(ns, pid) = DeleteProcess(ns, pid)
  /\ \A ns, f : List!DeleteFile(ns, f) = DeleteFile(ns, f)
  /\ \A ns, f, pid : List!PreviousAssociation(ns, f, pid) = PreviousAssociation(ns, f, pid)
  /\ \A ns, f, pid :
        List!DeletePreviousAssociation(ns, f, pid) = DeletePreviousAssociation(ns, f, pid)
<1>1. \A ns, i : List!DestroyNodeIfEmpty(ns, i) = DestroyNodeIfEmpty(ns, i)
  BY SameNodes DEF List!DestroyNodeIfEmpty, DestroyNodeIfEmpty
<1>2. \A ns, pid : List!DeleteProcess(ns, pid) = DeleteProcess(ns, pid)
  BY <1>1, SameQueries DEF List!DeleteProcess, DeleteProcess
<1>3. \A ns, f : List!DeleteFile(ns, f) = DeleteFile(ns, f)
  BY <1>1, SameQueries DEF List!DeleteFile, DeleteFile
<1>4. \A ns, f, pid : List!PreviousAssociation(ns, f, pid) = PreviousAssociation(ns, f, pid)
  BY SameNodes, SameQueries DEF List!PreviousAssociation, PreviousAssociation
<1>5. \A ns, f, pid :
        List!DeletePreviousAssociation(ns, f, pid) = DeletePreviousAssociation(ns, f, pid)
  BY <1>3, <1>4 DEF List!DeletePreviousAssociation, DeletePreviousAssociation
<1>. QED
  BY <1>2, <1>3, <1>4, <1>5

LEMMA SameAdditions ==
  /\ \A ns, pid, f, noresp :
        List!AddProcessNode(ns, pid, f, noresp) = AddProcessNode(ns, pid, f, noresp)
  /\ \A ns, pid, parent : List!AddProcess(ns, pid, parent) = AddProcess(ns, pid, parent)
  /\ \A ns, f, pid : List!AddFile(ns, f, pid) = AddFile(ns, f, pid)
<1>1. \A ns, pid, f, noresp :
        List!AddProcessNode(ns, pid, f, noresp) = AddProcessNode(ns, pid, f, noresp)
  BY SameQueries DEF List!AddProcessNode, AddProcessNode, List!AddProcessNodeStatus,
                     AddProcessNodeStatus
<1>2. \A ns, pid, parent : List!AddProcessStatus(ns, pid, parent) = AddProcessStatus(ns, pid, parent)
  BY SameNodes, SameQueries DEF List!AddProcessStatus, AddProcessStatus
<1>3. \A ns, pid, parent : List!AddProcess(ns, pid, parent) = AddProcess(ns, pid, parent)
  BY <1>2, SameQueries DEF List!AddProcess, AddProcess
<1>4. \A ns, pid : List!CanAddFileStatus(ns, pid) = CanAddFileStatus(ns, pid)
  BY SameNodes, SameQueries DEF List!CanAddFileStatus, CanAddFileStatus
<1>5. \A ns, f, pid : List!FileAdmission(ns, f, pid) = FileAdmission(ns, f, pid)
  BY <1>4, SameDeletions DEF List!FileAdmission, FileAdmission
<1>6. \A ns, f, pid : List!AddFileStatus(ns, f, pid) = AddFileStatus(ns, f, pid)
  BY <1>5, SameDeletions, SameNodes, SameQueries DEF List!AddFileStatus, AddFileStatus
<1>7. \A ns, f, pid : List!AddFile(ns, f, pid) = AddFile(ns, f, pid)
  BY <1>5, <1>6, SameDeletions, SameQueries DEF List!AddFile, AddFile
<1>. QED
  BY <1>1, <1>3, <1>7

LEMMA ListStep ==
  ASSUME StepOnView
  PROVE  List!Next
<1>1. ASSUME NEW pid \in Pids, NEW img \in Files \cup {NoFile}, NEW noresp \in t_noresp,
             View(mem)' = AddProcessNode(View(mem), pid, img, noresp)
      PROVE  List!Next
  <2>1. List!DoAddProcessNode
    BY <1>1, SameQueries, SameAdditions DEF List!DoAddProcessNode
  <2>. QED
    BY <2>1 DEF List!Next
<1>2. ASSUME NEW pid \in Pids, NEW parentPid \in Pids,
             View(mem)' = AddProcess(View(mem), pid, parentPid)
      PROVE  List!Next
  <2>1. List!DoAddProcess(pid)
    BY <1>2, SameAdditions DEF List!DoAddProcess
  <2>. QED
    BY <2>1 DEF List!Next
<1>3. ASSUME NEW pid \in Pids, View(mem)' = DeleteProcess(View(mem), pid)
      PROVE  List!Next
  BY <1>3, SameDeletions DEF List!Next, List!DoDeleteProcess
<1>4. ASSUME NEW f \in Files, NEW parentPid \in Pids, View(mem)' = AddFile(View(mem), f, parentPid)
      PROVE  List!Next
  <2>1. List!DoAddFile
    BY <1>4, SameAdditions DEF List!DoAddFile
  <2>. QED
    BY <2>1 DEF List!Next
<1>5. ASSUME NEW f \in Files, View(mem)' = DeleteFile(View(mem), f)
      PROVE  List!Next
  BY <1>5, SameDeletions DEF List!Next, List!DoDeleteFile
<1>6. CASE View(mem)' = << >>
  BY <1>6 DEF List!Next, List!DoDestroy
<1>. QED
  BY <1>1, <1>2, <1>3, <1>4, <1>5, <1>6 DEF StepOnView

\* Whatever the operations read through the pointers, and whatever the stale
\* ones lead to, what they do is what they do to an array of values: so what
\* is proved of WatchList holds of the memory.
THEOREM MemoryIsList == Spec => ImplementsList
<1>1. Init => List!Init
  BY InitOwned DEF List!Init
<1>2. Owned(mem) /\ [Next]_mem => [List!Next]_(View(mem))
  <2>1. CASE Next
    BY <2>1, NextOwned, ListStep
  <2>2. CASE UNCHANGED mem
    BY <2>2
  <2>. QED
    BY <2>1, <2>2
<1>. QED
  BY <1>1, <1>2, MemoryOwned, PTL DEF Spec, ImplementsList, List!Spec
=============================================================================
