-------------------------- MODULE ProcessNodesProofs --------------------------
(***************************************************************************)
(* Lemmas about the operations of ProcessNodes: what each returns when it  *)
(* is given a well-formed array.  The theorems about the watch list rest   *)
(* on them.                                                                *)
(***************************************************************************)
EXTENDS ProcessNodes, FiniteSetTheorems, SequenceTheorems, WellFoundedInduction, TLAPS

-----------------------------------------------------------------------------
(* The first match of a loop over the array.                               *)

\* A loop that returns at the first match acts on a matching index: First(S)
\* is in S whenever S is a nonempty set of indices.
LEMMA FirstIsMember ==
  ASSUME NEW S \in SUBSET Nat, S # {}
  PROVE  First(S) \in S
<1>. DEFINE below == {T \in SUBSET Nat : \E i \in S : T = 1 .. i}
<1>1. below # {} /\ below \subseteq FiniteSubsetsOf(Nat)
  <2>1. PICK i \in S : TRUE
    OBVIOUS
  <2>2. 1 .. i \in below
    <3>1. 1 .. i \in SUBSET Nat
      OBVIOUS
    <3>. QED
      BY <3>1
  <2>3. ASSUME NEW j \in S PROVE IsFiniteSet(1 .. j)
    BY FS_Interval
  <2>. QED
    BY <2>2, <2>3 DEF FiniteSubsetsOf
<1>2. PICK least \in below : \A T \in below : <<T, least>> \notin StrictSubsetOrdering(Nat)
  BY <1>1, FS_StrictSubsetOrderingWellFounded, WFMin
<1>3. PICK i \in S : least = 1 .. i
  OBVIOUS
<1>4. ASSUME NEW j \in S PROVE i <= j
  <2>1. SUFFICES ASSUME j < i PROVE FALSE
    OBVIOUS
  <2>2. 1 .. j \in below /\ 1 .. j \subseteq 1 .. i /\ 1 .. j # 1 .. i
    <3>1. i \in 1 .. i /\ i \notin 1 .. j
      BY <2>1
    <3>. QED
      BY <2>1, <3>1
  <2>. QED
    BY <1>2, <1>3, <2>2 DEF StrictSubsetOrdering
<1>. QED
  BY <1>4 DEF First

\* An array is a function of an interval, and so are the sets of its indices
\* that hold a process, own a file or have a given root.
LEMMA ArrayIndices ==
  ASSUME NEW ns \in Seq(ProcessNode)
  PROVE  /\ Len(ns) \in Nat
         /\ DOMAIN ns = 1 .. Len(ns)
         /\ ns \in [DOMAIN ns -> ProcessNode]
         /\ \A pid : Holding(ns, pid) \subseteq DOMAIN ns /\ Holding(ns, pid) \in SUBSET Nat
         /\ \A pid : RootedAt(ns, pid) \subseteq DOMAIN ns /\ RootedAt(ns, pid) \in SUBSET Nat
         /\ \A f : Owning(ns, f) \subseteq DOMAIN ns /\ Owning(ns, f) \in SUBSET Nat
<1>1. Len(ns) \in Nat /\ DOMAIN ns = 1 .. Len(ns) /\ ns \in [DOMAIN ns -> ProcessNode]
  BY LenProperties
<1>. QED
  BY <1>1 DEF Holding, RootedAt, Owning

\* The node a loop stops at: it holds the process, or owns the file.
LEMMA FirstMatch ==
  ASSUME NEW ns \in Seq(ProcessNode)
  PROVE  /\ \A pid : Holding(ns, pid) # {} =>
                /\ First(Holding(ns, pid)) \in DOMAIN ns
                /\ pid \in ns[First(Holding(ns, pid))].processList
         /\ \A f : Owning(ns, f) # {} =>
                /\ First(Owning(ns, f)) \in DOMAIN ns
                /\ f \in ns[First(Owning(ns, f))].filesList
         /\ \A pid : TreesOf(ns, pid) # {} => First(TreesOf(ns, pid)) \in DOMAIN ns
<1>1. ASSUME NEW pid, Holding(ns, pid) # {}
      PROVE  First(Holding(ns, pid)) \in Holding(ns, pid)
  BY <1>1, ArrayIndices, FirstIsMember
<1>2. ASSUME NEW f, Owning(ns, f) # {}
      PROVE  First(Owning(ns, f)) \in Owning(ns, f)
  BY <1>2, ArrayIndices, FirstIsMember
<1>3. ASSUME NEW pid, TreesOf(ns, pid) # {}
      PROVE  First(TreesOf(ns, pid)) \in TreesOf(ns, pid)
  <2>1. TreesOf(ns, pid) \in SUBSET Nat
    BY ArrayIndices DEF TreesOf
  <2>. QED
    BY <1>3, <2>1, FirstIsMember
<1>4. \A pid : TreesOf(ns, pid) \subseteq DOMAIN ns
  BY ArrayIndices DEF TreesOf
<1>. QED
  BY <1>1, <1>2, <1>3, <1>4 DEF Holding, Owning

-----------------------------------------------------------------------------
(* _DestroyNodeIfEmpty                                                     *)

\* The swap with the last node loses no node but the empty one, and doubles
\* none: two nodes of the result come from two nodes of the array.
LEMMA DestroyNodeIfEmptyKeepsNodes ==
  ASSUME NEW ns \in Seq(ProcessNode), NEW i \in DOMAIN ns,
         NEW r, r = DestroyNodeIfEmpty(ns, i)
  PROVE  /\ r \in Seq(ProcessNode)
         /\ Len(r) <= Len(ns)
         /\ \A j \in DOMAIN r : \E a \in DOMAIN ns :
               r[j] = ns[a] /\ (IsEmptyNode(r[j]) => a # i)
         /\ \A j, k \in DOMAIN r : j # k =>
               \E a, b \in DOMAIN ns : a # b /\ r[j] = ns[a] /\ r[k] = ns[b]
         /\ \A a \in DOMAIN ns :
               (a # i \/ ~IsEmptyNode(ns[i])) => \E j \in DOMAIN r : r[j] = ns[a]
<1>. DEFINE n == Len(ns)
            cut == [j \in 1 .. n - 1 |-> IF j = i THEN ns[n] ELSE ns[j]]
<1>1. n \in Nat \ {0} /\ i \in 1 .. n /\ DOMAIN ns = 1 .. n
      /\ \A j \in 1 .. n : ns[j] \in ProcessNode
  BY ArrayIndices
<1>2. CASE ~IsEmptyNode(ns[i])
  <2>1. r = ns
    BY <1>2 DEF DestroyNodeIfEmpty
  <2>. QED
    BY <1>1, <1>2, <2>1
<1>3. CASE IsEmptyNode(ns[i])
  <2>1. r = cut
    BY <1>3 DEF DestroyNodeIfEmpty
  <2>2. \A j \in 1 .. n - 1 : cut[j] \in ProcessNode
    BY <1>1
  <2>3. cut \in Seq(ProcessNode) /\ Len(cut) = n - 1 /\ DOMAIN cut = 1 .. n - 1
    <3>1. n - 1 \in Nat
      BY <1>1
    <3>2. cut \in [1 .. n - 1 -> ProcessNode]
      BY <2>2
    <3>3. cut \in Seq(ProcessNode)
      BY <3>1, <3>2, SeqDef
    <3>. QED
      BY <3>1, <3>3, LenProperties
  <2>. DEFINE from(j) == IF j = i THEN n ELSE j
  <2>4. \A j \in 1 .. n - 1 : from(j) \in 1 .. n /\ cut[j] = ns[from(j)] /\ from(j) # i
    BY <1>1
  <2>5. \A j, k \in 1 .. n - 1 : j # k => from(j) # from(k)
    BY <1>1
  <2>6. \A a \in 1 .. n : a # i => \E j \in 1 .. n - 1 : cut[j] = ns[a]
    <3>1. TAKE a \in 1 .. n
    <3>2. HAVE a # i
    <3>3. CASE a = n
      <4>1. i \in 1 .. n - 1 /\ cut[i] = ns[a]
        BY <1>1, <3>2, <3>3
      <4>. QED
        BY <4>1
    <3>4. CASE a # n
      <4>1. a \in 1 .. n - 1
        <5>. HIDE DEF n
        <5>. QED
          BY <1>1, <3>4
      <4>2. cut[a] = ns[a]
        BY <3>2, <4>1
      <4>. QED
        BY <4>1, <4>2
    <3>. QED
      BY <3>3, <3>4
  <2>. HIDE DEF cut, from
  <2>7. n - 1 <= n
    BY <1>1
  <2>8. \A j \in DOMAIN r : \E a \in DOMAIN ns :
          r[j] = ns[a] /\ (IsEmptyNode(r[j]) => a # i)
    BY <1>1, <2>1, <2>3, <2>4
  <2>9. \A j, k \in DOMAIN r : j # k =>
          \E a, b \in DOMAIN ns : a # b /\ r[j] = ns[a] /\ r[k] = ns[b]
    BY <1>1, <2>1, <2>3, <2>4, <2>5
  <2>10. \A a \in DOMAIN ns :
           (a # i \/ ~IsEmptyNode(ns[i])) => \E j \in DOMAIN r : r[j] = ns[a]
    BY <1>1, <1>3, <2>1, <2>3, <2>6
  <2>. QED
    BY <2>1, <2>3, <2>7, <2>8, <2>9, <2>10
<1>. QED
  BY <1>2, <1>3

-----------------------------------------------------------------------------
(* Well-formed arrays                                                      *)

NodeWithinLimits(n) ==
  Cardinality(n.processList) <= MaxItems /\ Cardinality(n.filesList) <= MaxItems

\* Holds whatever the callers do.
Sound(ns) ==
  /\ ns \in Seq(ProcessNode)
  /\ Len(ns) <= MaxNodes
  /\ \A i \in DOMAIN ns : NodeWithinLimits(ns[i]) /\ ~IsEmptyNode(ns[i])

\* Holds for callers that add a process only while no tree holds it.
Disjoint(ns) ==
  \A i, j \in DOMAIN ns : i # j =>
    /\ ns[i].processList \cap ns[j].processList = {}
    /\ ns[i].filesList \cap ns[j].filesList = {}

\* A list that takes an item only while it is not full does not overflow.
LEMMA AddItemWithinLimits ==
  ASSUME NEW items, NEW it, IsFiniteSet(items), AddItemStatus(items, it) = "ADD_OK"
  PROVE  Cardinality(items \cup {it}) <= MaxItems
<1>1. Cardinality(items) \in Nat /\ it \notin items /\ ~(Cardinality(items) >= MaxItems)
  BY FS_CardinalityType DEF AddItemStatus
<1>2. Cardinality(items \cup {it}) = Cardinality(items) + 1
  BY <1>1, FS_AddElement
<1>. QED
  BY <1>1, <1>2, LimitAssumption

\* Taking an item off a list does not make it longer.
LEMMA DeleteItemWithinLimits ==
  ASSUME NEW items, NEW it, IsFiniteSet(items), Cardinality(items) <= MaxItems
  PROVE  Cardinality(items \ {it}) <= MaxItems
<1>1. /\ Cardinality(items) \in Nat /\ Cardinality(items \ {it}) \in Nat
      /\ Cardinality(items \ {it}) <= Cardinality(items)
  BY FS_CardinalityType, FS_Subset
<1>. QED
  BY <1>1, LimitAssumption

\* The lists of a node are finite.
LEMMA NodeListsFinite ==
  ASSUME NEW n \in ProcessNode
  PROVE  IsFiniteSet(n.processList) /\ IsFiniteSet(n.filesList)
BY FiniteAssumption, FS_Subset DEF ProcessNode

\* Replacing a node by one that is within the limits and not empty.
LEMMA ReplaceSound ==
  ASSUME NEW ns, Sound(ns), NEW i \in DOMAIN ns, NEW m \in ProcessNode,
         NodeWithinLimits(m), ~IsEmptyNode(m)
  PROVE  Sound([ns EXCEPT ![i] = m])
<1>1. ns \in Seq(ProcessNode) /\ DOMAIN ns = 1 .. Len(ns) /\ i \in 1 .. Len(ns)
  BY ArrayIndices DEF Sound
<1>2. /\ [ns EXCEPT ![i] = m] \in Seq(ProcessNode)
      /\ Len([ns EXCEPT ![i] = m]) = Len(ns)
      /\ \A j \in 1 .. Len(ns) : [ns EXCEPT ![i] = m][j] = IF j = i THEN m ELSE ns[j]
  BY <1>1, ExceptSeq
<1>3. DOMAIN [ns EXCEPT ![i] = m] = 1 .. Len(ns)
  BY <1>1
<1>. QED
  BY <1>1, <1>2, <1>3 DEF Sound

\* Replacing a node by one that is within the limits, and destroying it if
\* nothing is left to watch.
LEMMA ReplaceThenDestroySound ==
  ASSUME NEW ns, Sound(ns), NEW i \in DOMAIN ns, NEW m \in ProcessNode,
         NodeWithinLimits(m)
  PROVE  Sound(DestroyNodeIfEmpty([ns EXCEPT ![i] = m], i))
<1>. DEFINE e == [ns EXCEPT ![i] = m]
            r == DestroyNodeIfEmpty(e, i)
<1>1. ns \in Seq(ProcessNode) /\ DOMAIN ns = 1 .. Len(ns) /\ i \in 1 .. Len(ns)
      /\ Len(ns) \in Nat /\ Len(ns) <= MaxNodes
  BY ArrayIndices DEF Sound
<1>2. /\ e \in Seq(ProcessNode)
      /\ Len(e) = Len(ns)
      /\ \A j \in 1 .. Len(ns) : e[j] = IF j = i THEN m ELSE ns[j]
  BY <1>1, ExceptSeq
<1>3. DOMAIN e = 1 .. Len(ns)
  BY <1>1
<1>. HIDE DEF e
<1>4. /\ r \in Seq(ProcessNode)
      /\ Len(r) <= Len(e)
      /\ \A j \in DOMAIN r : \E a \in DOMAIN e :
            r[j] = e[a] /\ (IsEmptyNode(r[j]) => a # i)
  <2>1. i \in DOMAIN e /\ e \in Seq(ProcessNode)
    BY <1>1, <1>2, <1>3
  <2>. HIDE DEF r
  <2>2. r = DestroyNodeIfEmpty(e, i)
    BY DEF r
  <2>. QED
    BY <2>1, <2>2, DestroyNodeIfEmptyKeepsNodes
<1>. HIDE DEF r
<1>5. \A a \in 1 .. Len(ns) : NodeWithinLimits(e[a]) /\ (a # i => ~IsEmptyNode(e[a]))
  BY <1>1, <1>2 DEF Sound
<1>6. \A j \in DOMAIN r : NodeWithinLimits(r[j]) /\ ~IsEmptyNode(r[j])
  BY <1>3, <1>4, <1>5
<1>7. Len(r) <= MaxNodes
  <2>1. Len(r) \in Nat
    BY <1>4, LenProperties
  <2>. QED
    BY <2>1, <1>1, <1>2, <1>4, LimitAssumption
<1>8. Sound(r)
  BY <1>4, <1>6, <1>7 DEF Sound
<1>. QED
  BY <1>8 DEF r, e

-----------------------------------------------------------------------------
(* Each operation leaves a well-formed array well-formed.                  *)

LEMMA AddProcessNodeSound ==
  ASSUME NEW ns, Sound(ns), NEW pid \in Pids \cup {NoPid},
         NEW imgFile \in Files \cup {NoFile}, NEW noresp \in t_noresp
  PROVE  Sound(AddProcessNode(ns, pid, imgFile, noresp))
<1>. DEFINE n == [ rootPid |-> pid, imgFile |-> imgFile, processList |-> {pid},
                   filesList |-> {}, respawnProtect |-> noresp ]
            r == Append(ns, n)
<1>1. CASE AddProcessNodeStatus(ns, pid) # "ADD_OK"
  BY <1>1 DEF AddProcessNode
<1>2. CASE AddProcessNodeStatus(ns, pid) = "ADD_OK"
  <2>1. pid \in Pids /\ ~(Len(ns) >= MaxNodes) /\ AddProcessNode(ns, pid, imgFile, noresp) = r
    BY <1>2 DEF AddProcessNodeStatus, AddProcessNode
  <2>2. n \in ProcessNode /\ ~IsEmptyNode(n)
    BY <2>1 DEF ProcessNode, IsEmptyNode, IsDeadNode
  <2>3. NodeWithinLimits(n)
    <3>1. n.processList = {pid} /\ n.filesList = {}
      OBVIOUS
    <3>2. Cardinality({pid}) = 1 /\ Cardinality({}) = 0
      BY FS_EmptySet, FS_Singleton
    <3>. QED
      BY <3>1, <3>2, LimitAssumption DEF NodeWithinLimits
  <2>. HIDE DEF n
  <2>4. ns \in Seq(ProcessNode) /\ Len(ns) \in Nat /\ DOMAIN ns = 1 .. Len(ns)
    BY ArrayIndices DEF Sound
  <2>5. /\ r \in Seq(ProcessNode) /\ Len(r) = Len(ns) + 1
        /\ \A j \in 1 .. Len(ns) : r[j] = ns[j]
        /\ r[Len(ns) + 1] = n
    BY <2>2, <2>4, AppendProperties
  <2>. HIDE DEF r
  <2>6. DOMAIN r = 1 .. Len(ns) + 1
    BY <2>5, LenProperties
  <2>7. Len(r) <= MaxNodes
    BY <2>1, <2>4, <2>5, LimitAssumption
  <2>8. \A j \in DOMAIN r : NodeWithinLimits(r[j]) /\ ~IsEmptyNode(r[j])
    <3>1. TAKE j \in DOMAIN r
    <3>2. j \in 1 .. Len(ns) \/ j = Len(ns) + 1
      BY <2>4, <2>6
    <3>. QED
      BY <2>2, <2>3, <2>4, <2>5, <3>2 DEF Sound
  <2>. QED
    BY <2>1, <2>5, <2>7, <2>8 DEF Sound
<1>. QED
  BY <1>1, <1>2

LEMMA AddProcessSound ==
  ASSUME NEW ns, Sound(ns), NEW pid \in Pids \cup {NoPid}, NEW parentPid
  PROVE  Sound(AddProcess(ns, pid, parentPid))
<1>. DEFINE i == First(TreesOf(ns, parentPid))
            m == [ns[i] EXCEPT !.processList = @ \cup {pid}]
<1>1. CASE AddProcessStatus(ns, pid, parentPid) # "ADD_OK"
  BY <1>1 DEF AddProcess
<1>2. CASE AddProcessStatus(ns, pid, parentPid) = "ADD_OK"
  <2>1. /\ pid \in Pids
        /\ TreesOf(ns, parentPid) # {}
        /\ AddItemStatus(ns[i].processList, pid) = "ADD_OK"
        /\ AddProcess(ns, pid, parentPid) = [ns EXCEPT ![i] = m]
    BY <1>2 DEF AddProcessStatus, NodeAddProcessStatus, AddProcess
  <2>2. i \in DOMAIN ns /\ ns[i] \in ProcessNode
    BY <2>1, FirstMatch, ArrayIndices DEF Sound
  <2>. HIDE DEF i
  <2>3. m \in ProcessNode /\ pid \in m.processList
        /\ m.processList = ns[i].processList \cup {pid} /\ m.filesList = ns[i].filesList
    BY <2>1, <2>2 DEF ProcessNode
  <2>4. ~IsEmptyNode(m)
    BY <2>3 DEF IsEmptyNode
  <2>5. NodeWithinLimits(m)
    BY <2>1, <2>2, <2>3, NodeListsFinite, AddItemWithinLimits DEF NodeWithinLimits, Sound
  <2>. HIDE DEF m
  <2>. QED
    <3>1. Sound([ns EXCEPT ![i] = m])
      BY <2>2, <2>3, <2>4, <2>5, ReplaceSound
    <3>. QED
      BY <2>1, <3>1
<1>. QED
  BY <1>1, <1>2

LEMMA DeleteProcessSound ==
  ASSUME NEW ns, Sound(ns), NEW pid
  PROVE  Sound(DeleteProcess(ns, pid))
<1>. DEFINE i == First(Holding(ns, pid))
            m == [ns[i] EXCEPT !.processList = @ \ {pid}]
<1>1. CASE ~ContainsProcess(ns, pid)
  BY <1>1 DEF DeleteProcess
<1>2. CASE ContainsProcess(ns, pid)
  <2>1. DeleteProcess(ns, pid) = DestroyNodeIfEmpty([ns EXCEPT ![i] = m], i)
    BY <1>2 DEF DeleteProcess
  <2>2. i \in DOMAIN ns /\ ns[i] \in ProcessNode
    BY <1>2, FirstMatch, ArrayIndices DEF Sound, ContainsProcess
  <2>. HIDE DEF i
  <2>3. m \in ProcessNode
        /\ m.processList = ns[i].processList \ {pid} /\ m.filesList = ns[i].filesList
    BY <2>2 DEF ProcessNode
  <2>4. NodeWithinLimits(m)
    BY <2>2, <2>3, NodeListsFinite, DeleteItemWithinLimits DEF NodeWithinLimits, Sound
  <2>. QED
    BY <2>1, <2>2, <2>3, <2>4, ReplaceThenDestroySound
<1>. QED
  BY <1>1, <1>2

LEMMA DeleteFileSound ==
  ASSUME NEW ns, Sound(ns), NEW fileId
  PROVE  Sound(DeleteFile(ns, fileId))
<1>. DEFINE i == First(Owning(ns, fileId))
            m == [ns[i] EXCEPT !.filesList = @ \ {fileId}]
<1>1. CASE Owning(ns, fileId) = {}
  BY <1>1 DEF DeleteFile
<1>2. CASE Owning(ns, fileId) # {}
  <2>1. DeleteFile(ns, fileId) = DestroyNodeIfEmpty([ns EXCEPT ![i] = m], i)
    BY <1>2 DEF DeleteFile
  <2>2. i \in DOMAIN ns /\ ns[i] \in ProcessNode
    BY <1>2, FirstMatch, ArrayIndices DEF Sound
  <2>. HIDE DEF i
  <2>3. m \in ProcessNode
        /\ m.processList = ns[i].processList /\ m.filesList = ns[i].filesList \ {fileId}
    BY <2>2 DEF ProcessNode
  <2>4. NodeWithinLimits(m)
    BY <2>2, <2>3, NodeListsFinite, DeleteItemWithinLimits DEF NodeWithinLimits, Sound
  <2>. QED
    BY <2>1, <2>2, <2>3, <2>4, ReplaceThenDestroySound
<1>. QED
  BY <1>1, <1>2

\* Taking a file away from a dead node leaves the node of a process that is
\* on the list where a loop will find it.
LEMMA DeletePreviousAssociationKeepsHolder ==
  ASSUME NEW ns \in Seq(ProcessNode), NEW fileId, NEW pid, Holding(ns, pid) # {}
  PROVE  Holding(DeletePreviousAssociation(ns, fileId, pid), pid) # {}
<1>. DEFINE left == DeletePreviousAssociation(ns, fileId, pid)
            i == First(Owning(ns, fileId))
            m == [ns[i] EXCEPT !.filesList = @ \ {fileId}]
            e == [ns EXCEPT ![i] = m]
<1>1. CASE PreviousAssociation(ns, fileId, pid) # "DELETE_OK"
  BY <1>1 DEF DeletePreviousAssociation
<1>2. CASE PreviousAssociation(ns, fileId, pid) = "DELETE_OK"
  <2>1. /\ Owning(ns, fileId) # {} /\ ns[i].processList = {}
        /\ left = DestroyNodeIfEmpty(e, i)
    BY <1>2 DEF PreviousAssociation, DeletePreviousAssociation, DeleteFile
  <2>2. i \in DOMAIN ns /\ ns[i] \in ProcessNode
    BY <2>1, FirstMatch, ArrayIndices
  <2>3. PICK k \in DOMAIN ns : pid \in ns[k].processList
    BY DEF Holding
  <2>4. k # i
    BY <2>1, <2>3
  <2>. HIDE DEF i
  <2>5. m \in ProcessNode
    BY <2>2 DEF ProcessNode
  <2>. HIDE DEF m
  <2>6. e \in Seq(ProcessNode) /\ i \in DOMAIN e /\ k \in DOMAIN e /\ e[k] = ns[k]
    BY <2>2, <2>3, <2>4, <2>5, ExceptSeq, ArrayIndices
  <2>. HIDE DEF e, left
  <2>7. \E j \in DOMAIN left : left[j] = e[k]
    BY <2>1, <2>4, <2>6, DestroyNodeIfEmptyKeepsNodes
  <2>8. Holding(left, pid) # {}
    BY <2>3, <2>6, <2>7 DEF Holding
  <2>. QED
    BY <2>8 DEF left
<1>. QED
  BY <1>1, <1>2

LEMMA DeletePreviousAssociationSound ==
  ASSUME NEW ns, Sound(ns), NEW fileId, NEW pid
  PROVE  Sound(DeletePreviousAssociation(ns, fileId, pid))
BY DeleteFileSound DEF DeletePreviousAssociation

LEMMA AddFileSound ==
  ASSUME NEW ns, Sound(ns), NEW fileId \in Files \cup {NoFile}, NEW parentPid
  PROVE  Sound(AddFile(ns, fileId, parentPid))
<1>. DEFINE left == DeletePreviousAssociation(ns, fileId, parentPid)
            i == First(Holding(left, parentPid))
            m == [left[i] EXCEPT !.filesList = @ \cup {fileId}]
<1>1. CASE FileAdmission(ns, fileId, parentPid) # "ADD_OK"
  BY <1>1 DEF AddFile
<1>2. CASE FileAdmission(ns, fileId, parentPid) = "ADD_OK"
            /\ AddFileStatus(ns, fileId, parentPid) # "ADD_OK"
  BY <1>2, DeletePreviousAssociationSound DEF AddFile
<1>3. CASE FileAdmission(ns, fileId, parentPid) = "ADD_OK"
            /\ AddFileStatus(ns, fileId, parentPid) = "ADD_OK"
  <2>1. Sound(left)
    BY DeletePreviousAssociationSound
  <2>2. fileId \in Files /\ Holding(ns, parentPid) # {}
    BY <1>3 DEF FileAdmission, CanAddFileStatus
  <2>3. Holding(left, parentPid) # {}
    BY <2>2, DeletePreviousAssociationKeepsHolder DEF Sound
  <2>4. AddFile(ns, fileId, parentPid) = [left EXCEPT ![i] = m]
    BY <1>3 DEF AddFile
  <2>5. ~IsDeadNode(left[i]) /\ AddItemStatus(left[i].filesList, fileId) = "ADD_OK"
    BY <1>3 DEF AddFileStatus, NodeAddFileStatus
  <2>. HIDE DEF left
  <2>6. i \in DOMAIN left /\ left[i] \in ProcessNode
    BY <2>1, <2>3, FirstMatch, ArrayIndices DEF Sound
  <2>. HIDE DEF i
  <2>7. /\ m \in ProcessNode
        /\ m.rootPid = left[i].rootPid
        /\ m.processList = left[i].processList
        /\ m.filesList = left[i].filesList \cup {fileId}
    BY <2>2, <2>6 DEF ProcessNode
  <2>8. ~IsEmptyNode(m)
    BY <2>5, <2>7 DEF IsEmptyNode, IsDeadNode
  <2>9. NodeWithinLimits(m)
    BY <2>1, <2>5, <2>6, <2>7, NodeListsFinite, AddItemWithinLimits DEF NodeWithinLimits, Sound
  <2>. HIDE DEF m
  <2>. QED
    <3>1. Sound([left EXCEPT ![i] = m])
      BY <2>1, <2>6, <2>7, <2>8, <2>9, ReplaceSound
    <3>. QED
      BY <2>4, <3>1
<1>. QED
  BY <1>1, <1>2, <1>3

-----------------------------------------------------------------------------
(* Trees and their files stay apart.                                       *)

\* Replacing a node by one that shares nothing with the others.
LEMMA ReplaceDisjoint ==
  ASSUME NEW ns \in Seq(ProcessNode), Disjoint(ns), NEW i \in DOMAIN ns,
         NEW m \in ProcessNode,
         \A j \in DOMAIN ns : j # i =>
           /\ m.processList \cap ns[j].processList = {}
           /\ m.filesList \cap ns[j].filesList = {}
  PROVE  Disjoint([ns EXCEPT ![i] = m])
BY DEF Disjoint

\* Taking something off a node, and destroying it if nothing is left.
LEMMA ShrinkDisjoint ==
  ASSUME NEW ns \in Seq(ProcessNode), Disjoint(ns), NEW i \in DOMAIN ns,
         NEW m \in ProcessNode,
         m.processList \subseteq ns[i].processList, m.filesList \subseteq ns[i].filesList
  PROVE  Disjoint(DestroyNodeIfEmpty([ns EXCEPT ![i] = m], i))
<1>. DEFINE e == [ns EXCEPT ![i] = m]
            r == DestroyNodeIfEmpty(e, i)
<1>1. Disjoint(e)
  BY DEF Disjoint
<1>2. e \in Seq(ProcessNode) /\ i \in DOMAIN e
  BY ExceptSeq, ArrayIndices
<1>. HIDE DEF e
<1>3. r = DestroyNodeIfEmpty(e, i)
  OBVIOUS
<1>. HIDE DEF r
<1>4. \A j, k \in DOMAIN r : j # k =>
        \E a, b \in DOMAIN e : a # b /\ r[j] = e[a] /\ r[k] = e[b]
  BY <1>2, <1>3, DestroyNodeIfEmptyKeepsNodes
<1>5. Disjoint(r)
  BY <1>1, <1>4 DEF Disjoint
<1>. QED
  BY <1>5 DEF r, e

LEMMA AddProcessNodeDisjoint ==
  ASSUME NEW ns \in Seq(ProcessNode), Disjoint(ns), NEW pid \in Pids \cup {NoPid},
         NEW imgFile \in Files \cup {NoFile}, NEW noresp \in t_noresp
  PROVE  Disjoint(AddProcessNode(ns, pid, imgFile, noresp))
<1>. DEFINE n == [ rootPid |-> pid, imgFile |-> imgFile, processList |-> {pid},
                   filesList |-> {}, respawnProtect |-> noresp ]
            r == Append(ns, n)
<1>1. CASE AddProcessNodeStatus(ns, pid) # "ADD_OK"
  BY <1>1 DEF AddProcessNode
<1>2. CASE AddProcessNodeStatus(ns, pid) = "ADD_OK"
  <2>1. pid \in Pids /\ Holding(ns, pid) = {} /\ AddProcessNode(ns, pid, imgFile, noresp) = r
    BY <1>2 DEF AddProcessNodeStatus, AddProcessNode, ContainsProcess
  <2>2. n \in ProcessNode /\ n.processList = {pid} /\ n.filesList = {}
    BY <2>1 DEF ProcessNode
  <2>. HIDE DEF n
  <2>3. Len(ns) \in Nat /\ DOMAIN ns = 1 .. Len(ns)
    BY ArrayIndices
  <2>4. /\ r \in Seq(ProcessNode) /\ Len(r) = Len(ns) + 1
        /\ \A j \in 1 .. Len(ns) : r[j] = ns[j]
        /\ r[Len(ns) + 1] = n
    BY <2>2, AppendProperties
  <2>. HIDE DEF r
  <2>5. DOMAIN r = 1 .. Len(ns) + 1
    BY <2>4, LenProperties
  <2>6. \A j \in DOMAIN r : (j \in DOMAIN ns /\ r[j] = ns[j]) \/ (j = Len(ns) + 1 /\ r[j] = n)
    BY <2>3, <2>4, <2>5
  <2>7. \A j \in DOMAIN ns : pid \notin ns[j].processList
    BY <2>1 DEF Holding
  <2>8. Disjoint(r)
    BY <2>2, <2>6, <2>7 DEF Disjoint
  <2>. QED
    BY <2>1, <2>8
<1>. QED
  BY <1>1, <1>2

LEMMA AddProcessDisjoint ==
  ASSUME NEW ns \in Seq(ProcessNode), Disjoint(ns), NEW pid \in Pids \cup {NoPid},
         NEW parentPid, ~ContainsProcess(ns, pid)
  PROVE  Disjoint(AddProcess(ns, pid, parentPid))
<1>. DEFINE i == First(TreesOf(ns, parentPid))
            m == [ns[i] EXCEPT !.processList = @ \cup {pid}]
<1>1. CASE AddProcessStatus(ns, pid, parentPid) # "ADD_OK"
  BY <1>1 DEF AddProcess
<1>2. CASE AddProcessStatus(ns, pid, parentPid) = "ADD_OK"
  <2>1. /\ pid \in Pids
        /\ TreesOf(ns, parentPid) # {}
        /\ AddProcess(ns, pid, parentPid) = [ns EXCEPT ![i] = m]
    BY <1>2 DEF AddProcessStatus, AddProcess
  <2>2. i \in DOMAIN ns /\ ns[i] \in ProcessNode
    BY <2>1, FirstMatch, ArrayIndices
  <2>. HIDE DEF i
  <2>3. m \in ProcessNode
        /\ m.processList = ns[i].processList \cup {pid} /\ m.filesList = ns[i].filesList
    BY <2>1, <2>2 DEF ProcessNode
  <2>. HIDE DEF m
  <2>4. \A j \in DOMAIN ns : pid \notin ns[j].processList
    BY DEF ContainsProcess, Holding
  <2>5. \A j \in DOMAIN ns : j # i =>
          /\ m.processList \cap ns[j].processList = {}
          /\ m.filesList \cap ns[j].filesList = {}
    BY <2>2, <2>3, <2>4 DEF Disjoint
  <2>6. Disjoint([ns EXCEPT ![i] = m])
    BY <2>2, <2>3, <2>5, ReplaceDisjoint
  <2>. QED
    BY <2>1, <2>6
<1>. QED
  BY <1>1, <1>2

LEMMA DeleteProcessDisjoint ==
  ASSUME NEW ns \in Seq(ProcessNode), Disjoint(ns), NEW pid
  PROVE  Disjoint(DeleteProcess(ns, pid))
<1>. DEFINE i == First(Holding(ns, pid))
            m == [ns[i] EXCEPT !.processList = @ \ {pid}]
<1>1. CASE ~ContainsProcess(ns, pid)
  BY <1>1 DEF DeleteProcess
<1>2. CASE ContainsProcess(ns, pid)
  <2>1. DeleteProcess(ns, pid) = DestroyNodeIfEmpty([ns EXCEPT ![i] = m], i)
    BY <1>2 DEF DeleteProcess
  <2>2. i \in DOMAIN ns /\ ns[i] \in ProcessNode
    BY <1>2, FirstMatch, ArrayIndices DEF ContainsProcess
  <2>. HIDE DEF i
  <2>3. m \in ProcessNode
        /\ m.processList \subseteq ns[i].processList /\ m.filesList \subseteq ns[i].filesList
    BY <2>2 DEF ProcessNode
  <2>. HIDE DEF m
  <2>4. Disjoint(DestroyNodeIfEmpty([ns EXCEPT ![i] = m], i))
    BY <2>2, <2>3, ShrinkDisjoint
  <2>. QED
    BY <2>1, <2>4
<1>. QED
  BY <1>1, <1>2

LEMMA DeleteFileDisjoint ==
  ASSUME NEW ns \in Seq(ProcessNode), Disjoint(ns), NEW fileId
  PROVE  Disjoint(DeleteFile(ns, fileId))
<1>. DEFINE i == First(Owning(ns, fileId))
            m == [ns[i] EXCEPT !.filesList = @ \ {fileId}]
<1>1. CASE Owning(ns, fileId) = {}
  BY <1>1 DEF DeleteFile
<1>2. CASE Owning(ns, fileId) # {}
  <2>1. DeleteFile(ns, fileId) = DestroyNodeIfEmpty([ns EXCEPT ![i] = m], i)
    BY <1>2 DEF DeleteFile
  <2>2. i \in DOMAIN ns /\ ns[i] \in ProcessNode
    BY <1>2, FirstMatch, ArrayIndices
  <2>. HIDE DEF i
  <2>3. m \in ProcessNode
        /\ m.processList \subseteq ns[i].processList /\ m.filesList \subseteq ns[i].filesList
    BY <2>2 DEF ProcessNode
  <2>. HIDE DEF m
  <2>4. Disjoint(DestroyNodeIfEmpty([ns EXCEPT ![i] = m], i))
    BY <2>2, <2>3, ShrinkDisjoint
  <2>. QED
    BY <2>1, <2>4
<1>. QED
  BY <1>1, <1>2

\* Once the previous association is dealt with, a file that may be added is
\* on no tree but the one it is about to be added to.
LEMMA FileAdmittedToOneTree ==
  ASSUME NEW ns \in Seq(ProcessNode), Disjoint(ns),
         NEW fileId \in Files \cup {NoFile}, NEW parentPid,
         FileAdmission(ns, fileId, parentPid) = "ADD_OK",
         NEW left, left = DeletePreviousAssociation(ns, fileId, parentPid),
         NEW j \in DOMAIN left, j # First(Holding(left, parentPid))
  PROVE  fileId \notin left[j].filesList
<1>. DEFINE o == First(Owning(ns, fileId))
            h == First(Holding(ns, parentPid))
            m == [ns[o] EXCEPT !.filesList = @ \ {fileId}]
            e == [ns EXCEPT ![o] = m]
<1>1. Holding(ns, parentPid) # {} /\ PreviousAssociation(ns, fileId, parentPid) # "DELETE_FORBIDDEN"
  BY DEF FileAdmission, CanAddFileStatus
<1>2. CASE Owning(ns, fileId) = {}
  <2>1. left = ns
    BY <1>2 DEF DeletePreviousAssociation, PreviousAssociation
  <2>. QED
    BY <1>2, <2>1 DEF Owning
<1>3. CASE Owning(ns, fileId) # {} /\ PreviousAssociation(ns, fileId, parentPid) = "DELETE_OK"
  <2>1. left = DestroyNodeIfEmpty(e, o)
    BY <1>3 DEF DeletePreviousAssociation, DeleteFile
  <2>2. o \in DOMAIN ns /\ ns[o] \in ProcessNode /\ fileId \in ns[o].filesList
    BY <1>3, FirstMatch, ArrayIndices
  <2>. HIDE DEF o
  <2>3. m \in ProcessNode /\ fileId \notin m.filesList
    BY <2>2 DEF ProcessNode
  <2>. HIDE DEF m
  <2>4. /\ e \in Seq(ProcessNode) /\ o \in DOMAIN e /\ DOMAIN e = DOMAIN ns
        /\ \A k \in DOMAIN ns : e[k] = IF k = o THEN m ELSE ns[k]
    BY <2>2, <2>3, ExceptSeq, ArrayIndices
  <2>. HIDE DEF e
  <2>5. \A k \in DOMAIN e : fileId \notin e[k].filesList
    BY <2>2, <2>3, <2>4 DEF Disjoint
  <2>6. \E k \in DOMAIN e : left[j] = e[k]
    BY <2>1, <2>4, DestroyNodeIfEmptyKeepsNodes
  <2>. QED
    BY <2>5, <2>6
<1>4. CASE Owning(ns, fileId) # {} /\ PreviousAssociation(ns, fileId, parentPid) = "DELETE_EXCLUDED"
  <2>1. left = ns
    BY <1>4 DEF DeletePreviousAssociation
  <2>2. parentPid \in ns[o].processList
    BY <1>4 DEF PreviousAssociation
  <2>3. /\ o \in DOMAIN ns /\ fileId \in ns[o].filesList
        /\ h \in DOMAIN ns /\ parentPid \in ns[h].processList
    BY <1>1, <1>4, FirstMatch
  <2>4. h = First(Holding(left, parentPid))
    BY <2>1
  <2>. HIDE DEF o, h
  <2>5. o = h
    BY <2>2, <2>3 DEF Disjoint
  <2>. QED
    BY <2>1, <2>3, <2>4, <2>5 DEF Disjoint
<1>5. Owning(ns, fileId) # {} =>
        PreviousAssociation(ns, fileId, parentPid) \in {"DELETE_OK", "DELETE_EXCLUDED"}
  BY <1>1 DEF PreviousAssociation
<1>. QED
  BY <1>2, <1>3, <1>4, <1>5

LEMMA AddFileDisjoint ==
  ASSUME NEW ns, Sound(ns), Disjoint(ns),
         NEW fileId \in Files \cup {NoFile}, NEW parentPid
  PROVE  Disjoint(AddFile(ns, fileId, parentPid))
<1>. DEFINE left == DeletePreviousAssociation(ns, fileId, parentPid)
            i == First(Holding(left, parentPid))
            m == [left[i] EXCEPT !.filesList = @ \cup {fileId}]
<1>1. ns \in Seq(ProcessNode)
  BY DEF Sound
<1>2. Disjoint(left)
  BY <1>1, DeleteFileDisjoint DEF DeletePreviousAssociation
<1>3. CASE FileAdmission(ns, fileId, parentPid) # "ADD_OK"
  BY <1>3 DEF AddFile
<1>4. CASE FileAdmission(ns, fileId, parentPid) = "ADD_OK"
            /\ AddFileStatus(ns, fileId, parentPid) # "ADD_OK"
  BY <1>2, <1>4 DEF AddFile
<1>5. CASE FileAdmission(ns, fileId, parentPid) = "ADD_OK"
            /\ AddFileStatus(ns, fileId, parentPid) = "ADD_OK"
  <2>1. Sound(left) /\ left \in Seq(ProcessNode)
    BY DeletePreviousAssociationSound DEF Sound
  <2>2. fileId \in Files /\ Holding(ns, parentPid) # {}
    BY <1>5 DEF FileAdmission, CanAddFileStatus
  <2>3. Holding(left, parentPid) # {}
    BY <1>1, <2>2, DeletePreviousAssociationKeepsHolder
  <2>4. AddFile(ns, fileId, parentPid) = [left EXCEPT ![i] = m]
    BY <1>5 DEF AddFile
  <2>5. \A j \in DOMAIN left : j # i => fileId \notin left[j].filesList
    BY <1>1, <1>5, FileAdmittedToOneTree
  <2>. HIDE DEF left
  <2>6. i \in DOMAIN left /\ left[i] \in ProcessNode
    BY <2>1, <2>3, FirstMatch, ArrayIndices
  <2>. HIDE DEF i
  <2>7. /\ m \in ProcessNode
        /\ m.processList = left[i].processList
        /\ m.filesList = left[i].filesList \cup {fileId}
    BY <2>2, <2>6 DEF ProcessNode
  <2>. HIDE DEF m
  <2>8. \A j \in DOMAIN left : j # i =>
          /\ m.processList \cap left[j].processList = {}
          /\ m.filesList \cap left[j].filesList = {}
    BY <1>2, <2>5, <2>6, <2>7 DEF Disjoint
  <2>9. Disjoint([left EXCEPT ![i] = m])
    BY <1>2, <2>1, <2>6, <2>7, <2>8, ReplaceDisjoint
  <2>. QED
    BY <2>4, <2>9
<1>. QED
  BY <1>3, <1>4, <1>5

-----------------------------------------------------------------------------
(* What the updates do to the processes on the list.                       *)

\* But for the processes of S, whatever r holds ns holds, under one root.
NothingNewBut(r, ns, S) ==
  \A j \in DOMAIN r : \A q \in r[j].processList \ S :
    \E a \in DOMAIN ns : q \in ns[a].processList /\ ns[a].rootPid = r[j].rootPid

\* But for the processes of S, r holds what ns holds.
AllKeptBut(r, ns, S) ==
  \A q : q \notin S /\ ContainsProcess(ns, q) => ContainsProcess(r, q)

\* A process is contained if a node in use has it on its list.
LEMMA ContainedIffHeld ==
  ASSUME NEW ns, NEW q
  PROVE  ContainsProcess(ns, q) <=> \E i \in DOMAIN ns : q \in ns[i].processList
BY DEF ContainsProcess, Holding

\* Taking something off a node, and destroying it if nothing is left: what
\* leaves the list has been on that node and was taken off.
LEMMA ShrinkKeeps ==
  ASSUME NEW ns \in Seq(ProcessNode), NEW i \in DOMAIN ns, NEW m \in ProcessNode,
         m.rootPid = ns[i].rootPid, m.processList \subseteq ns[i].processList
  PROVE  LET r == DestroyNodeIfEmpty([ns EXCEPT ![i] = m], i)
         IN  /\ r \in Seq(ProcessNode)
             /\ NothingNewBut(r, ns, {})
             /\ AllKeptBut(r, ns, ns[i].processList \ m.processList)
<1>. DEFINE e == [ns EXCEPT ![i] = m]
            r == DestroyNodeIfEmpty(e, i)
<1>1. /\ e \in Seq(ProcessNode) /\ DOMAIN e = DOMAIN ns /\ i \in DOMAIN e
      /\ e[i] = m /\ \A a \in DOMAIN ns : a # i => e[a] = ns[a]
  BY ExceptSeq, ArrayIndices
<1>. HIDE DEF e
<1>2. r = DestroyNodeIfEmpty(e, i)
  OBVIOUS
<1>. HIDE DEF r
<1>3. /\ r \in Seq(ProcessNode)
      /\ \A j \in DOMAIN r : \E a \in DOMAIN e : r[j] = e[a]
      /\ \A a \in DOMAIN e : (a # i \/ ~IsEmptyNode(e[i])) => \E j \in DOMAIN r : r[j] = e[a]
  BY <1>1, <1>2, DestroyNodeIfEmptyKeepsNodes
<1>4. NothingNewBut(r, ns, {})
  <2>1. ASSUME NEW j \in DOMAIN r, NEW q \in r[j].processList
        PROVE  \E a \in DOMAIN ns : q \in ns[a].processList /\ ns[a].rootPid = r[j].rootPid
    <3>1. PICK a \in DOMAIN ns : r[j] = e[a]
      BY <1>1, <1>3
    <3>. QED
      BY <1>1, <2>1, <3>1
  <2>. QED
    BY <2>1 DEF NothingNewBut
<1>5. AllKeptBut(r, ns, ns[i].processList \ m.processList)
  <2>1. ASSUME NEW q, q \notin ns[i].processList \ m.processList,
               NEW a \in DOMAIN ns, q \in ns[a].processList
        PROVE  \E j \in DOMAIN r : q \in r[j].processList
    <3>1. CASE a # i
      BY <1>1, <1>3, <2>1, <3>1
    <3>2. CASE a = i
      <4>1. q \in e[i].processList
        BY <1>1, <2>1, <3>2
      <4>2. ~IsEmptyNode(e[i])
        BY <4>1 DEF IsEmptyNode
      <4>. QED
        BY <1>1, <1>3, <4>1, <4>2
    <3>. QED
      BY <3>1, <3>2
  <2>. QED
    BY <2>1, ContainedIffHeld DEF AllKeptBut
<1>. QED
  BY <1>3, <1>4, <1>5 DEF r, e

\* DeleteProcess takes the process off the list, and nothing else; it is
\* off if no two nodes held it.
LEMMA DeleteProcessKeeps ==
  ASSUME NEW ns \in Seq(ProcessNode), NEW pid, NEW r, r = DeleteProcess(ns, pid)
  PROVE  /\ NothingNewBut(r, ns, {})
         /\ AllKeptBut(r, ns, {pid})
         /\ Disjoint(ns) => ~ContainsProcess(r, pid)
<1>. DEFINE i == First(Holding(ns, pid))
            m == [ns[i] EXCEPT !.processList = @ \ {pid}]
            e == [ns EXCEPT ![i] = m]
<1>1. CASE ~ContainsProcess(ns, pid)
  BY <1>1 DEF DeleteProcess, NothingNewBut, AllKeptBut
<1>2. CASE ContainsProcess(ns, pid)
  <2>1. r = DestroyNodeIfEmpty([ns EXCEPT ![i] = m], i)
    BY <1>2 DEF DeleteProcess
  <2>2. i \in DOMAIN ns /\ ns[i] \in ProcessNode /\ pid \in ns[i].processList
    BY <1>2, FirstMatch, ArrayIndices DEF ContainsProcess
  <2>. HIDE DEF i
  <2>3. /\ m \in ProcessNode /\ m.rootPid = ns[i].rootPid
        /\ m.processList = ns[i].processList \ {pid}
    BY <2>2 DEF ProcessNode
  <2>. HIDE DEF m
  <2>4. NothingNewBut(r, ns, {}) /\ AllKeptBut(r, ns, ns[i].processList \ m.processList)
    BY <2>1, <2>2, <2>3, ShrinkKeeps
  <2>5. AllKeptBut(r, ns, {pid})
    BY <2>3, <2>4 DEF AllKeptBut
  <2>6. ASSUME Disjoint(ns) PROVE ~ContainsProcess(r, pid)
    <3>1. e \in Seq(ProcessNode) /\ DOMAIN e = DOMAIN ns /\ i \in DOMAIN e
          /\ \A a \in DOMAIN e : e[a] = IF a = i THEN m ELSE ns[a]
      BY <2>2, <2>3, ExceptSeq, ArrayIndices
    <3>2. \A a \in DOMAIN e : pid \notin e[a].processList
      BY <2>2, <2>3, <2>6, <3>1 DEF Disjoint
    <3>3. r = DestroyNodeIfEmpty(e, i)
      BY <2>1
    <3>. HIDE DEF e
    <3>4. \A j \in DOMAIN r : \E a \in DOMAIN e : r[j] = e[a]
      BY <3>1, <3>3, DestroyNodeIfEmptyKeepsNodes
    <3>. QED
      BY <3>2, <3>4, ContainedIffHeld
  <2>. QED
    BY <2>4, <2>5, <2>6
<1>. QED
  BY <1>1, <1>2

\* DeleteFile takes no process off the list.
LEMMA DeleteFileKeeps ==
  ASSUME NEW ns \in Seq(ProcessNode), NEW fileId, NEW r, r = DeleteFile(ns, fileId)
  PROVE  NothingNewBut(r, ns, {}) /\ AllKeptBut(r, ns, {}) /\ r \in Seq(ProcessNode)
<1>. DEFINE i == First(Owning(ns, fileId))
            m == [ns[i] EXCEPT !.filesList = @ \ {fileId}]
<1>1. CASE Owning(ns, fileId) = {}
  BY <1>1 DEF DeleteFile, NothingNewBut, AllKeptBut
<1>2. CASE Owning(ns, fileId) # {}
  <2>1. r = DestroyNodeIfEmpty([ns EXCEPT ![i] = m], i)
    BY <1>2 DEF DeleteFile
  <2>2. i \in DOMAIN ns /\ ns[i] \in ProcessNode
    BY <1>2, FirstMatch, ArrayIndices
  <2>. HIDE DEF i
  <2>3. m \in ProcessNode /\ m.rootPid = ns[i].rootPid /\ m.processList = ns[i].processList
    BY <2>2 DEF ProcessNode
  <2>. HIDE DEF m
  <2>4. /\ NothingNewBut(r, ns, {}) /\ AllKeptBut(r, ns, ns[i].processList \ m.processList)
        /\ r \in Seq(ProcessNode)
    BY <2>1, <2>2, <2>3, ShrinkKeeps
  <2>. QED
    BY <2>3, <2>4 DEF AllKeptBut
<1>. QED
  BY <1>1, <1>2

\* AddFile takes no process off the list, also when it takes the file from
\* a dead tree.
LEMMA AddFileKeeps ==
  ASSUME NEW ns \in Seq(ProcessNode), NEW fileId, NEW parentPid,
         NEW r, r = AddFile(ns, fileId, parentPid)
  PROVE  NothingNewBut(r, ns, {}) /\ AllKeptBut(r, ns, {})
<1>. DEFINE left == DeletePreviousAssociation(ns, fileId, parentPid)
            i == First(Holding(left, parentPid))
<1>1. CASE FileAdmission(ns, fileId, parentPid) # "ADD_OK"
  BY <1>1 DEF AddFile, NothingNewBut, AllKeptBut
<1>2. CASE FileAdmission(ns, fileId, parentPid) = "ADD_OK"
  <2>1. /\ NothingNewBut(left, ns, {}) /\ AllKeptBut(left, ns, {})
        /\ left \in Seq(ProcessNode)
    <3>1. CASE left = ns
      BY <3>1 DEF NothingNewBut, AllKeptBut
    <3>2. CASE left = DeleteFile(ns, fileId)
      BY <3>2, DeleteFileKeeps
    <3>. QED
      BY <3>1, <3>2 DEF DeletePreviousAssociation
  <2>2. CASE r = left
    BY <2>1, <2>2
  <2>3. CASE r = [left EXCEPT ![i].filesList = @ \cup {fileId}]
    <3>1. Holding(left, parentPid) # {}
      BY <1>2, DeletePreviousAssociationKeepsHolder DEF FileAdmission, CanAddFileStatus
    <3>2. i \in DOMAIN left /\ left[i] \in ProcessNode
      BY <2>1, <3>1, FirstMatch, ArrayIndices
    <3>. HIDE DEF left, i
    <3>3. /\ DOMAIN r = DOMAIN left
          /\ \A j \in DOMAIN r : r[j].processList = left[j].processList
                               /\ r[j].rootPid = left[j].rootPid
      BY <2>1, <2>3, <3>2, ArrayIndices DEF ProcessNode
    <3>. QED
      BY <2>1, <3>3, ContainedIffHeld DEF NothingNewBut, AllKeptBut
  <2>. QED
    BY <1>2, <2>2, <2>3 DEF AddFile
<1>. QED
  BY <1>1, <1>2

\* What AddProcess answers, and what the answer says of the list it leaves.
LEMMA AddProcessAnswers ==
  ASSUME NEW ns \in Seq(ProcessNode), NEW pid \in Pids, NEW parentPid
  PROVE  /\ AddProcessStatus(ns, pid, parentPid) \in
              {"ADD_OK", "ADD_ALREADY_EXIST", "ADD_LIMIT_EXHAUSTED", "ADD_NO_PARENT"}
         /\ AddProcessStatus(ns, pid, parentPid) # "ADD_OK" => AddProcess(ns, pid, parentPid) = ns
         /\ AddProcessStatus(ns, pid, parentPid) \in {"ADD_OK", "ADD_ALREADY_EXIST"} =>
              ContainsProcess(AddProcess(ns, pid, parentPid), pid)
         /\ AddProcessStatus(ns, pid, parentPid) = "ADD_NO_PARENT" =>
              parentPid = NoPid \/ ~ContainsProcess(ns, parentPid)
<1>. DEFINE i == First(TreesOf(ns, parentPid))
            r == AddProcess(ns, pid, parentPid)
            status == AddProcessStatus(ns, pid, parentPid)
<1>1. pid # NoPid
  BY SentinelAssumption
<1>2. status # "ADD_OK" => r = ns
  BY DEF AddProcess
<1>3. CASE parentPid = NoPid \/ TreesOf(ns, parentPid) = {}
  <2>1. status = "ADD_NO_PARENT"
    BY <1>1, <1>3 DEF AddProcessStatus
  <2>. QED
    BY <1>2, <1>3, <2>1 DEF TreesOf, ContainsProcess
<1>4. CASE ~(parentPid = NoPid \/ TreesOf(ns, parentPid) = {})
  <2>1. status = NodeAddProcessStatus(ns[i], pid)
    BY <1>1, <1>4 DEF AddProcessStatus
  <2>2. status \in {"ADD_OK", "ADD_ALREADY_EXIST", "ADD_LIMIT_EXHAUSTED"}
        /\ (status = "ADD_ALREADY_EXIST" => pid \in ns[i].processList)
    BY <2>1 DEF NodeAddProcessStatus, AddItemStatus
  <2>3. i \in DOMAIN ns /\ ns[i] \in ProcessNode
    BY <1>4, FirstMatch, ArrayIndices
  <2>4. ASSUME status = "ADD_OK" PROVE ContainsProcess(r, pid)
    <3>1. r = [ns EXCEPT ![i].processList = @ \cup {pid}]
      BY <2>4 DEF AddProcess
    <3>. HIDE DEF i, r
    <3>2. i \in DOMAIN r /\ pid \in r[i].processList
      BY <2>3, <3>1, ArrayIndices DEF ProcessNode
    <3>. QED
      BY <3>2, ContainedIffHeld
  <2>5. ASSUME status = "ADD_ALREADY_EXIST" PROVE ContainsProcess(r, pid)
    <3>1. r = ns
      BY <2>5 DEF AddProcess
    <3>. QED
      BY <2>2, <2>3, <2>5, <3>1, ContainedIffHeld
  <2>6. status # "ADD_NO_PARENT"
    BY <2>2
  <2>. QED
    BY <1>2, <2>2, <2>4, <2>5, <2>6
<1>. QED
  BY <1>3, <1>4

\* AddProcess adds the process alone, under a tree.
LEMMA AddProcessKeeps ==
  ASSUME NEW ns \in Seq(ProcessNode), NEW pid \in Pids, NEW parentPid
  PROVE  /\ NothingNewBut(AddProcess(ns, pid, parentPid), ns, {pid})
         /\ AllKeptBut(AddProcess(ns, pid, parentPid), ns, {})
<1>. DEFINE i == First(TreesOf(ns, parentPid))
            r == AddProcess(ns, pid, parentPid)
<1>1. CASE AddProcessStatus(ns, pid, parentPid) # "ADD_OK"
  BY <1>1 DEF AddProcess, NothingNewBut, AllKeptBut
<1>2. CASE AddProcessStatus(ns, pid, parentPid) = "ADD_OK"
  <2>1. TreesOf(ns, parentPid) # {}
    BY <1>2 DEF AddProcessStatus
  <2>2. i \in DOMAIN ns /\ ns[i] \in ProcessNode
    BY <2>1, FirstMatch, ArrayIndices
  <2>3. r = [ns EXCEPT ![i].processList = @ \cup {pid}]
    BY <1>2 DEF AddProcess
  <2>. HIDE DEF i, r
  <2>4. /\ DOMAIN r = DOMAIN ns
        /\ \A j \in DOMAIN r : r[j].rootPid = ns[j].rootPid
        /\ \A j \in DOMAIN r : j # i => r[j].processList = ns[j].processList
        /\ r[i].processList = ns[i].processList \cup {pid}
    BY <2>2, <2>3, ArrayIndices DEF ProcessNode
  <2>5. NothingNewBut(r, ns, {pid})
    BY <2>2, <2>4 DEF NothingNewBut
  <2>6. AllKeptBut(r, ns, {})
    BY <2>2, <2>4, ContainedIffHeld DEF AllKeptBut
  <2>. QED
    BY <2>5, <2>6 DEF r
<1>. QED
  BY <1>1, <1>2

\* AddProcessNode adds the process alone.
LEMMA AddProcessNodeKeeps ==
  ASSUME NEW ns \in Seq(ProcessNode), NEW pid \in Pids,
         NEW imgFile \in Files \cup {NoFile}, NEW noresp \in t_noresp,
         NEW r, r = AddProcessNode(ns, pid, imgFile, noresp)
  PROVE  NothingNewBut(r, ns, {pid}) /\ AllKeptBut(r, ns, {})
<1>. DEFINE n == [ rootPid |-> pid, imgFile |-> imgFile, processList |-> {pid},
                   filesList |-> {}, respawnProtect |-> noresp ]
<1>1. CASE AddProcessNodeStatus(ns, pid) # "ADD_OK"
  BY <1>1 DEF AddProcessNode, NothingNewBut, AllKeptBut
<1>2. CASE AddProcessNodeStatus(ns, pid) = "ADD_OK"
  <2>1. r = Append(ns, n)
    BY <1>2 DEF AddProcessNode
  <2>2. n \in ProcessNode /\ n.processList = {pid}
    BY DEF ProcessNode
  <2>. HIDE DEF n
  <2>3. /\ DOMAIN ns = 1 .. Len(ns) /\ Len(ns) \in Nat
        /\ DOMAIN r = 1 .. Len(ns) + 1
        /\ r[Len(ns) + 1] = n
        /\ \A j \in 1 .. Len(ns) : r[j] = ns[j]
    BY <2>1, <2>2, AppendProperties, ArrayIndices
  <2>4. \A j \in DOMAIN r : j \in DOMAIN ns \/ j = Len(ns) + 1
    BY <2>3
  <2>5. DOMAIN ns \subseteq DOMAIN r
    BY <2>3
  <2>6. NothingNewBut(r, ns, {pid})
    BY <2>2, <2>3, <2>4 DEF NothingNewBut
  <2>7. AllKeptBut(r, ns, {})
    BY <2>3, <2>5, ContainedIffHeld DEF AllKeptBut
  <2>. QED
    BY <2>6, <2>7
<1>. QED
  BY <1>1, <1>2

\* DeleteFile leaves a node that it does not find the file on as it is.
LEMMA DeleteFileSparesOthers ==
  ASSUME NEW ns \in Seq(ProcessNode), NEW fileId, NEW a \in DOMAIN ns,
         Owning(ns, fileId) # {} => a # First(Owning(ns, fileId))
  PROVE  \E j \in DOMAIN DeleteFile(ns, fileId) : DeleteFile(ns, fileId)[j] = ns[a]
<1>. DEFINE i == First(Owning(ns, fileId))
            m == [ns[i] EXCEPT !.filesList = @ \ {fileId}]
            e == [ns EXCEPT ![i] = m]
            r == DeleteFile(ns, fileId)
<1>1. CASE Owning(ns, fileId) = {}
  BY <1>1 DEF DeleteFile
<1>2. CASE Owning(ns, fileId) # {}
  <2>1. i \in DOMAIN ns /\ ns[i] \in ProcessNode /\ a # i
    BY <1>2, FirstMatch, ArrayIndices
  <2>2. r = DestroyNodeIfEmpty(e, i)
    BY <1>2 DEF DeleteFile
  <2>. HIDE DEF i, r
  <2>3. m \in ProcessNode
    BY <2>1 DEF ProcessNode
  <2>. HIDE DEF m
  <2>4. e \in Seq(ProcessNode) /\ DOMAIN e = DOMAIN ns /\ e[a] = ns[a]
    BY <2>1, <2>3, ExceptSeq, ArrayIndices
  <2>. HIDE DEF e
  <2>5. \E j \in DOMAIN r : r[j] = e[a]
    BY <2>1, <2>2, <2>4, DestroyNodeIfEmptyKeepsNodes
  <2>. QED
    BY <2>4, <2>5 DEF r
<1>. QED
  BY <1>1, <1>2

\* A living node of ns is in r as it was, or with the file added to it, and
\* that only if it holds the process.
SparesLiving(r, ns, fileId, pid) ==
  \A a \in DOMAIN ns : ~IsDeadNode(ns[a]) =>
    \E j \in DOMAIN r :
      \/ r[j] = ns[a]
      \/ /\ pid \in ns[a].processList
         /\ r[j] = [ns[a] EXCEPT !.filesList = @ \cup {fileId}]

\* AddFile takes nothing from a living node.
LEMMA AddFileSparesLiving ==
  ASSUME NEW ns \in Seq(ProcessNode), NEW fileId, NEW parentPid
  PROVE  SparesLiving(AddFile(ns, fileId, parentPid), ns, fileId, parentPid)
<1>. SUFFICES ASSUME NEW a \in DOMAIN ns, ~IsDeadNode(ns[a])
     PROVE  LET r == AddFile(ns, fileId, parentPid)
            IN  \E j \in DOMAIN r :
                  \/ r[j] = ns[a]
                  \/ /\ parentPid \in ns[a].processList
                     /\ r[j] = [ns[a] EXCEPT !.filesList = @ \cup {fileId}]
  BY DEF SparesLiving
<1>. DEFINE left == DeletePreviousAssociation(ns, fileId, parentPid)
            i == First(Holding(left, parentPid))
            r == AddFile(ns, fileId, parentPid)
<1>1. CASE FileAdmission(ns, fileId, parentPid) # "ADD_OK"
  BY <1>1 DEF AddFile
<1>2. CASE FileAdmission(ns, fileId, parentPid) = "ADD_OK"
  <2>1. left \in Seq(ProcessNode)
    BY DeleteFileKeeps DEF DeletePreviousAssociation
  <2>2. PICK k \in DOMAIN left : left[k] = ns[a]
    <3>1. CASE left = ns
      BY <3>1
    <3>2. CASE left # ns
      <4>1. /\ left = DeleteFile(ns, fileId)
            /\ Owning(ns, fileId) # {} =>
                 IsDeadNode(ns[First(Owning(ns, fileId))])
        BY <3>2 DEF DeletePreviousAssociation, PreviousAssociation
      <4>. QED
        BY <4>1, DeleteFileSparesOthers
    <3>. QED
      BY <3>1, <3>2
  <2>3. CASE r = left
    BY <2>2, <2>3
  <2>4. CASE r = [left EXCEPT ![i].filesList = @ \cup {fileId}]
    <3>1. Holding(left, parentPid) # {}
      BY <1>2, DeletePreviousAssociationKeepsHolder DEF FileAdmission, CanAddFileStatus
    <3>2. i \in DOMAIN left /\ parentPid \in left[i].processList
      BY <2>1, <3>1, FirstMatch
    <3>. HIDE DEF left, i, r
    <3>3. k \in DOMAIN r
      BY <2>2, <2>4
    <3>4. CASE k = i
      <4>1. r[k] = [left[k] EXCEPT !.filesList = @ \cup {fileId}]
        BY <2>1, <2>2, <2>4, <3>2, <3>4
      <4>. QED
        BY <2>2, <3>2, <3>3, <3>4, <4>1 DEF r
    <3>5. CASE k # i
      <4>1. r[k] = left[k]
        BY <2>2, <2>4, <3>5
      <4>. QED
        BY <2>2, <3>3, <4>1 DEF r
    <3>. QED
      BY <3>4, <3>5
  <2>. QED
    BY <1>2, <2>3, <2>4 DEF AddFile
<1>. QED
  BY <1>1, <1>2

\* No node that holds the process has it for its root.
NotRoot(ns, pid) == \A i \in DOMAIN ns : pid \in ns[i].processList => ns[i].rootPid # pid

\* What holds of a process on the list held before an update that adds only
\* others.
LEMMA NothingNewMeans ==
  ASSUME NEW r, NEW ns, NEW S, NothingNewBut(r, ns, S), NEW q, q \notin S
  PROVE  /\ ContainsProcess(r, q) => ContainsProcess(ns, q)
         /\ NotRoot(ns, q) => NotRoot(r, q)
<1>1. \A j \in DOMAIN r : q \in r[j].processList =>
        \E a \in DOMAIN ns : q \in ns[a].processList /\ ns[a].rootPid = r[j].rootPid
  BY DEF NothingNewBut
<1>2. ContainsProcess(r, q) => ContainsProcess(ns, q)
  BY <1>1, ContainedIffHeld
<1>3. NotRoot(ns, q) => NotRoot(r, q)
  BY <1>1 DEF NotRoot
<1>. QED
  BY <1>2, <1>3

\* GetProcessOwner tells a root from a process that is a child of its tree and
\* from one that is on no tree, where trees are disjoint.
LEMMA OwnerTells ==
  ASSUME NEW ns \in Seq(ProcessNode), NEW pid \in Pids
  PROVE  /\ GetProcessOwner(ns, pid) = NoPid => ~ContainsProcess(ns, pid)
         /\ Disjoint(ns) /\ GetProcessOwner(ns, pid) # pid => NotRoot(ns, pid)
         /\ ContainsProcess(ns, pid) /\ NotRoot(ns, pid) => GetProcessOwner(ns, pid) # pid
<1>. DEFINE i == First(Holding(ns, pid))
<1>1. CASE Holding(ns, pid) = {}
  <2>1. \A a \in DOMAIN ns : pid \notin ns[a].processList
    BY <1>1 DEF Holding
  <2>. QED
    BY <1>1, <2>1 DEF ContainsProcess, NotRoot
<1>2. CASE Holding(ns, pid) # {}
  <2>1. GetProcessOwner(ns, pid) = ns[i].rootPid
    BY <1>2 DEF GetProcessOwner
  <2>2. i \in DOMAIN ns /\ pid \in ns[i].processList /\ ns[i] \in ProcessNode
    BY <1>2, FirstMatch, ArrayIndices
  <2>. HIDE DEF i
  <2>3. ns[i].rootPid # NoPid
    BY <2>2, SentinelAssumption DEF ProcessNode
  <2>4. ASSUME Disjoint(ns), NEW a \in DOMAIN ns, pid \in ns[a].processList PROVE a = i
    BY <2>2, <2>4 DEF Disjoint
  <2>. QED
    BY <2>1, <2>2, <2>3, <2>4 DEF NotRoot
<1>. QED
  BY <1>1, <1>2

-----------------------------------------------------------------------------
(* Trees are not split: processes that are on one tree stay on one tree, as *)
(* long as they are on the list.                                           *)

SameTree(ns, p, q) == \E i \in DOMAIN ns : {p, q} \subseteq ns[i].processList

\* What is on a node of ns is on one node of r, but for the processes of S.
TreesKeptBut(r, ns, S) ==
  \A a \in DOMAIN ns :
    ns[a].processList \subseteq S \/ \E j \in DOMAIN r : ns[a].processList \ S \subseteq r[j].processList

LEMMA TreesKeptMeans ==
  ASSUME NEW r, NEW ns, NEW S, TreesKeptBut(r, ns, S), NEW p, NEW q, p \notin S, q \notin S,
         SameTree(ns, p, q)
  PROVE  SameTree(r, p, q)
<1>1. PICK a \in DOMAIN ns : {p, q} \subseteq ns[a].processList
  BY DEF SameTree
<1>2. PICK j \in DOMAIN r : ns[a].processList \ S \subseteq r[j].processList
  BY <1>1 DEF TreesKeptBut
<1>. QED
  BY <1>1, <1>2 DEF SameTree

LEMMA ShrinkKeepsTrees ==
  ASSUME NEW ns \in Seq(ProcessNode), NEW i \in DOMAIN ns, NEW m \in ProcessNode, NEW S,
         ns[i].processList \ S \subseteq m.processList
  PROVE  TreesKeptBut(DestroyNodeIfEmpty([ns EXCEPT ![i] = m], i), ns, S)
<1>. DEFINE e == [ns EXCEPT ![i] = m]
            r == DestroyNodeIfEmpty(e, i)
<1>1. /\ e \in Seq(ProcessNode) /\ DOMAIN e = DOMAIN ns /\ i \in DOMAIN e
      /\ e[i] = m /\ \A a \in DOMAIN ns : a # i => e[a] = ns[a]
  BY ExceptSeq, ArrayIndices
<1>. HIDE DEF e
<1>2. r = DestroyNodeIfEmpty(e, i)
  OBVIOUS
<1>. HIDE DEF r
<1>3. \A a \in DOMAIN e : (a # i \/ ~IsEmptyNode(e[i])) => \E j \in DOMAIN r : r[j] = e[a]
  BY <1>1, <1>2, DestroyNodeIfEmptyKeepsNodes
<1>4. ASSUME NEW a \in DOMAIN ns, ~(ns[a].processList \subseteq S)
      PROVE  \E j \in DOMAIN r : ns[a].processList \ S \subseteq r[j].processList
  <2>1. CASE a # i
    BY <1>1, <1>3, <2>1
  <2>2. CASE a = i
    <3>1. m.processList # {}
      BY <1>4, <2>2
    <3>2. ~IsEmptyNode(e[i])
      BY <1>1, <3>1 DEF IsEmptyNode
    <3>. QED
      BY <1>1, <1>3, <2>2, <3>2
  <2>. QED
    BY <2>1, <2>2
<1>5. TreesKeptBut(r, ns, S)
  BY <1>4 DEF TreesKeptBut
<1>. QED
  BY <1>5 DEF r, e

LEMMA DeleteProcessKeepsTrees ==
  ASSUME NEW ns \in Seq(ProcessNode), NEW pid
  PROVE  TreesKeptBut(DeleteProcess(ns, pid), ns, {pid})
<1>. DEFINE i == First(Holding(ns, pid))
            m == [ns[i] EXCEPT !.processList = @ \ {pid}]
<1>1. CASE ~ContainsProcess(ns, pid)
  BY <1>1 DEF DeleteProcess, TreesKeptBut
<1>2. CASE ContainsProcess(ns, pid)
  <2>1. DeleteProcess(ns, pid) = DestroyNodeIfEmpty([ns EXCEPT ![i] = m], i)
    BY <1>2 DEF DeleteProcess
  <2>2. i \in DOMAIN ns /\ ns[i] \in ProcessNode
    BY <1>2, FirstMatch, ArrayIndices DEF ContainsProcess
  <2>. HIDE DEF i
  <2>3. m \in ProcessNode /\ ns[i].processList \ {pid} \subseteq m.processList
    BY <2>2 DEF ProcessNode
  <2>. HIDE DEF m
  <2>. QED
    BY <2>1, <2>2, <2>3, ShrinkKeepsTrees
<1>. QED
  BY <1>1, <1>2

LEMMA DeleteFileKeepsTrees ==
  ASSUME NEW ns \in Seq(ProcessNode), NEW fileId
  PROVE  TreesKeptBut(DeleteFile(ns, fileId), ns, {})
<1>. DEFINE i == First(Owning(ns, fileId))
            m == [ns[i] EXCEPT !.filesList = @ \ {fileId}]
<1>1. CASE Owning(ns, fileId) = {}
  BY <1>1 DEF DeleteFile, TreesKeptBut
<1>2. CASE Owning(ns, fileId) # {}
  <2>1. DeleteFile(ns, fileId) = DestroyNodeIfEmpty([ns EXCEPT ![i] = m], i)
    BY <1>2 DEF DeleteFile
  <2>2. i \in DOMAIN ns /\ ns[i] \in ProcessNode
    BY <1>2, FirstMatch, ArrayIndices
  <2>. HIDE DEF i
  <2>3. m \in ProcessNode /\ ns[i].processList \ {} \subseteq m.processList
    BY <2>2 DEF ProcessNode
  <2>. HIDE DEF m
  <2>. QED
    BY <2>1, <2>2, <2>3, ShrinkKeepsTrees
<1>. QED
  BY <1>1, <1>2

LEMMA AddFileKeepsTrees ==
  ASSUME NEW ns \in Seq(ProcessNode), NEW fileId, NEW parentPid
  PROVE  TreesKeptBut(AddFile(ns, fileId, parentPid), ns, {})
<1>. DEFINE left == DeletePreviousAssociation(ns, fileId, parentPid)
            i == First(Holding(left, parentPid))
            r == AddFile(ns, fileId, parentPid)
<1>1. CASE r = ns
  BY <1>1 DEF TreesKeptBut
<1>2. left \in Seq(ProcessNode) /\ TreesKeptBut(left, ns, {})
  BY DeleteFileKeeps, DeleteFileKeepsTrees DEF DeletePreviousAssociation, TreesKeptBut
<1>3. CASE r = left
  BY <1>2, <1>3
<1>4. CASE /\ FileAdmission(ns, fileId, parentPid) = "ADD_OK"
           /\ r = [left EXCEPT ![i].filesList = @ \cup {fileId}]
  <2>1. Holding(left, parentPid) # {}
    BY <1>4, DeletePreviousAssociationKeepsHolder DEF FileAdmission, CanAddFileStatus
  <2>2. i \in DOMAIN left /\ left[i] \in ProcessNode
    BY <1>2, <2>1, FirstMatch, ArrayIndices
  <2>. HIDE DEF left, i
  <2>3. DOMAIN r = DOMAIN left /\ \A j \in DOMAIN r : r[j].processList = left[j].processList
    BY <1>2, <1>4, <2>2, ArrayIndices DEF ProcessNode
  <2>. QED
    BY <1>2, <2>3 DEF TreesKeptBut
<1>. QED
  BY <1>1, <1>3, <1>4 DEF AddFile

LEMMA AddProcessKeepsTrees ==
  ASSUME NEW ns \in Seq(ProcessNode), NEW pid \in Pids, NEW parentPid
  PROVE  /\ TreesKeptBut(AddProcess(ns, pid, parentPid), ns, {})
         /\ AddProcessStatus(ns, pid, parentPid) = "ADD_OK" /\ parentPid # pid =>
              SameTree(AddProcess(ns, pid, parentPid), pid, parentPid)
<1>. DEFINE i == First(TreesOf(ns, parentPid))
            r == AddProcess(ns, pid, parentPid)
<1>1. CASE AddProcessStatus(ns, pid, parentPid) # "ADD_OK"
  BY <1>1 DEF AddProcess, TreesKeptBut
<1>2. CASE AddProcessStatus(ns, pid, parentPid) = "ADD_OK"
  <2>1. TreesOf(ns, parentPid) # {} /\ NodeAddProcessStatus(ns[i], pid) = "ADD_OK"
    BY <1>2 DEF AddProcessStatus
  <2>2. i \in DOMAIN ns /\ ns[i] \in ProcessNode /\ i \in TreesOf(ns, parentPid)
    <3>1. TreesOf(ns, parentPid) \in SUBSET Nat
      BY ArrayIndices DEF TreesOf
    <3>. QED
      BY <2>1, <3>1, FirstIsMember, FirstMatch, ArrayIndices
  <2>3. r = [ns EXCEPT ![i].processList = @ \cup {pid}]
    BY <1>2 DEF AddProcess
  <2>. HIDE DEF i, r
  <2>4. parentPid # pid => parentPid \in ns[i].processList
    BY <2>1, <2>2 DEF TreesOf, RootedAt, Holding, NodeAddProcessStatus, IsDeadNode
  <2>5. /\ DOMAIN r = DOMAIN ns
        /\ \A j \in DOMAIN r : j # i => r[j].processList = ns[j].processList
        /\ r[i].processList = ns[i].processList \cup {pid}
    BY <2>2, <2>3, ArrayIndices DEF ProcessNode
  <2>6. TreesKeptBut(r, ns, {})
    BY <2>2, <2>5 DEF TreesKeptBut
  <2>7. parentPid # pid => SameTree(r, pid, parentPid)
    BY <2>2, <2>4, <2>5 DEF SameTree
  <2>. QED
    BY <2>6, <2>7 DEF r
<1>. QED
  BY <1>1, <1>2

LEMMA AddProcessNodeKeepsTrees ==
  ASSUME NEW ns \in Seq(ProcessNode), NEW pid \in Pids,
         NEW imgFile \in Files \cup {NoFile}, NEW noresp \in t_noresp
  PROVE  TreesKeptBut(AddProcessNode(ns, pid, imgFile, noresp), ns, {})
<1>. DEFINE n == [ rootPid |-> pid, imgFile |-> imgFile, processList |-> {pid},
                   filesList |-> {}, respawnProtect |-> noresp ]
            r == AddProcessNode(ns, pid, imgFile, noresp)
<1>1. CASE AddProcessNodeStatus(ns, pid) # "ADD_OK"
  BY <1>1 DEF AddProcessNode, TreesKeptBut
<1>2. CASE AddProcessNodeStatus(ns, pid) = "ADD_OK"
  <2>1. r = Append(ns, n)
    BY <1>2 DEF AddProcessNode
  <2>2. n \in ProcessNode
    BY DEF ProcessNode
  <2>. HIDE DEF n, r
  <2>3. DOMAIN ns \subseteq DOMAIN r /\ \A j \in DOMAIN ns : r[j] = ns[j]
    BY <2>1, <2>2, AppendProperties, ArrayIndices
  <2>. QED
    BY <2>3 DEF TreesKeptBut, r
<1>. QED
  BY <1>1, <1>2
=============================================================================
