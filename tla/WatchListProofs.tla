--------------------------- MODULE WatchListProofs ---------------------------
(***************************************************************************)
(* Theorems about the watch list: its type, its capacity and the absence   *)
(* of empty nodes whatever its callers do (Spec), and the disjointness of  *)
(* trees for callers that add a process only while no tree holds it        *)
(* (FreshSpec).  For these the array also implements the set of trees of   *)
(* ProcessTrees: each operation on it is an operation on the set of its    *)
(* nodes, or leaves the set as it is.  What makes the set faithful to the  *)
(* array is that no two nodes are equal, which the invariant implies.      *)
(* ProcessNodesProofs has the lemmas about the operations.                 *)
(***************************************************************************)
EXTENDS WatchList, ProcessNodesProofs

-----------------------------------------------------------------------------
(* Any caller                                                              *)

LEMMA EmptyListSound == Sound(<< >>) /\ Disjoint(<< >>)
<1>1. << >> \in Seq(ProcessNode) /\ Len(<< >>) = 0 /\ DOMAIN << >> = {}
  BY EmptySeq
<1>. QED
  BY <1>1, LimitAssumption DEF Sound, Disjoint

LEMMA InitSound == Init => Sound(nodes) /\ Disjoint(nodes)
  BY EmptyListSound DEF Init

\* Every operation, with any argument, leaves the array well-formed.
LEMMA NextSound == Sound(nodes) /\ [Next]_nodes => Sound(nodes')
<1>. SUFFICES ASSUME Sound(nodes), [Next]_nodes PROVE Sound(nodes')
  OBVIOUS
<1>1. CASE DoAddProcessNode
  BY <1>1, AddProcessNodeSound DEF DoAddProcessNode
<1>2. ASSUME NEW pid \in Pids \cup {NoPid}, DoAddProcess(pid) PROVE Sound(nodes')
  BY <1>2, AddProcessSound DEF DoAddProcess
<1>3. CASE DoDeleteProcess
  BY <1>3, DeleteProcessSound DEF DoDeleteProcess
<1>4. CASE DoAddFile
  BY <1>4, AddFileSound DEF DoAddFile
<1>5. CASE DoDeleteFile
  BY <1>5, DeleteFileSound DEF DoDeleteFile
<1>6. CASE DoDestroy
  BY <1>6, EmptyListSound DEF DoDestroy
<1>7. CASE UNCHANGED nodes
  BY <1>7
<1>. QED
  BY <1>1, <1>2, <1>3, <1>4, <1>5, <1>6, <1>7 DEF Next

LEMMA SoundIsInvariant == Spec => []Sound(nodes)
<1>1. Init => Sound(nodes)
  BY InitSound
<1>2. Sound(nodes) /\ [Next]_nodes => Sound(nodes)'
  BY NextSound
<1>. QED
  BY <1>1, <1>2, PTL DEF Spec

\* A slot of the array in use always holds a node, whatever calls were made.
THEOREM TypeCorrect == Spec => []TypeOK
<1>1. Sound(nodes) => TypeOK
  BY DEF Sound, TypeOK
<1>. QED
  BY <1>1, SoundIsInvariant, PTL

\* The array of nodes and the two lists of every node stay within their
\* capacity, for every capacity: _getNewItemPtr and addItem test before they
\* write, and the swap of _DestroyNodeIfEmpty only shortens the array.
THEOREM CapacityRespected == Spec => []WithinLimits
<1>1. Sound(nodes) => WithinLimits
  BY DEF Sound, WithinLimits, NodeWithinLimits
<1>. QED
  BY <1>1, SoundIsInvariant, PTL

\* No call leaves a node behind that has nothing left to watch.
THEOREM EmptyNodesDestroyed == Spec => []NoEmptyNode
<1>1. Sound(nodes) => NoEmptyNode
  BY DEF Sound, NoEmptyNode
<1>. QED
  BY <1>1, SoundIsInvariant, PTL

\* No end of a process takes a protected file off the list: the node stays
\* while it owns one, and DeleteProcess changes nothing else of it.
LEMMA DeleteProcessKeepsFiles ==
  ASSUME NEW ns \in Seq(ProcessNode), NEW pid, NEW k \in DOMAIN ns,
         ~IsEmptyNode([ns[k] EXCEPT !.processList = @ \ {pid}])
  PROVE  \E j \in DOMAIN DeleteProcess(ns, pid) :
            /\ DeleteProcess(ns, pid)[j].filesList = ns[k].filesList
            /\ DeleteProcess(ns, pid)[j].imgFile = ns[k].imgFile
            /\ DeleteProcess(ns, pid)[j].respawnProtect = ns[k].respawnProtect
<1>. DEFINE i == First(Holding(ns, pid))
            m == [ns[i] EXCEPT !.processList = @ \ {pid}]
            e == [ns EXCEPT ![i] = m]
            r == DeleteProcess(ns, pid)
<1>1. CASE ~ContainsProcess(ns, pid)
  BY <1>1 DEF DeleteProcess
<1>2. CASE ContainsProcess(ns, pid)
  <2>1. r = DestroyNodeIfEmpty(e, i)
    BY <1>2 DEF DeleteProcess
  <2>2. i \in DOMAIN ns /\ ns[i] \in ProcessNode
    BY <1>2, FirstMatch, ArrayIndices DEF ContainsProcess
  <2>3. k = i => ~IsEmptyNode(m)
    OBVIOUS
  <2>. HIDE DEF i, r
  <2>4. /\ m \in ProcessNode /\ m.filesList = ns[i].filesList
        /\ m.imgFile = ns[i].imgFile /\ m.respawnProtect = ns[i].respawnProtect
    BY <2>2 DEF ProcessNode
  <2>. HIDE DEF m
  <2>5. /\ e \in Seq(ProcessNode) /\ DOMAIN e = DOMAIN ns
        /\ e[k] = IF k = i THEN m ELSE ns[k]
    BY <2>2, <2>4, ExceptSeq, ArrayIndices
  <2>. HIDE DEF e
  <2>6. \E j \in DOMAIN r : r[j] = e[k]
    BY <2>1, <2>2, <2>3, <2>5, DestroyNodeIfEmptyKeepsNodes
  <2>. QED
    BY <2>4, <2>5, <2>6 DEF r
<1>. QED
  BY <1>1, <1>2

\* Respawn protection outlives the processes of the tree, for every level.
THEOREM ProtectedFilesStay == Spec => RespawnProtected
<1>1. ASSUME Sound(nodes), DoDeleteProcess
      PROVE  /\ Owned(nodes, {"NORESP_ALL_FILES"}) \subseteq Owned(nodes', {"NORESP_ALL_FILES"})
             /\ Owned(nodes, {"NORESP_DROPPED_FILES"}) \ ImagesOwned(nodes)
                  \subseteq Owned(nodes', {"NORESP_DROPPED_FILES"})
  <2>1. PICK pid \in Pids : nodes' = DeleteProcess(nodes, pid)
    BY <1>1 DEF DoDeleteProcess
  <2>2. nodes \in Seq(ProcessNode)
    BY <1>1 DEF Sound
  <2>. DEFINE less(k) == [nodes[k] EXCEPT !.processList = @ \ {pid}]
  <2>3. ASSUME NEW k \in DOMAIN nodes, ~IsEmptyNode(less(k))
        PROVE  \A f \in nodes[k].filesList : f \in Owned(nodes', {nodes[k].respawnProtect})
    <3>1. PICK j \in DOMAIN nodes' :
             /\ nodes'[j].filesList = nodes[k].filesList
             /\ nodes'[j].respawnProtect = nodes[k].respawnProtect
      BY <2>1, <2>2, <2>3, DeleteProcessKeepsFiles
    <3>. QED
      BY <3>1 DEF Owned
  <2>4. ASSUME NEW k \in DOMAIN nodes, NEW f \in nodes[k].filesList
        PROVE  /\ nodes[k].respawnProtect = "NORESP_ALL_FILES" => ~IsEmptyNode(less(k))
               /\ nodes[k].respawnProtect = "NORESP_DROPPED_FILES" /\ f # nodes[k].imgFile =>
                    ~IsEmptyNode(less(k))
    <3>1. nodes[k] \in ProcessNode
      BY <2>2, ArrayIndices
    <3>2. /\ less(k).filesList = nodes[k].filesList /\ less(k).imgFile = nodes[k].imgFile
          /\ less(k).respawnProtect = nodes[k].respawnProtect
      BY <3>1 DEF ProcessNode
    <3>. HIDE DEF less
    <3>. QED
      BY <2>4, <3>2 DEF IsEmptyNode
  <2>5. ASSUME NEW f \in Owned(nodes, {"NORESP_ALL_FILES"})
        PROVE  f \in Owned(nodes', {"NORESP_ALL_FILES"})
    <3>1. PICK k \in DOMAIN nodes :
             nodes[k].respawnProtect = "NORESP_ALL_FILES" /\ f \in nodes[k].filesList
      BY <2>5 DEF Owned
    <3>. QED
      BY <2>3, <2>4, <3>1
  <2>6. ASSUME NEW f \in Owned(nodes, {"NORESP_DROPPED_FILES"}) \ ImagesOwned(nodes)
        PROVE  f \in Owned(nodes', {"NORESP_DROPPED_FILES"})
    <3>1. PICK k \in DOMAIN nodes :
             nodes[k].respawnProtect = "NORESP_DROPPED_FILES" /\ f \in nodes[k].filesList
      BY <2>6 DEF Owned
    <3>2. f \in Files
      BY <2>2, <3>1, ArrayIndices DEF ProcessNode
    <3>3. f # nodes[k].imgFile
      BY <2>6, <3>1, <3>2 DEF ImagesOwned
    <3>. QED
      BY <2>3, <2>4, <3>1, <3>3
  <2>. QED
    BY <2>5, <2>6
<1>2. Sound(nodes) /\ [Next]_nodes =>
        [ DoDeleteProcess =>
            /\ Owned(nodes, {"NORESP_ALL_FILES"}) \subseteq Owned(nodes', {"NORESP_ALL_FILES"})
            /\ Owned(nodes, {"NORESP_DROPPED_FILES"}) \ ImagesOwned(nodes)
                 \subseteq Owned(nodes', {"NORESP_DROPPED_FILES"}) ]_nodes
  BY <1>1
<1>. QED
  BY <1>2, SoundIsInvariant, PTL DEF Spec, RespawnProtected

-----------------------------------------------------------------------------
(* Callers that add a process only while no tree holds it                  *)

LEMMA FreshNextDisjoint ==
  Sound(nodes) /\ Disjoint(nodes) /\ [FreshNext]_nodes => Sound(nodes') /\ Disjoint(nodes')
<1>. SUFFICES ASSUME Sound(nodes), Disjoint(nodes), [FreshNext]_nodes
              PROVE  Sound(nodes') /\ Disjoint(nodes')
  OBVIOUS
<1>1. nodes \in Seq(ProcessNode)
  BY DEF Sound
<1>2. Sound(nodes')
  BY NextSound DEF FreshNext, Next
<1>3. ASSUME DoAddProcessNode PROVE Disjoint(nodes')
  BY <1>1, <1>3, AddProcessNodeDisjoint DEF DoAddProcessNode
<1>4. ASSUME NEW pid \in Pids \cup {NoPid}, ~ContainsProcess(nodes, pid), DoAddProcess(pid)
      PROVE  Disjoint(nodes')
  BY <1>1, <1>4, AddProcessDisjoint DEF DoAddProcess
<1>5. ASSUME DoDeleteProcess PROVE Disjoint(nodes')
  BY <1>1, <1>5, DeleteProcessDisjoint DEF DoDeleteProcess
<1>6. ASSUME DoAddFile PROVE Disjoint(nodes')
  BY <1>6, AddFileDisjoint DEF DoAddFile
<1>7. ASSUME DoDeleteFile PROVE Disjoint(nodes')
  BY <1>1, <1>7, DeleteFileDisjoint DEF DoDeleteFile
<1>8. ASSUME DoDestroy PROVE Disjoint(nodes')
  BY <1>8, EmptyListSound DEF DoDestroy
<1>9. ASSUME UNCHANGED nodes PROVE Disjoint(nodes')
  BY <1>9
<1>10. Disjoint(nodes')
  BY <1>3, <1>4, <1>5, <1>6, <1>7, <1>8, <1>9 DEF FreshNext
<1>. QED
  BY <1>2, <1>10

LEMMA DisjointIsInvariant == FreshSpec => [](Sound(nodes) /\ Disjoint(nodes))
<1>1. Init => Sound(nodes) /\ Disjoint(nodes)
  BY InitSound
<1>2. (Sound(nodes) /\ Disjoint(nodes)) /\ [FreshNext]_nodes => (Sound(nodes) /\ Disjoint(nodes))'
  BY FreshNextDisjoint
<1>. QED
  BY <1>1, <1>2, PTL DEF FreshSpec

\* A process belongs to at most one tree, so that the first-match loops of
\* ProcessNodesList all find the same node for it.
THEOREM TreesStayDisjoint == FreshSpec => []TreesDisjoint
<1>1. Disjoint(nodes) => TreesDisjoint
  BY DEF Disjoint, TreesDisjoint
<1>. QED
  BY <1>1, DisjointIsInvariant, PTL

\* A file belongs to at most one tree: AddFile refuses a file that a living
\* tree owns and takes it from a dead one before it adds it.
THEOREM FilesStayDisjoint == FreshSpec => []FilesDisjoint
<1>1. Disjoint(nodes) => FilesDisjoint
  BY DEF Disjoint, FilesDisjoint
<1>. QED
  BY <1>1, DisjointIsInvariant, PTL

-----------------------------------------------------------------------------
(* Nodes and their set                                                     *)

NodesOf(ns) == {ns[i] : i \in DOMAIN ns}

\* _isEmptyNode is what ProcessTrees calls finished.
LEMMA EmptyIsFinished ==
  ASSUME NEW n \in ProcessNode
  PROVE  Trees!Kept(n) = IF IsEmptyNode(n) THEN {} ELSE {n}
<1>1. n.processList = {} => IsDeadNode(n)
  BY DEF IsDeadNode
<1>2. n.respawnProtect \in t_noresp
  BY DEF ProcessNode
<1>3. Trees!ProtectedFiles(n) = {} <=>
        \/ n.respawnProtect = "NORESP_NO_RESTRICTION"
        \/ n.filesList = {}
        \/ n.respawnProtect = "NORESP_DROPPED_FILES" /\ n.filesList = {n.imgFile}
  <2>1. CASE n.respawnProtect = "NORESP_NO_RESTRICTION"
    BY <2>1 DEF Trees!ProtectedFiles
  <2>2. CASE n.respawnProtect = "NORESP_DROPPED_FILES"
    <3>1. Trees!ProtectedFiles(n) = n.filesList \ {n.imgFile}
      BY <2>2 DEF Trees!ProtectedFiles
    <3>. QED
      BY <2>2, <3>1
  <2>3. CASE n.respawnProtect = "NORESP_ALL_FILES"
    BY <2>3 DEF Trees!ProtectedFiles
  <2>. QED
    BY <1>2, <2>1, <2>2, <2>3 DEF t_noresp
<1>4. Trees!Finished(n) <=> IsEmptyNode(n)
  BY <1>1, <1>3 DEF Trees!Finished, IsEmptyNode
<1>. QED
  BY <1>4 DEF Trees!Kept

LEMMA SameLevels == Trees!t_noresp = t_noresp
BY DEF Trees!t_noresp, t_noresp

\* No two nodes of the array are equal.
LEMMA NodesDistinct ==
  ASSUME NEW ns, Sound(ns), Disjoint(ns), NEW i \in DOMAIN ns, NEW j \in DOMAIN ns, i # j
  PROVE  ns[i] # ns[j]
<1>1. ns[i].processList # {} \/ ns[i].filesList # {}
  BY DEF Sound, IsEmptyNode, IsDeadNode
<1>. QED
  BY <1>1 DEF Disjoint

\* One node is replaced, and one member of the set.
LEMMA ReplaceNode ==
  ASSUME NEW ns, Sound(ns), Disjoint(ns), NEW i \in DOMAIN ns, NEW m \in ProcessNode
  PROVE  NodesOf([ns EXCEPT ![i] = m]) = (NodesOf(ns) \ {ns[i]}) \cup {m}
<1>. DEFINE e == [ns EXCEPT ![i] = m]
<1>1. ns \in Seq(ProcessNode)
  BY DEF Sound
<1>2. DOMAIN e = DOMAIN ns /\ e[i] = m /\ \A j \in DOMAIN ns : j # i => e[j] = ns[j]
  BY <1>1, ArrayIndices
<1>. HIDE DEF e
<1>3. \A j \in DOMAIN ns : j # i => ns[j] # ns[i]
  BY NodesDistinct
<1>4. NodesOf(e) = (NodesOf(ns) \ {ns[i]}) \cup {m}
  BY <1>2, <1>3 DEF NodesOf
<1>. QED
  BY <1>4 DEF e

\* It is replaced and destroyed if it is empty.
LEMMA ShrinkNode ==
  ASSUME NEW ns, Sound(ns), Disjoint(ns), NEW i \in DOMAIN ns, NEW m \in ProcessNode
  PROVE  NodesOf(DestroyNodeIfEmpty([ns EXCEPT ![i] = m], i)) =
           (NodesOf(ns) \ {ns[i]}) \cup Trees!Kept(m)
<1>. DEFINE e == [ns EXCEPT ![i] = m]
            r == DestroyNodeIfEmpty(e, i)
<1>1. ns \in Seq(ProcessNode)
  BY DEF Sound
<1>2. /\ e \in Seq(ProcessNode) /\ DOMAIN e = DOMAIN ns /\ e[i] = m
      /\ \A j \in DOMAIN ns : j # i => e[j] = ns[j]
  BY <1>1, ArrayIndices, ExceptSeq
<1>. HIDE DEF e
<1>3. r = DestroyNodeIfEmpty(e, i)
  OBVIOUS
<1>. HIDE DEF r
<1>4. /\ \A j \in DOMAIN r : \E a \in DOMAIN e :
            r[j] = e[a] /\ (IsEmptyNode(r[j]) => a # i)
      /\ \A a \in DOMAIN e :
            (a # i \/ ~IsEmptyNode(e[i])) => \E j \in DOMAIN r : r[j] = e[a]
  BY <1>2, <1>3, DestroyNodeIfEmptyKeepsNodes
<1>5. \A j \in DOMAIN ns : j # i => ns[j] # ns[i]
  BY NodesDistinct
<1>6. Trees!Kept(m) = IF IsEmptyNode(m) THEN {} ELSE {m}
  BY EmptyIsFinished
<1>7. NodesOf(r) \subseteq (NodesOf(ns) \ {ns[i]}) \cup Trees!Kept(m)
  BY <1>2, <1>4, <1>5, <1>6 DEF NodesOf
<1>8. (NodesOf(ns) \ {ns[i]}) \cup Trees!Kept(m) \subseteq NodesOf(r)
  <2>1. ASSUME NEW j \in DOMAIN ns, ns[j] # ns[i] PROVE ns[j] \in NodesOf(r)
    BY <1>2, <1>4, <2>1 DEF NodesOf
  <2>2. ASSUME ~IsEmptyNode(m) PROVE m \in NodesOf(r)
    BY <1>2, <1>4, <2>2 DEF NodesOf
  <2>. QED
    BY <1>6, <2>1, <2>2 DEF NodesOf
<1>. QED
  BY <1>7, <1>8 DEF e, r

-----------------------------------------------------------------------------
(* Each operation on the array is one on the set, or none.                 *)

\* What holds before and after each operation.
Listed(ns) == Sound(ns) /\ Disjoint(ns)

LEMMA TreeSteps ==
  ASSUME NEW t \in NodesOf(nodes),
         \/ \E pid \in Pids : Trees!Spawn(pid, t) \/ Trees!Exit(pid, t)
         \/ \E fileId \in Files :
               \/ Trees!Take(fileId, t)
               \/ Trees!Release(fileId, t)
               \/ \E dead \in NodesOf(nodes) : Trees!TakeOver(fileId, dead, t)
  PROVE  Trees!Next
BY Zenon DEF Trees!Next, NodesOf

LEMMA AddProcessNodeRegisters ==
  ASSUME Listed(nodes), DoAddProcessNode, nodes' # nodes
  PROVE  Trees!Next
<1>1. PICK pid \in Pids \cup {NoPid}, imgFile \in Files \cup {NoFile}, noresp \in t_noresp :
         nodes' = AddProcessNode(nodes, pid, imgFile, noresp)
  BY DEF DoAddProcessNode
<1>. DEFINE n == [ rootPid |-> pid, imgFile |-> imgFile, processList |-> {pid},
                   filesList |-> {}, respawnProtect |-> noresp ]
<1>2. AddProcessNodeStatus(nodes, pid) = "ADD_OK"
  BY <1>1 DEF AddProcessNode
<1>3. pid \in Pids /\ ~ContainsProcess(nodes, pid) /\ nodes' = Append(nodes, n)
  BY <1>1, <1>2 DEF AddProcessNode, AddProcessNodeStatus
<1>4. nodes \in Seq(ProcessNode) /\ n \in ProcessNode
  BY <1>3 DEF Listed, Sound, ProcessNode
<1>5. Trees!OnNoTree(pid)
  BY <1>3, ContainedIffHeld DEF Trees!OnNoTree
<1>. HIDE DEF n
<1>6. /\ DOMAIN nodes = 1 .. Len(nodes) /\ Len(nodes) \in Nat
      /\ DOMAIN nodes' = 1 .. Len(nodes) + 1
      /\ nodes'[Len(nodes) + 1] = n
      /\ \A j \in 1 .. Len(nodes) : nodes'[j] = nodes[j]
  BY <1>3, <1>4, AppendProperties, ArrayIndices
<1>7. NodesOf(nodes') = NodesOf(nodes) \cup {n}
  <2>1. \A j \in DOMAIN nodes' : j \in DOMAIN nodes \/ j = Len(nodes) + 1
    BY <1>6
  <2>2. DOMAIN nodes \subseteq DOMAIN nodes' /\ Len(nodes) + 1 \in DOMAIN nodes'
    BY <1>6
  <2>. QED
    BY <1>6, <2>1, <2>2 DEF NodesOf
<1>8. Trees!Register(pid, imgFile, noresp)
  BY <1>5, <1>7 DEF Trees!Register, NodesOf, n
<1>. QED
  BY <1>3, <1>8, SameLevels DEF Trees!Next

LEMMA AddProcessSpawns ==
  ASSUME Listed(nodes), NEW pid \in Pids \cup {NoPid}, ~ContainsProcess(nodes, pid),
         DoAddProcess(pid), nodes' # nodes
  PROVE  Trees!Next
<1>1. PICK parentPid \in Pids \cup {NoPid} : nodes' = AddProcess(nodes, pid, parentPid)
  BY DEF DoAddProcess
<1>. DEFINE i == First(TreesOf(nodes, parentPid))
            m == [nodes[i] EXCEPT !.processList = @ \cup {pid}]
<1>2. AddProcessStatus(nodes, pid, parentPid) = "ADD_OK"
  BY <1>1 DEF AddProcess
<1>3. /\ pid \in Pids /\ TreesOf(nodes, parentPid) # {}
      /\ NodeAddProcessStatus(nodes[i], pid) = "ADD_OK"
      /\ nodes' = [nodes EXCEPT ![i] = m]
  BY <1>1, <1>2 DEF AddProcess, AddProcessStatus
<1>4. nodes[i].rootPid \in nodes[i].processList \cup {pid}
  BY <1>3 DEF NodeAddProcessStatus, IsDeadNode
<1>5. nodes \in Seq(ProcessNode)
  BY DEF Listed, Sound
<1>6. i \in DOMAIN nodes /\ nodes[i] \in ProcessNode
  BY <1>3, <1>5, FirstMatch, ArrayIndices
<1>. HIDE DEF i
<1>7. m \in ProcessNode /\ pid \in m.processList
  BY <1>3, <1>6 DEF ProcessNode
<1>8. Trees!Kept(m) = {m}
  BY <1>7, EmptyIsFinished DEF IsEmptyNode
<1>. HIDE DEF m
<1>9. NodesOf(nodes') = (NodesOf(nodes) \ {nodes[i]}) \cup Trees!Kept(m)
  <2>1. NodesOf([nodes EXCEPT ![i] = m]) = (NodesOf(nodes) \ {nodes[i]}) \cup {m}
    BY <1>6, <1>7, ReplaceNode DEF Listed
  <2>. QED
    BY <1>3, <1>8, <2>1
<1>10. Trees!OnNoTree(pid)
  BY ContainedIffHeld DEF Trees!OnNoTree
<1>11. PICK t \in NodesOf(nodes) : t = nodes[i]
  BY <1>6 DEF NodesOf
<1>12. Trees!Spawn(pid, t)
  BY <1>4, <1>9, <1>10, <1>11 DEF Trees!Spawn, Trees!Becomes, NodesOf, m
<1>. QED
  BY <1>3, <1>12, TreeSteps

LEMMA DeleteProcessExits ==
  ASSUME Listed(nodes), DoDeleteProcess, nodes' # nodes
  PROVE  Trees!Next
<1>1. PICK pid \in Pids : nodes' = DeleteProcess(nodes, pid)
  BY DEF DoDeleteProcess
<1>. DEFINE i == First(Holding(nodes, pid))
            m == [nodes[i] EXCEPT !.processList = @ \ {pid}]
<1>2. ContainsProcess(nodes, pid) /\ nodes' = DestroyNodeIfEmpty([nodes EXCEPT ![i] = m], i)
  BY <1>1 DEF DeleteProcess
<1>3. nodes \in Seq(ProcessNode)
  BY DEF Listed, Sound
<1>4. i \in DOMAIN nodes /\ nodes[i] \in ProcessNode /\ pid \in nodes[i].processList
  BY <1>2, <1>3, FirstMatch, ArrayIndices DEF ContainsProcess
<1>. HIDE DEF i
<1>5. m \in ProcessNode
  BY <1>4 DEF ProcessNode
<1>6. NodesOf(nodes') = (NodesOf(nodes) \ {nodes[i]}) \cup Trees!Kept(m)
  BY <1>2, <1>4, <1>5, ShrinkNode DEF Listed
<1>7. PICK t \in NodesOf(nodes) : t = nodes[i]
  BY <1>4 DEF NodesOf
<1>8. Trees!Exit(pid, t)
  BY <1>4, <1>6, <1>7 DEF Trees!Exit, Trees!Becomes, NodesOf
<1>. QED
  BY <1>8, TreeSteps

\* DeleteFile leaves the array as it is, or lets the file go from one tree.
LEMMA DeleteFileReleases ==
  ASSUME Listed(nodes), NEW fileId, DeleteFile(nodes, fileId) # nodes
  PROVE  LET t == nodes[First(Owning(nodes, fileId))]
         IN  /\ Owning(nodes, fileId) # {}
             /\ t \in NodesOf(nodes) /\ t \in ProcessNode /\ fileId \in t.filesList
             /\ NodesOf(DeleteFile(nodes, fileId)) =
                  (NodesOf(nodes) \ {t}) \cup Trees!Kept([t EXCEPT !.filesList = @ \ {fileId}])
<1>. DEFINE i == First(Owning(nodes, fileId))
            m == [nodes[i] EXCEPT !.filesList = @ \ {fileId}]
            r == DeleteFile(nodes, fileId)
<1>1. Owning(nodes, fileId) # {} /\ r = DestroyNodeIfEmpty([nodes EXCEPT ![i] = m], i)
  BY DEF DeleteFile
<1>2. nodes \in Seq(ProcessNode)
  BY DEF Listed, Sound
<1>3. i \in DOMAIN nodes /\ nodes[i] \in ProcessNode /\ fileId \in nodes[i].filesList
  BY <1>1, <1>2, FirstMatch, ArrayIndices
<1>. HIDE DEF i, r
<1>4. m \in ProcessNode
  BY <1>3 DEF ProcessNode
<1>5. NodesOf(r) = (NodesOf(nodes) \ {nodes[i]}) \cup Trees!Kept(m)
  BY <1>1, <1>3, <1>4, ShrinkNode DEF Listed
<1>. QED
  BY <1>1, <1>3, <1>5 DEF NodesOf, i, r

LEMMA FileReleased ==
  ASSUME Listed(nodes), NEW fileId \in Files,
         nodes' = DeleteFile(nodes, fileId), nodes' # nodes
  PROVE  Trees!Next
<1>. DEFINE t == nodes[First(Owning(nodes, fileId))]
<1>1. /\ t \in NodesOf(nodes) /\ fileId \in t.filesList
      /\ NodesOf(nodes') =
           (NodesOf(nodes) \ {t}) \cup Trees!Kept([t EXCEPT !.filesList = @ \ {fileId}])
  BY DeleteFileReleases
<1>. HIDE DEF t
<1>2. PICK u \in NodesOf(nodes) : u = t
  BY <1>1
<1>3. Trees!Release(fileId, u)
  BY <1>1, <1>2 DEF Trees!Release, Trees!Becomes, NodesOf
<1>. QED
  BY <1>3, TreeSteps

\* The file is added to the living tree that the loop finds; left is the
\* array without the previous association.
LEMMA FileAdded ==
  ASSUME NEW left, Listed(left), NEW fileId \in Files, NEW parentPid,
         Holding(left, parentPid) # {},
         NodeAddFileStatus(left[First(Holding(left, parentPid))], fileId) = "ADD_OK"
  PROVE  LET i == First(Holding(left, parentPid))
             u == [left[i] EXCEPT !.filesList = @ \cup {fileId}]
         IN  /\ left[i] \in NodesOf(left) /\ parentPid \in left[i].processList
             /\ left[i].rootPid \in left[i].processList
             /\ Trees!Kept(u) = {u}
             /\ NodesOf([left EXCEPT ![i].filesList = @ \cup {fileId}]) =
                  (NodesOf(left) \ {left[i]}) \cup {u}
<1>. DEFINE i == First(Holding(left, parentPid))
            u == [left[i] EXCEPT !.filesList = @ \cup {fileId}]
<1>1. left \in Seq(ProcessNode)
  BY DEF Listed, Sound
<1>2. i \in DOMAIN left /\ left[i] \in ProcessNode /\ parentPid \in left[i].processList
  BY <1>1, FirstMatch, ArrayIndices
<1>3. left[i].rootPid \in left[i].processList
  BY DEF NodeAddFileStatus, IsDeadNode
<1>4. [left EXCEPT ![i].filesList = @ \cup {fileId}] = [left EXCEPT ![i] = u]
  OBVIOUS
<1>. HIDE DEF i
<1>5. u \in ProcessNode /\ u.processList # {}
  BY <1>2 DEF ProcessNode
<1>. HIDE DEF u
<1>6. Trees!Kept(u) = {u}
  BY <1>5, EmptyIsFinished DEF IsEmptyNode
<1>7. NodesOf([left EXCEPT ![i] = u]) = (NodesOf(left) \ {left[i]}) \cup {u}
  BY <1>2, <1>5, ReplaceNode DEF Listed
<1>. QED
  BY <1>2, <1>3, <1>4, <1>6, <1>7 DEF NodesOf, i, u

LEMMA AddFileTakes ==
  ASSUME Listed(nodes), DoAddFile, nodes' # nodes
  PROVE  Trees!Next
<1>1. PICK fileId \in Files \cup {NoFile}, parentPid \in Pids \cup {NoPid} :
         nodes' = AddFile(nodes, fileId, parentPid)
  BY DEF DoAddFile
<1>. DEFINE left == DeletePreviousAssociation(nodes, fileId, parentPid)
            i == First(Holding(left, parentPid))
            u == [left[i] EXCEPT !.filesList = @ \cup {fileId}]
            added == [left EXCEPT ![i].filesList = @ \cup {fileId}]
<1>2. FileAdmission(nodes, fileId, parentPid) = "ADD_OK" /\ fileId \in Files
  BY <1>1 DEF AddFile, FileAdmission
<1>3. nodes \in Seq(ProcessNode) /\ Holding(nodes, parentPid) # {}
  BY <1>2 DEF Listed, Sound, FileAdmission, CanAddFileStatus
<1>4. Listed(left)
  <2>1. Disjoint(left)
    BY <1>3, DeleteFileDisjoint DEF DeletePreviousAssociation, Listed
  <2>. QED
    BY <2>1, DeletePreviousAssociationSound DEF Listed
<1>5. Holding(left, parentPid) # {}
  BY <1>3, DeletePreviousAssociationKeepsHolder
<1>6. CASE AddFileStatus(nodes, fileId, parentPid) # "ADD_OK"
  <2>1. nodes' = left
    BY <1>1, <1>2, <1>6 DEF AddFile
  <2>2. nodes' = DeleteFile(nodes, fileId)
    BY <2>1 DEF DeletePreviousAssociation
  <2>. QED
    BY <1>2, <2>2, FileReleased
<1>7. CASE AddFileStatus(nodes, fileId, parentPid) = "ADD_OK"
  <2>1. NodeAddFileStatus(left[i], fileId) = "ADD_OK"
    BY <1>2, <1>7 DEF AddFileStatus
  <2>2. nodes' = added
    BY <1>1, <1>2, <1>7 DEF AddFile
  <2>3. \A j \in DOMAIN left : j # i => fileId \notin left[j].filesList
    BY <1>2, <1>3, FileAdmittedToOneTree DEF Listed
  <2>4. fileId \notin left[i].filesList
    BY <2>1 DEF NodeAddFileStatus, AddItemStatus
  <2>5. /\ left[i] \in NodesOf(left) /\ parentPid \in left[i].processList
        /\ left[i].rootPid \in left[i].processList
        /\ Trees!Kept(u) = {u}
        /\ NodesOf(added) = (NodesOf(left) \ {left[i]}) \cup {u}
    BY <1>2, <1>4, <1>5, <2>1, FileAdded, ZenonT(60)
  <2>6. PICK t \in NodesOf(left) : t = left[i]
    BY <2>5
  <2>7. \A v \in NodesOf(left) : fileId \notin v.filesList
    BY <2>3, <2>4 DEF NodesOf
  <2>8. CASE left = nodes
    <3>1. Trees!NoTreeOwns(fileId)
      BY <2>7, <2>8 DEF Trees!NoTreeOwns, NodesOf
    <3>2. /\ NodesOf(nodes') = (NodesOf(nodes) \ {t}) \cup Trees!Kept(u)
          /\ u = [t EXCEPT !.filesList = @ \cup {fileId}]
      BY <2>2, <2>5, <2>6, <2>8
    <3>3. Trees!Take(fileId, t)
      BY <2>5, <2>6, <3>1, <3>2 DEF Trees!Take, Trees!Becomes, NodesOf
    <3>. QED
      BY <1>2, <2>6, <2>8, <3>3, TreeSteps
  <2>9. CASE left # nodes
    <3>. DEFINE d == nodes[First(Owning(nodes, fileId))]
                w == [d EXCEPT !.filesList = @ \ {fileId}]
    <3>1. left = DeleteFile(nodes, fileId) /\ d.processList = {}
      BY <2>9 DEF DeletePreviousAssociation, PreviousAssociation
    <3>2. /\ d \in NodesOf(nodes) /\ d \in ProcessNode /\ fileId \in d.filesList
          /\ NodesOf(left) = (NodesOf(nodes) \ {d}) \cup Trees!Kept(w)
      BY <2>9, <3>1, DeleteFileReleases
    <3>. HIDE DEF d
    <3>3. w \in ProcessNode /\ w.processList = {}
      BY <3>1, <3>2 DEF ProcessNode
    <3>4. Trees!Kept(w) \subseteq {w}
      BY <3>3, EmptyIsFinished
    <3>5. PICK dead \in NodesOf(nodes) : dead = d
      BY <3>2
    <3>6. t \notin Trees!Kept(w) /\ t # dead
      BY <2>5, <2>6, <3>1, <3>3, <3>4, <3>5
    <3>7. t \in NodesOf(nodes)
      BY <2>6, <3>2, <3>6
    <3>. HIDE DEF left, i, u, added
    <3>8. NodesOf(nodes') = (NodesOf(nodes) \ {dead, t}) \cup Trees!Kept(w) \cup {u}
      BY <2>2, <2>5, <2>6, <3>2, <3>5, <3>6
    <3>9. u = [t EXCEPT !.filesList = @ \cup {fileId}] /\ w = [dead EXCEPT !.filesList = @ \ {fileId}]
      BY <2>6, <3>5 DEF u
    <3>10. Trees!TakeOver(fileId, dead, t)
      BY <2>5, <2>6, <3>1, <3>2, <3>5, <3>8, <3>9 DEF Trees!TakeOver, NodesOf
    <3>. QED
      BY <1>2, <3>5, <3>7, <3>10, TreeSteps
  <2>. QED
    BY <2>8, <2>9
<1>. QED
  BY <1>6, <1>7

-----------------------------------------------------------------------------
(* The array implements the set of trees.                                  *)

LEMMA FreshStepOnTrees ==
  ASSUME Listed(nodes), [FreshNext]_nodes
  PROVE  [Trees!Next]_({nodes[i] : i \in DOMAIN nodes})
<1>1. CASE nodes' = nodes
  BY <1>1
<1>2. CASE nodes' # nodes
  <2>1. CASE DoAddProcessNode
    BY <1>2, <2>1, AddProcessNodeRegisters
  <2>2. ASSUME NEW pid \in Pids \cup {NoPid}, ~ContainsProcess(nodes, pid), DoAddProcess(pid)
        PROVE  Trees!Next
    BY <1>2, <2>2, AddProcessSpawns
  <2>3. CASE DoDeleteProcess
    BY <1>2, <2>3, DeleteProcessExits
  <2>4. CASE DoAddFile
    BY <1>2, <2>4, AddFileTakes
  <2>5. CASE DoDeleteFile
    BY <1>2, <2>5, FileReleased DEF DoDeleteFile
  <2>6. CASE DoDestroy
    <3>1. DOMAIN nodes' = {}
      BY <2>6 DEF DoDestroy
    <3>2. Trees!Unwatch
      BY <3>1 DEF Trees!Unwatch
    <3>. QED
      BY <3>2 DEF Trees!Next
  <2>. QED
    BY <1>2, <2>1, <2>2, <2>3, <2>4, <2>5, <2>6 DEF FreshNext
<1>. QED
  BY <1>1, <1>2

\* The array of nodes, with its first-match loops, its capacity and the swap
\* of _DestroyNodeIfEmpty, implements a set of disjoint trees, for every number
\* of processes, files and nodes.
THEOREM ListImplementsTrees == FreshSpec => ImplementsTrees
<1>1. Init => Trees!Init
  <2>1. ASSUME Init PROVE DOMAIN nodes = {}
    BY <2>1 DEF Init
  <2>. QED
    BY <2>1 DEF Trees!Init
<1>2. (Sound(nodes) /\ Disjoint(nodes)) /\ [FreshNext]_nodes
        => [Trees!Next]_({nodes[i] : i \in DOMAIN nodes})
  BY FreshStepOnTrees DEF Listed
<1>. QED
  BY <1>1, <1>2, DisjointIsInvariant, PTL DEF FreshSpec, ImplementsTrees, Trees!Spec
=============================================================================
