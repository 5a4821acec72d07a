------------------------------ MODULE WatchList ------------------------------
(***************************************************************************)
(* Data::g_ProcessNodes as a monitor: one action per public operation that *)
(* can change the node array.  Callers are not modelled, any operation may *)
(* come next with any argument, sentinels included.                        *)
(*                                                                         *)
(* Spec constrains the callers in nothing.  FreshSpec assumes of them that *)
(* AddProcess names a process that is on no tree: what OnProcessNotify     *)
(* does when a PID is recycled only once its last owner is off the list.   *)
(* Module ProcessWatch models those callers.                               *)
(***************************************************************************)
EXTENDS ProcessNodes

VARIABLE nodes   \* Items[0 .. ItemCount-1]

Init == nodes = << >>

DoAddProcessNode ==
  \E pid \in Pids \cup {NoPid}, imgFile \in Files \cup {NoFile}, noresp \in t_noresp :
    nodes' = AddProcessNode(nodes, pid, imgFile, noresp)

DoAddProcess(pid) ==
  \E parentPid \in Pids \cup {NoPid} : nodes' = AddProcess(nodes, pid, parentPid)

DoDeleteProcess ==
  \E pid \in Pids : nodes' = DeleteProcess(nodes, pid)

DoAddFile ==
  \E fileId \in Files \cup {NoFile}, parentPid \in Pids \cup {NoPid} :
    nodes' = AddFile(nodes, fileId, parentPid)

DoDeleteFile ==
  \E fileId \in Files : nodes' = DeleteFile(nodes, fileId)

\* destroy, when the driver is unloaded; the list is then without capacity.
DoDestroy == nodes' = << >>

Next ==
  \/ DoAddProcessNode
  \/ \E pid \in Pids \cup {NoPid} : DoAddProcess(pid)
  \/ DoDeleteProcess
  \/ DoAddFile
  \/ DoDeleteFile
  \/ DoDestroy

\* The same, for callers that add a process only while no tree holds it.
FreshNext ==
  \/ DoAddProcessNode
  \/ \E pid \in Pids \cup {NoPid} : ~ContainsProcess(nodes, pid) /\ DoAddProcess(pid)
  \/ DoDeleteProcess
  \/ DoAddFile
  \/ DoDeleteFile
  \/ DoDestroy

Spec == Init /\ [][Next]_nodes

FreshSpec == Init /\ [][FreshNext]_nodes

-----------------------------------------------------------------------------
\* Each slot of the array in use holds a node: a root that is a process, an
\* image file or none, a protection level and two lists.
TypeOK == nodes \in Seq(ProcessNode)

\* No allocated array is written past its end: the node array and every
\* node's two lists stay within their capacity, whatever is swapped into
\* place by _DestroyNodeIfEmpty.
WithinLimits ==
  /\ Len(nodes) <= MaxNodes
  /\ \A i \in DOMAIN nodes :
        /\ Cardinality(nodes[i].processList) <= MaxItems
        /\ Cardinality(nodes[i].filesList) <= MaxItems

\* A node that has nothing left to watch never keeps a slot: each operation
\* that can empty a node frees it (_DestroyNodeIfEmpty) in the same step.
NoEmptyNode == \A i \in DOMAIN nodes : ~IsEmptyNode(nodes[i])

\* A process belongs to one tree, so that the first-match loops of DeleteProcess,
\* GetProcessOwner and AreSameFamily all mean the same tree.
TreesDisjoint ==
  \A i, j \in DOMAIN nodes :
    i # j => nodes[i].processList \cap nodes[j].processList = {}

\* A file belongs to one tree: AddFile refuses a file of another tree that
\* is alive and takes it away from one that is dead.
FilesDisjoint ==
  \A i, j \in DOMAIN nodes :
    i # j => nodes[i].filesList \cap nodes[j].filesList = {}

-----------------------------------------------------------------------------
\* The tree that holds a file of a given protection level, and what is on it.
Owned(ns, levels) ==
  UNION {ns[i].filesList : i \in {k \in DOMAIN ns : ns[k].respawnProtect \in levels}}

\* The image file of a tree that owns it.
ImagesOwned(ns) ==
  {f \in Files : \E i \in DOMAIN ns : ns[i].imgFile = f /\ f \in ns[i].filesList}

\* Respawn protection: the end of a process never takes a protected file off
\* the list.  A file of a NORESP_ALL_FILES tree, and a file other than the
\* image of a NORESP_DROPPED_FILES tree, goes only in a step that deletes
\* a file or hands it to another tree.
RespawnProtected ==
  [][ DoDeleteProcess =>
        /\ Owned(nodes, {"NORESP_ALL_FILES"})
             \subseteq Owned(nodes', {"NORESP_ALL_FILES"})
        /\ Owned(nodes, {"NORESP_DROPPED_FILES"}) \ ImagesOwned(nodes)
             \subseteq Owned(nodes', {"NORESP_DROPPED_FILES"}) ]_nodes

-----------------------------------------------------------------------------
\* The array implements the set of its nodes: each operation acts on one tree,
\* or moves a file between two, and the others are neither lost nor changed
\* nor doubled by the swap with the last node.
Trees == INSTANCE ProcessTrees WITH trees <- {nodes[i] : i \in DOMAIN nodes}

ImplementsTrees == Trees!Spec
=============================================================================
