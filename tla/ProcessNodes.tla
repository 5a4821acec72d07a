---------------------------- MODULE ProcessNodes ----------------------------
(***************************************************************************)
(* The operations of struct ProcessNode and struct ProcessNodesList, as    *)
(* functions of the node array Items[0 .. ItemCount-1], written here as a  *)
(* sequence.  Every public operation of ProcessNodesList runs under the    *)
(* list's one mutex, so each is a function from the array it finds to the  *)
(* array it leaves (op) and to the status it returns (opStatus).           *)
(*                                                                         *)
(* An ItemsList is the set of its items: that the sorted array with its    *)
(* binary search is one is the subject of module ItemsList.                *)
(***************************************************************************)
EXTENDS Integers, Sequences, FiniteSets

CONSTANTS
  Pids,      \* process identifiers
  Files,     \* file identifiers
  NoPid,     \* 0, never a process
  NoFile,    \* FILE_INVALID_FILE_ID
  MaxNodes,  \* capacity of the node array (MAX_ITEMS)
  MaxItems   \* capacity of a node's process list and of its file list (MAX_ITEMS)

ASSUME SentinelAssumption == NoPid \notin Pids /\ NoFile \notin Files

ASSUME LimitAssumption == MaxNodes \in Nat \ {0} /\ MaxItems \in Nat \ {0}

ASSUME FiniteAssumption == IsFiniteSet(Pids) /\ IsFiniteSet(Files)

t_noresp ==
  {"NORESP_NO_RESTRICTION", "NORESP_DROPPED_FILES", "NORESP_ALL_FILES"}

ProcessNode ==
  [ rootPid        : Pids,
    imgFile        : Files \cup {NoFile},
    processList    : SUBSET Pids,
    filesList      : SUBSET Files,
    respawnProtect : t_noresp ]

-----------------------------------------------------------------------------
(* Nodes of an array that satisfy a condition, and the one a loop that     *)
(* returns at the first match acts on.                                     *)

Holding(ns, pid) == {i \in DOMAIN ns : pid \in ns[i].processList}

Owning(ns, fileId) == {i \in DOMAIN ns : fileId \in ns[i].filesList}

RootedAt(ns, pid) == {i \in DOMAIN ns : ns[i].rootPid = pid}

First(S) == CHOOSE i \in S : \A j \in S : i <= j

-----------------------------------------------------------------------------
(* struct ProcessNode                                                      *)

\* Fault: a full list still takes one more item.
AddItemStatusOverfull(items, it) ==
  IF Cardinality(items) > MaxItems THEN "ADD_LIMIT_EXHAUSTED"
  ELSE IF it \in items THEN "ADD_ALREADY_EXIST"
  ELSE "ADD_OK"

\* The full test comes before the duplicate test, as in the code.
AddItemStatus(items, it) ==
  IF Cardinality(items) >= MaxItems THEN "ADD_LIMIT_EXHAUSTED"
  ELSE IF it \in items THEN "ADD_ALREADY_EXIST"
  ELSE "ADD_OK"

IsDeadNode(n) == n.rootPid \notin n.processList

\* Fault: the level of respawn protection is not looked at.
IsEmptyNodeUnprotected(n) == n.processList = {}

IsEmptyNode(n) ==
  /\ IsDeadNode(n)
  /\ n.processList = {}
  /\ \/ n.respawnProtect = "NORESP_NO_RESTRICTION"
     \/ n.filesList = {}
     \/ /\ n.respawnProtect = "NORESP_DROPPED_FILES"
        /\ n.filesList = {n.imgFile}

NodeAddProcessStatus(n, pid) ==
  IF pid # n.rootPid /\ IsDeadNode(n) THEN "ADD_LIMIT_EXHAUSTED"
  ELSE AddItemStatus(n.processList, pid)

NodeAddFileStatus(n, fileId) ==
  IF IsDeadNode(n) THEN "ADD_LIMIT_EXHAUSTED"
  ELSE AddItemStatus(n.filesList, fileId)

NodeCanAddFile(n) == ~IsDeadNode(n) /\ Cardinality(n.filesList) < MaxItems

-----------------------------------------------------------------------------
(* struct ProcessNodesList: queries                                        *)

ContainsProcess(ns, pid) == Holding(ns, pid) # {}

GetProcessOwner(ns, pid) ==
  IF Holding(ns, pid) = {} THEN NoPid ELSE ns[First(Holding(ns, pid))].rootPid

GetFileOwner(ns, fileId) ==
  IF Owning(ns, fileId) = {} THEN NoPid ELSE ns[First(Owning(ns, fileId))].rootPid

-----------------------------------------------------------------------------
(* struct ProcessNodesList: updates                                        *)

\* Fault: the array gets shorter, but the last node is not moved first.
DestroyNodeIfEmptyUnmoved(ns, i) ==
  IF IsEmptyNode(ns[i]) THEN [j \in 1 .. Len(ns) - 1 |-> ns[j]] ELSE ns

\* An empty node is overwritten by the last one and the array gets shorter.
DestroyNodeIfEmpty(ns, i) ==
  IF IsEmptyNode(ns[i])
  THEN [j \in 1 .. Len(ns) - 1 |-> IF j = i THEN ns[Len(ns)] ELSE ns[j]]
  ELSE ns

\* Fault: process 0 can be watched.
AddProcessNodeStatusOfZero(ns, pid) ==
  IF ContainsProcess(ns, pid) THEN "ADD_FORBIDDEN"
  ELSE IF Len(ns) >= MaxNodes THEN "ADD_LIMIT_EXHAUSTED"
  ELSE "ADD_OK"

\* Fault: a process that a tree holds becomes the root of another.
AddProcessNodeStatusAgain(ns, pid) ==
  IF pid = NoPid THEN "ADD_INVALID_ITEM"
  ELSE IF Len(ns) >= MaxNodes THEN "ADD_LIMIT_EXHAUSTED"
  ELSE "ADD_OK"

\* Fault: a process that a tree holds is reported as added already.
AddProcessNodeStatusExists(ns, pid) ==
  IF pid = NoPid THEN "ADD_INVALID_ITEM"
  ELSE IF ContainsProcess(ns, pid) THEN "ADD_ALREADY_EXIST"
  ELSE IF Len(ns) >= MaxNodes THEN "ADD_LIMIT_EXHAUSTED"
  ELSE "ADD_OK"

AddProcessNodeStatus(ns, pid) ==
  IF pid = NoPid THEN "ADD_INVALID_ITEM"
  ELSE IF ContainsProcess(ns, pid) THEN "ADD_FORBIDDEN"
  ELSE IF Len(ns) >= MaxNodes THEN "ADD_LIMIT_EXHAUSTED"
  ELSE "ADD_OK"

AddProcessNode(ns, pid, imgFile, respawnProtect) ==
  IF AddProcessNodeStatus(ns, pid) # "ADD_OK" THEN ns
  ELSE Append(ns, [ rootPid        |-> pid,
                    imgFile        |-> imgFile,
                    processList    |-> {pid},
                    filesList      |-> {},
                    respawnProtect |-> respawnProtect ])

\* A node whose root is the parent is preferred to one that only holds it.
TreesOf(ns, parentPid) ==
  IF RootedAt(ns, parentPid) # {} THEN RootedAt(ns, parentPid)
                                  ELSE Holding(ns, parentPid)

AddProcessStatus(ns, pid, parentPid) ==
  IF pid = NoPid THEN "ADD_INVALID_ITEM"
  ELSE IF parentPid = NoPid \/ TreesOf(ns, parentPid) = {} THEN "ADD_NO_PARENT"
  ELSE NodeAddProcessStatus(ns[First(TreesOf(ns, parentPid))], pid)

AddProcess(ns, pid, parentPid) ==
  IF AddProcessStatus(ns, pid, parentPid) # "ADD_OK" THEN ns
  ELSE [ns EXCEPT ![First(TreesOf(ns, parentPid))].processList = @ \cup {pid}]

DeleteProcess(ns, pid) ==
  LET i == First(Holding(ns, pid))
  IN  IF ~ContainsProcess(ns, pid) THEN ns
      ELSE DestroyNodeIfEmpty([ns EXCEPT ![i].processList = @ \ {pid}], i)

\* deletionEvent is set when the node is dead once the process is off it.
DeletionSetsEvent(ns, pid) ==
  LET n == ns[First(Holding(ns, pid))]
  IN  ContainsProcess(ns, pid) /\ n.rootPid \notin n.processList \ {pid}

\* Fault: the node that lost its last file is not destroyed.
DeleteFileKeepingNode(ns, fileId) ==
  IF Owning(ns, fileId) = {} THEN ns
  ELSE [ns EXCEPT ![First(Owning(ns, fileId))].filesList = @ \ {fileId}]

DeleteFile(ns, fileId) ==
  LET i == First(Owning(ns, fileId))
  IN  IF Owning(ns, fileId) = {} THEN ns
      ELSE DestroyNodeIfEmpty([ns EXCEPT ![i].filesList = @ \ {fileId}], i)

CanAddFileStatus(ns, parentPid) ==
  IF Holding(ns, parentPid) = {} THEN "ADD_NO_PARENT"
  ELSE IF NodeCanAddFile(ns[First(Holding(ns, parentPid))]) THEN "ADD_OK"
  ELSE "ADD_LIMIT_EXHAUSTED"

\* Fault: a file of another tree that is alive stays with it and is added too.
PreviousAssociationIgnored(ns, fileId, excludedPid) ==
  LET n == ns[First(Owning(ns, fileId))]
  IN  IF Owning(ns, fileId) = {} THEN "DELETE_NOT_FOUND"
      ELSE IF IsDeadNode(n) /\ n.processList = {} THEN "DELETE_OK"
      ELSE "DELETE_EXCLUDED"

\* Fault: the tree that loses the file need not be dead.
PreviousAssociationStolen(ns, fileId, excludedPid) ==
  LET n == ns[First(Owning(ns, fileId))]
  IN  IF Owning(ns, fileId) = {} THEN "DELETE_NOT_FOUND"
      ELSE IF excludedPid \in n.processList THEN "DELETE_EXCLUDED"
      ELSE "DELETE_OK"

PreviousAssociation(ns, fileId, excludedPid) ==
  LET n == ns[First(Owning(ns, fileId))]
  IN  IF Owning(ns, fileId) = {} THEN "DELETE_NOT_FOUND"
      ELSE IF IsDeadNode(n) /\ n.processList = {} THEN "DELETE_OK"
      ELSE IF excludedPid \in n.processList THEN "DELETE_EXCLUDED"
      ELSE "DELETE_FORBIDDEN"

DeletePreviousAssociation(ns, fileId, excludedPid) ==
  IF PreviousAssociation(ns, fileId, excludedPid) = "DELETE_OK"
  THEN DeleteFile(ns, fileId)
  ELSE ns

\* What AddFile tests before it changes anything.
FileAdmission(ns, fileId, parentPid) ==
  LET canAdd == CanAddFileStatus(ns, parentPid)
  IN  IF parentPid = NoPid \/ fileId = NoFile \/ canAdd = "ADD_NO_PARENT"
      THEN "ADD_INVALID_ITEM"
      ELSE IF canAdd # "ADD_OK" THEN canAdd
      ELSE IF PreviousAssociation(ns, fileId, parentPid) = "DELETE_FORBIDDEN"
      THEN "ADD_FORBIDDEN"
      ELSE "ADD_OK"

AddFileStatus(ns, fileId, parentPid) ==
  LET left == DeletePreviousAssociation(ns, fileId, parentPid)
  IN  IF FileAdmission(ns, fileId, parentPid) # "ADD_OK"
      THEN FileAdmission(ns, fileId, parentPid)
      ELSE NodeAddFileStatus(left[First(Holding(left, parentPid))], fileId)

AddFile(ns, fileId, parentPid) ==
  LET left == DeletePreviousAssociation(ns, fileId, parentPid)
      i    == First(Holding(left, parentPid))
  IN  IF FileAdmission(ns, fileId, parentPid) # "ADD_OK" THEN ns
      ELSE IF AddFileStatus(ns, fileId, parentPid) # "ADD_OK" THEN left
      ELSE [left EXCEPT ![i].filesList = @ \cup {fileId}]
=============================================================================
