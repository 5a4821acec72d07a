--------------------------- MODULE FileWatchProofs ---------------------------
(***************************************************************************)
(* Theorems about the minifilter, for any processes, files and requests:   *)
(* what is on the list of files against what there is on the disk.  The    *)
(* argument is about handles: an operation that attaches a context or puts *)
(* a file on the list has the file open, so that the file is not gone, and *)
(* the cleanup that closes the last handle of a deleted file is the one    *)
(* that takes it off the list.                                             *)
(***************************************************************************)
EXTENDS FileWatch, ProcessNodesProofs

-----------------------------------------------------------------------------
(* What the updates do to the files on the list                            *)

\* But for the files of S, no file of r is new.
NoFileNewBut(r, ns, S) ==
  \A f : f \notin S /\ Owning(ns, f) = {} => Owning(r, f) = {}

\* A file is lost only with a tree that does not protect it, and that has no
\* process in r.
LostWithTree(r, ns, f) ==
  Owning(ns, f) # {} /\ Owning(r, f) = {} =>
    \E i \in Owning(ns, f) :
      /\ Unprotected(ns[i], f)
      /\ \A q \in ns[i].processList : ~ContainsProcess(r, q)

LEMMA OwnedIff ==
  ASSUME NEW ns, NEW f
  PROVE  Owning(ns, f) # {} <=> \E i \in DOMAIN ns : f \in ns[i].filesList
BY DEF Owning

\* A node that shrinks, and goes if it is empty then, loses its other files
\* with it only when it does not protect them.
LEMMA ShrinkOwns ==
  ASSUME NEW ns \in Seq(ProcessNode), NEW i \in DOMAIN ns, NEW m \in ProcessNode,
         m.rootPid = ns[i].rootPid, m.imgFile = ns[i].imgFile,
         m.respawnProtect = ns[i].respawnProtect, m.filesList \subseteq ns[i].filesList,
         NEW r, r = DestroyNodeIfEmpty([ns EXCEPT ![i] = m], i)
  PROVE  /\ NoFileNewBut(r, ns, {})
         /\ \A f : f \in m.filesList /\ Owning(r, f) = {} =>
              m.processList = {} /\ Unprotected(ns[i], f)
         /\ \A f : f \notin ns[i].filesList /\ Owning(ns, f) # {} => Owning(r, f) # {}
         /\ \A f : Disjoint(ns) /\ f \in ns[i].filesList \ m.filesList => Owning(r, f) = {}
<1>. DEFINE e == [ns EXCEPT ![i] = m]
<1>1. /\ e \in Seq(ProcessNode) /\ DOMAIN e = DOMAIN ns /\ i \in DOMAIN e
      /\ e[i] = m /\ \A a \in DOMAIN ns : a # i => e[a] = ns[a]
  BY ExceptSeq, ArrayIndices
<1>. HIDE DEF e
<1>2. r = DestroyNodeIfEmpty(e, i)
  BY DEF e
<1>3. /\ \A j \in DOMAIN r : \E a \in DOMAIN e : r[j] = e[a]
      /\ \A a \in DOMAIN e : (a # i \/ ~IsEmptyNode(e[i])) => \E j \in DOMAIN r : r[j] = e[a]
  <2>1. /\ \A j \in DOMAIN r : \E a \in DOMAIN e :
              r[j] = e[a] /\ (IsEmptyNode(r[j]) => a # i)
        /\ \A a \in DOMAIN e : (a # i \/ ~IsEmptyNode(e[i])) => \E j \in DOMAIN r : r[j] = e[a]
    BY ONLY <1>1, <1>2, DestroyNodeIfEmptyKeepsNodes
  <2>. QED
    BY <2>1
<1>4. ASSUME NEW f, NEW j \in DOMAIN r, f \in r[j].filesList
      PROVE  \E a \in DOMAIN ns : f \in ns[a].filesList /\ (a = i => f \in m.filesList)
  <2>1. PICK a \in DOMAIN e : r[j] = e[a]
    BY <1>3
  <2>. QED
    BY <1>1, <1>4, <2>1
<1>5. NoFileNewBut(r, ns, {})
  BY <1>4, OwnedIff DEF NoFileNewBut
<1>6. ASSUME NEW f, f \in m.filesList, Owning(r, f) = {}
      PROVE  m.processList = {} /\ Unprotected(ns[i], f)
  <2>1. IsEmptyNode(m)
    BY <1>1, <1>3, <1>6, OwnedIff
  <2>. QED
    BY <1>6, <2>1 DEF IsEmptyNode, Unprotected
<1>7. ASSUME NEW f, f \notin ns[i].filesList, Owning(ns, f) # {}
      PROVE  Owning(r, f) # {}
  <2>1. PICK a \in DOMAIN ns : f \in ns[a].filesList
    BY <1>7, OwnedIff
  <2>2. PICK j \in DOMAIN r : r[j] = e[a]
    BY <1>1, <1>3, <1>7, <2>1
  <2>3. f \in r[j].filesList
    BY <1>1, <1>7, <2>1, <2>2
  <2>. QED
    BY <2>3, OwnedIff
<1>8. ASSUME NEW f, Disjoint(ns), f \in ns[i].filesList \ m.filesList
      PROVE  Owning(r, f) = {}
  <2>. SUFFICES ASSUME NEW j \in DOMAIN r, f \in r[j].filesList PROVE FALSE
    BY OwnedIff
  <2>1. PICK a \in DOMAIN ns : f \in ns[a].filesList /\ (a = i => f \in m.filesList)
    BY <1>4
  <2>. QED
    BY <1>8, <2>1 DEF Disjoint
<1>. QED
  BY <1>5, <1>6, <1>7, <1>8

LEMMA DeleteFileOwns ==
  ASSUME NEW ns \in Seq(ProcessNode), NEW fileId, NEW r, r = DeleteFile(ns, fileId)
  PROVE  /\ NoFileNewBut(r, ns, {})
         /\ Disjoint(ns) => Owning(r, fileId) = {}
         /\ \A f : f # fileId => LostWithTree(r, ns, f)
<1>. DEFINE i == First(Owning(ns, fileId))
            m == [ns[i] EXCEPT !.filesList = @ \ {fileId}]
<1>1. CASE Owning(ns, fileId) = {}
  BY <1>1 DEF DeleteFile, NoFileNewBut, LostWithTree
<1>2. CASE Owning(ns, fileId) # {}
  <2>1. r = DestroyNodeIfEmpty([ns EXCEPT ![i] = m], i)
    BY <1>2 DEF DeleteFile
  <2>2. i \in DOMAIN ns /\ ns[i] \in ProcessNode /\ fileId \in ns[i].filesList
    BY <1>2, FirstMatch, ArrayIndices
  <2>. HIDE DEF i
  <2>3. /\ m \in ProcessNode /\ m.rootPid = ns[i].rootPid /\ m.imgFile = ns[i].imgFile
        /\ m.respawnProtect = ns[i].respawnProtect /\ m.processList = ns[i].processList
        /\ m.filesList = ns[i].filesList \ {fileId}
    BY <2>2 DEF ProcessNode
  <2>. HIDE DEF m
  <2>4. m.filesList \subseteq ns[i].filesList
    BY <2>3
  <2>5. /\ NoFileNewBut(r, ns, {})
        /\ \A f : f \in m.filesList /\ Owning(r, f) = {} =>
             m.processList = {} /\ Unprotected(ns[i], f)
        /\ \A f : f \notin ns[i].filesList /\ Owning(ns, f) # {} => Owning(r, f) # {}
        /\ \A f : Disjoint(ns) /\ f \in ns[i].filesList \ m.filesList => Owning(r, f) = {}
    BY <2>1, <2>2, <2>3, <2>4, ShrinkOwns
  <2>6. ASSUME NEW f, f # fileId, Owning(ns, f) # {}, Owning(r, f) = {}
        PROVE  i \in Owning(ns, f) /\ Unprotected(ns[i], f) /\ ns[i].processList = {}
    <3>1. f \in ns[i].filesList
      BY <2>5, <2>6
    <3>2. f \in m.filesList
      BY <2>3, <2>6, <3>1
    <3>. QED
      BY <2>2, <2>3, <2>5, <2>6, <3>1, <3>2 DEF Owning
  <2>. QED
    BY <2>2, <2>3, <2>5, <2>6 DEF LostWithTree
<1>. QED
  BY <1>1, <1>2

LEMMA DeleteProcessOwns ==
  ASSUME NEW ns \in Seq(ProcessNode), Disjoint(ns), NEW pid, NEW r, r = DeleteProcess(ns, pid)
  PROVE  /\ NoFileNewBut(r, ns, {})
         /\ \A f : LostWithTree(r, ns, f)
<1>. DEFINE i == First(Holding(ns, pid))
            m == [ns[i] EXCEPT !.processList = @ \ {pid}]
<1>1. CASE ~ContainsProcess(ns, pid)
  BY <1>1 DEF DeleteProcess, NoFileNewBut, LostWithTree
<1>2. CASE ContainsProcess(ns, pid)
  <2>1. r = DestroyNodeIfEmpty([ns EXCEPT ![i] = m], i)
    BY <1>2 DEF DeleteProcess
  <2>2. i \in DOMAIN ns /\ ns[i] \in ProcessNode
    BY <1>2, FirstMatch, ArrayIndices DEF ContainsProcess
  <2>. HIDE DEF i
  <2>3. /\ m \in ProcessNode /\ m.rootPid = ns[i].rootPid /\ m.imgFile = ns[i].imgFile
        /\ m.respawnProtect = ns[i].respawnProtect /\ m.filesList = ns[i].filesList
        /\ m.processList = ns[i].processList \ {pid}
    BY <2>2 DEF ProcessNode
  <2>. HIDE DEF m
  <2>4. m.filesList \subseteq ns[i].filesList
    BY <2>3
  <2>5. /\ NoFileNewBut(r, ns, {})
        /\ \A f : f \in m.filesList /\ Owning(r, f) = {} =>
             m.processList = {} /\ Unprotected(ns[i], f)
        /\ \A f : f \notin ns[i].filesList /\ Owning(ns, f) # {} => Owning(r, f) # {}
        /\ \A f : Disjoint(ns) /\ f \in ns[i].filesList \ m.filesList => Owning(r, f) = {}
    BY <2>1, <2>2, <2>3, <2>4, ShrinkOwns
  <2>6. ~ContainsProcess(r, pid)
    BY DeleteProcessKeeps
  <2>7. ASSUME NEW f, Owning(ns, f) # {}, Owning(r, f) = {}
        PROVE  /\ i \in Owning(ns, f) /\ Unprotected(ns[i], f)
               /\ \A q \in ns[i].processList : ~ContainsProcess(r, q)
    <3>1. f \in ns[i].filesList
      BY <2>5, <2>7
    <3>2. m.processList = {} /\ Unprotected(ns[i], f)
      BY <2>3, <2>5, <2>7, <3>1
    <3>. QED
      BY <2>2, <2>3, <2>6, <3>1, <3>2 DEF Owning
  <2>. QED
    BY <2>5, <2>7 DEF LostWithTree
<1>. QED
  BY <1>1, <1>2

LEMMA AddProcessOwns ==
  ASSUME NEW ns \in Seq(ProcessNode), NEW pid, NEW parentPid, NEW f
  PROVE  Owning(AddProcess(ns, pid, parentPid), f) = Owning(ns, f)
<1>. DEFINE i == First(TreesOf(ns, parentPid))
            r == AddProcess(ns, pid, parentPid)
<1>1. CASE AddProcessStatus(ns, pid, parentPid) # "ADD_OK"
  BY <1>1 DEF AddProcess
<1>2. CASE AddProcessStatus(ns, pid, parentPid) = "ADD_OK"
  <2>1. TreesOf(ns, parentPid) # {}
    BY <1>2 DEF AddProcessStatus
  <2>2. i \in DOMAIN ns /\ ns[i] \in ProcessNode
    BY <2>1, FirstMatch, ArrayIndices
  <2>3. r = [ns EXCEPT ![i].processList = @ \cup {pid}]
    BY <1>2 DEF AddProcess
  <2>. HIDE DEF i, r
  <2>4. DOMAIN r = DOMAIN ns /\ \A j \in DOMAIN r : r[j].filesList = ns[j].filesList
    BY <2>2, <2>3, ArrayIndices DEF ProcessNode
  <2>5. Owning(r, f) = Owning(ns, f)
    BY <2>4 DEF Owning
  <2>. QED
    BY <2>5 DEF r
<1>. QED
  BY <1>1, <1>2

\* A new node has no files yet, and does not move the others.
LEMMA AddProcessNodeOwns ==
  ASSUME NEW ns \in Seq(ProcessNode), NEW pid \in Pids,
         NEW imgFile \in Files \cup {NoFile}, NEW noresp \in t_noresp,
         NEW r, r = AddProcessNode(ns, pid, imgFile, noresp), NEW f
  PROVE  Owning(r, f) = Owning(ns, f) /\ \A i \in Owning(ns, f) : r[i] = ns[i]
<1>. DEFINE n == [ rootPid |-> pid, imgFile |-> imgFile, processList |-> {pid},
                   filesList |-> {}, respawnProtect |-> noresp ]
<1>1. CASE AddProcessNodeStatus(ns, pid) # "ADD_OK"
  BY <1>1 DEF AddProcessNode
<1>2. CASE AddProcessNodeStatus(ns, pid) = "ADD_OK"
  <2>1. r = Append(ns, n)
    BY <1>2 DEF AddProcessNode
  <2>2. n \in ProcessNode /\ n.filesList = {}
    BY DEF ProcessNode
  <2>. HIDE DEF n
  <2>3. Len(ns) \in Nat /\ DOMAIN ns = 1 .. Len(ns)
    BY ArrayIndices
  <2>4. /\ r \in Seq(ProcessNode) /\ Len(r) = Len(ns) + 1
        /\ \A j \in 1 .. Len(ns) : r[j] = ns[j]
        /\ r[Len(ns) + 1] = n
    BY <2>1, <2>2, AppendProperties
  <2>5. DOMAIN r = 1 .. Len(ns) + 1
    BY <2>4, LenProperties
  <2>6. \A j \in DOMAIN r : (j \in DOMAIN ns /\ r[j] = ns[j]) \/ (j \notin DOMAIN ns /\ r[j] = n)
    BY <2>3, <2>4, <2>5
  <2>7. DOMAIN ns \subseteq DOMAIN r
    BY <2>3, <2>5
  <2>. QED
    BY <2>2, <2>6, <2>7 DEF Owning
<1>. QED
  BY <1>1, <1>2

\* AddFile reports that a file is there only when it is, with the parent.
LEMMA AddFileTells ==
  ASSUME NEW ns \in Seq(ProcessNode), NEW fileId, NEW parentPid,
         AddFileStatus(ns, fileId, parentPid) \in {"ADD_OK", "ADD_ALREADY_EXIST"}
  PROVE  OwnedWith(AddFile(ns, fileId, parentPid), parentPid, fileId)
<1>. DEFINE left == DeletePreviousAssociation(ns, fileId, parentPid)
            i == First(Holding(left, parentPid))
            r == AddFile(ns, fileId, parentPid)
<1>1. FileAdmission(ns, fileId, parentPid) \in
        {"ADD_OK", "ADD_INVALID_ITEM", "ADD_LIMIT_EXHAUSTED", "ADD_NO_PARENT", "ADD_FORBIDDEN"}
  BY DEF FileAdmission, CanAddFileStatus
<1>2. FileAdmission(ns, fileId, parentPid) = "ADD_OK"
  BY <1>1 DEF AddFileStatus
<1>3. Holding(ns, parentPid) # {}
  BY <1>2 DEF FileAdmission, CanAddFileStatus
<1>4. Holding(left, parentPid) # {}
  BY <1>3, DeletePreviousAssociationKeepsHolder
<1>5. left \in Seq(ProcessNode)
  BY DeleteFileKeeps DEF DeletePreviousAssociation
<1>6. AddFileStatus(ns, fileId, parentPid) = NodeAddFileStatus(left[i], fileId)
  BY <1>2 DEF AddFileStatus
<1>7. r = IF AddFileStatus(ns, fileId, parentPid) # "ADD_OK" THEN left
          ELSE [left EXCEPT ![i].filesList = @ \cup {fileId}]
  BY <1>2 DEF AddFile
<1>. HIDE DEF left, r
<1>8. i \in DOMAIN left /\ parentPid \in left[i].processList /\ left[i] \in ProcessNode
  BY <1>4, <1>5, FirstMatch, ArrayIndices
<1>. HIDE DEF i
<1>9. CASE AddFileStatus(ns, fileId, parentPid) = "ADD_OK"
  <2>1. r[i].filesList = left[i].filesList \cup {fileId} /\ r[i].processList = left[i].processList
        /\ i \in DOMAIN r
    BY <1>5, <1>7, <1>8, <1>9, ArrayIndices DEF ProcessNode
  <2>. QED
    BY <1>8, <2>1 DEF OwnedWith, r
<1>10. CASE AddFileStatus(ns, fileId, parentPid) = "ADD_ALREADY_EXIST"
  <2>1. fileId \in left[i].filesList
    BY <1>6, <1>10 DEF NodeAddFileStatus, AddItemStatus
  <2>. QED
    BY <1>7, <1>8, <1>10, <2>1 DEF OwnedWith, r
<1>. QED
  BY <1>9, <1>10

\* A file that is taken from a dead tree is given to the parent's: the tests of
\* AddFile before the deletion leave nothing to fail after it.
LEMMA MovedFileIsAdded ==
  ASSUME NEW ns, Sound(ns), Disjoint(ns), NEW fileId \in Files \cup {NoFile}, NEW parentPid,
         FileAdmission(ns, fileId, parentPid) = "ADD_OK",
         PreviousAssociation(ns, fileId, parentPid) = "DELETE_OK"
  PROVE  AddFileStatus(ns, fileId, parentPid) = "ADD_OK"
<1>. DEFINE left == DeletePreviousAssociation(ns, fileId, parentPid)
            i == First(Holding(left, parentPid))
            h == First(Holding(ns, parentPid))
            o == First(Owning(ns, fileId))
            m == [ns[o] EXCEPT !.filesList = @ \ {fileId}]
            e == [ns EXCEPT ![o] = m]
<1>1. ns \in Seq(ProcessNode)
  BY DEF Sound
<1>2. /\ Holding(ns, parentPid) # {} /\ NodeCanAddFile(ns[h])
      /\ Owning(ns, fileId) # {} /\ ns[o].processList = {}
  BY DEF FileAdmission, CanAddFileStatus, PreviousAssociation
<1>3. left = DestroyNodeIfEmpty(e, o)
  BY <1>2 DEF DeletePreviousAssociation, DeleteFile
<1>4. AddFileStatus(ns, fileId, parentPid) = NodeAddFileStatus(left[i], fileId)
  BY DEF AddFileStatus
<1>5. /\ left \in Seq(ProcessNode) /\ Holding(left, parentPid) # {}
  BY <1>1, <1>2, DeletePreviousAssociationKeepsHolder, DeleteFileKeeps DEF DeletePreviousAssociation
<1>6. /\ h \in DOMAIN ns /\ parentPid \in ns[h].processList
      /\ o \in DOMAIN ns /\ fileId \in ns[o].filesList
      /\ ns[o] \in ProcessNode /\ ns[h] \in ProcessNode
  BY <1>1, <1>2, FirstMatch, ArrayIndices
<1>. HIDE DEF left
<1>7. i \in DOMAIN left /\ parentPid \in left[i].processList
  BY <1>5, FirstMatch
<1>. HIDE DEF i, h, o
<1>8. m \in ProcessNode /\ m.processList = ns[o].processList
  BY <1>6 DEF ProcessNode
<1>. HIDE DEF m
<1>9. /\ e \in Seq(ProcessNode) /\ DOMAIN e = DOMAIN ns /\ o \in DOMAIN e
      /\ e[o] = m /\ \A a \in DOMAIN ns : a # o => e[a] = ns[a]
  BY <1>1, <1>6, <1>8, ExceptSeq, ArrayIndices
<1>. HIDE DEF e
<1>10. PICK a \in DOMAIN e : left[i] = e[a]
  BY <1>3, <1>7, <1>9, DestroyNodeIfEmptyKeepsNodes
<1>11. a # o /\ left[i] = ns[a] /\ parentPid \in ns[a].processList
  BY <1>2, <1>7, <1>8, <1>9, <1>10
<1>12. a = h /\ h # o
  BY <1>2, <1>6, <1>9, <1>11 DEF Disjoint
<1>13. fileId \notin ns[h].filesList
  BY <1>6, <1>12 DEF Disjoint
<1>14. ~IsDeadNode(ns[h]) /\ Cardinality(ns[h].filesList) < MaxItems
       /\ Cardinality(ns[h].filesList) \in Nat
  BY <1>2, <1>6, NodeListsFinite, FS_CardinalityType DEF NodeCanAddFile
<1>15. AddItemStatus(ns[h].filesList, fileId) = "ADD_OK"
  BY <1>13, <1>14, LimitAssumption DEF AddItemStatus
<1>. QED
  BY <1>4, <1>11, <1>12, <1>14, <1>15 DEF NodeAddFileStatus

LEMMA AddFileOwns ==
  ASSUME NEW ns, Sound(ns), Disjoint(ns), NEW fileId \in Files \cup {NoFile}, NEW parentPid,
         NEW r, r = AddFile(ns, fileId, parentPid)
  PROVE  /\ NoFileNewBut(r, ns, {fileId})
         /\ \A f : LostWithTree(r, ns, f)
<1>. DEFINE left == DeletePreviousAssociation(ns, fileId, parentPid)
            i == First(Holding(left, parentPid))
<1>1. ns \in Seq(ProcessNode)
  BY DEF Sound
<1>2. CASE r = ns
  BY <1>2 DEF NoFileNewBut, LostWithTree
<1>3. CASE r # ns
  <2>1. FileAdmission(ns, fileId, parentPid) = "ADD_OK"
    BY <1>3 DEF AddFile
  <2>2. /\ NoFileNewBut(left, ns, {})
        /\ \A f : f # fileId => LostWithTree(left, ns, f)
        /\ left \in Seq(ProcessNode)
        /\ left # ns => PreviousAssociation(ns, fileId, parentPid) = "DELETE_OK"
    <3>1. CASE PreviousAssociation(ns, fileId, parentPid) = "DELETE_OK"
      <4>1. left = DeleteFile(ns, fileId)
        BY <3>1 DEF DeletePreviousAssociation
      <4>. QED
        BY <1>1, <3>1, <4>1, DeleteFileOwns, DeleteFileKeeps
    <3>2. CASE PreviousAssociation(ns, fileId, parentPid) # "DELETE_OK"
      <4>1. left = ns
        BY <3>2 DEF DeletePreviousAssociation
      <4>. QED
        BY <1>1, <4>1 DEF NoFileNewBut, LostWithTree
    <3>. QED
      BY <3>1, <3>2
  <2>3. AddFileStatus(ns, fileId, parentPid) = "ADD_OK"
    <3>1. CASE left = ns
      BY <1>3, <2>1, <3>1 DEF AddFile
    <3>2. CASE left # ns
      BY <2>1, <2>2, <3>2, MovedFileIsAdded
    <3>. QED
      BY <3>1, <3>2
  <2>4. r = [left EXCEPT ![i].filesList = @ \cup {fileId}]
    BY <2>1, <2>3 DEF AddFile
  <2>5. Holding(left, parentPid) # {}
    BY <1>1, <2>1, DeletePreviousAssociationKeepsHolder DEF FileAdmission, CanAddFileStatus
  <2>. HIDE DEF left
  <2>6. i \in DOMAIN left /\ left[i] \in ProcessNode
    BY <2>2, <2>5, FirstMatch, ArrayIndices
  <2>. HIDE DEF i
  <2>7. /\ DOMAIN r = DOMAIN left
        /\ \A j \in DOMAIN r : r[j].processList = left[j].processList
        /\ \A j \in DOMAIN r : j # i => r[j].filesList = left[j].filesList
        /\ r[i].filesList = left[i].filesList \cup {fileId}
    BY <2>2, <2>4, <2>6, ArrayIndices DEF ProcessNode
  <2>8. \A f : f # fileId => Owning(r, f) = Owning(left, f)
    BY <2>6, <2>7 DEF Owning
  <2>9. \A q : ContainsProcess(r, q) <=> ContainsProcess(left, q)
    BY <2>7 DEF ContainsProcess, Holding
  <2>10. Owning(r, fileId) # {}
    BY <2>6, <2>7 DEF Owning
  <2>. QED
    BY <2>2, <2>8, <2>9, <2>10 DEF NoFileNewBut, LostWithTree
<1>. QED
  BY <1>2, <1>3

-----------------------------------------------------------------------------
(* The invariant                                                           *)

\* Statements that a thread reaches with its file open.
HoldsFileOpen ==
  {"post", "postId", "addFile", "addContext", "setWatched", "setId", "setOwner", "set",
   "cleanup", "closeOwner", "closeContext", "close"}

Statements ==
  HoldsFileOpen \cup
  {"idle", "execId", "execWatched", "execOwner", "watched", "size", "canAddFile", "fileId",
   "owner", "create", "createSync", "postCleanup", "fileIdByPath", "fileOwner",
   "requestDeletion"}

Thread ==
  [ pc : Statements, file : Files \cup {NoFile}, disp : Dispositions, write : BOOLEAN,
    fileId : Files \cup {NoFile}, info : {"opened", "overwritten", "created"},
    pid : Pids \cup {NoPid}, then : {"idle", "fileOwner"} ]

ThreadSound(t) ==
  /\ t \in Thread
  /\ t.fileId \in {t.file, NoFile}
  /\ t.pc = "idle" <=> t.file = NoFile
  /\ t.pc = "addFile" => t.fileId = t.file

HasItOpen(t, p, hs) ==
  t.pc \in HoldsFileOpen => \E h \in hs : h.by = p /\ h.file = t.file

FilesSound ==
  /\ disk \in [Files -> {"unborn", "empty", "data", "gone", "cancelled"}]
  /\ pending \subseteq {h.file : h \in handles}
  /\ handles \subseteq [by : Actors, file : {f \in Files : Exists(f)}, write : BOOLEAN]
  /\ contexts \subseteq Files

ThreadsSound ==
  /\ io \in [Actors -> Thread]
  /\ \A p \in Actors : ThreadSound(io[p]) /\ HasItOpen(io[p], p, handles)

IInv ==
  /\ Sound(nodes) /\ Disjoint(nodes)
  /\ FilesSound
  /\ ThreadsSound
  /\ DeletedFileLeavesList

LEMMA IdleSound == ThreadSound(Idle) /\ \A p, hs : HasItOpen(Idle, p, hs)
BY SentinelAssumption DEF Idle, ThreadSound, Thread, Statements, HoldsFileOpen, HasItOpen,
   Dispositions

LEMMA InitInv == Init => IInv
<1>. SUFFICES ASSUME Init PROVE IInv
  OBVIOUS
<1>1. Sound(nodes) /\ Disjoint(nodes)
  <2>1. << >> \in Seq(ProcessNode) /\ Len(<< >>) = 0 /\ DOMAIN << >> = {}
    BY EmptySeq
  <2>. QED
    BY <2>1, LimitAssumption DEF Init, Sound, Disjoint
<1>2. FilesSound
  BY DEF Init, FilesSound
<1>3. ThreadsSound
  BY IdleSound DEF Init, ThreadsSound, ThreadSound
<1>4. DeletedFileLeavesList
  BY DEF Init, DeletedFileLeavesList
<1>. QED
  BY <1>1, <1>2, <1>3, <1>4 DEF IInv

\* A step of one thread, which closes no handle of another.
LEMMA ThreadStep ==
  ASSUME ThreadsSound, NEW p \in Actors, NEW t, io' = [io EXCEPT ![p] = t],
         ThreadSound(t), HasItOpen(t, p, handles'),
         \A h \in handles : h.by # p => h \in handles'
  PROVE  ThreadsSound'
<1>1. t \in Thread
  BY DEF ThreadSound
<1>2. io' \in [Actors -> Thread] /\ io'[p] = t /\ \A q \in Actors : q # p => io'[q] = io[q]
  BY <1>1 DEF ThreadsSound
<1>3. ASSUME NEW q \in Actors, q # p PROVE HasItOpen(io[q], q, handles')
  BY <1>3 DEF ThreadsSound, HasItOpen
<1>4. ASSUME NEW q \in Actors PROVE ThreadSound(io'[q]) /\ HasItOpen(io'[q], q, handles')
  BY <1>2, <1>3 DEF ThreadsSound
<1>. QED
  BY <1>2, <1>4 DEF ThreadsSound

\* A step that changes neither the list nor the file system.
LEMMA QuietStep ==
  ASSUME IInv, NEW p \in Actors, NEW t, io' = [io EXCEPT ![p] = t],
         ThreadSound(t), HasItOpen(t, p, handles), io[p].pc # "postCleanup",
         UNCHANGED <<nodes, fsys>>
  PROVE  IInv'
<1>1. UNCHANGED <<nodes, disk, pending, handles, contexts>>
  BY DEF fsys
<1>2. ThreadsSound'
  BY <1>1, ThreadStep DEF IInv
<1>3. FilesSound'
  BY <1>1 DEF IInv, FilesSound, Exists
<1>4. DeletedFileLeavesList'
  <2>1. ASSUME NEW f \in contexts, \A q \in Actors : io'[q].pc = "postCleanup" => io'[q].file # f,
               NEW q \in Actors, io[q].pc = "postCleanup"
        PROVE  io[q].file # f
    <3>1. io'[q] = io[q]
      BY <2>1 DEF IInv, ThreadsSound
    <3>. QED
      BY <2>1, <3>1
  <2>. QED
    BY <1>1, <2>1 DEF IInv, DeletedFileLeavesList
<1>. QED
  BY <1>1, <1>2, <1>3, <1>4 DEF IInv

\* A step that changes the list alone.
LEMMA ListStep ==
  ASSUME IInv, Sound(nodes'), Disjoint(nodes'), UNCHANGED <<fsys, io>>,
         \A f \in Files : disk[f] = "gone" /\ Owning(nodes, f) = {} => Owning(nodes', f) = {}
  PROVE  IInv'
<1>1. UNCHANGED <<disk, pending, handles, contexts, io>>
  BY DEF fsys
<1>2. FilesSound' /\ ThreadsSound'
  BY <1>1 DEF IInv, FilesSound, ThreadsSound, Exists
<1>3. DeletedFileLeavesList'
  BY <1>1 DEF IInv, DeletedFileLeavesList, FilesSound
<1>. QED
  BY <1>2, <1>3 DEF IInv

\* A file that a thread has open exists.
LEMMA OpenExists ==
  ASSUME IInv, NEW p \in Actors, io[p].pc \in HoldsFileOpen
  PROVE  /\ io[p].file \in Files /\ Exists(io[p].file)
         /\ disk[io[p].file] # "gone"
         /\ HandleOf(p, io[p].file) # {}
<1>1. PICK h \in handles : h.by = p /\ h.file = io[p].file
  BY DEF IInv, ThreadsSound, HasItOpen
<1>. QED
  BY <1>1 DEF IInv, FilesSound, Exists, HandleOf

\* A step that takes no file off the list: a file is gone after it only if it
\* was before, or if the cleanup that deleted it is not over.
LEMMA FilesStep ==
  ASSUME IInv, UNCHANGED nodes, FilesSound', ThreadsSound',
         \A f \in contexts' : disk'[f] = "gone" =>
           \/ f \in contexts /\ disk[f] = "gone"
           \/ \E q \in Actors : io'[q].pc = "postCleanup" /\ io'[q].file = f,
         \A q \in Actors : io[q].pc = "postCleanup" => io'[q] = io[q]
  PROVE  IInv'
<1>1. DeletedFileLeavesList'
  BY DEF IInv, DeletedFileLeavesList
<1>. QED
  BY <1>1 DEF IInv

-----------------------------------------------------------------------------
(* Steps of a thread that change neither the list nor the file system      *)

\* What is known of a thread at a statement.
LEMMA ThreadAt ==
  ASSUME IInv, NEW p \in Actors, NEW s, s # "idle", io[p].pc = s
  PROVE  /\ ThreadSound(io[p]) /\ io[p] \in Thread
         /\ HasItOpen(io[p], p, handles)
         /\ io[p].file \in Files /\ io[p].fileId \in {io[p].file, NoFile}
         /\ io[p] = [io[p] EXCEPT !.pc = s, !.fileId = io[p].fileId]
BY DEF IInv, ThreadsSound, ThreadSound, Thread

LEMMA TestStep ==
  ASSUME IInv, NEW p \in Actors, NEW pc, NEW s \in Statements, Test(p, pc, s),
         pc \notin {"idle", "postCleanup"}, s # "addFile",
         s \in HoldsFileOpen => pc \in HoldsFileOpen
  PROVE  IInv'
<1>. DEFINE id == IF s \in {"watched", "create", "set"} THEN NoFile ELSE io[p].fileId
            t == IF s = "idle" THEN Idle ELSE [io[p] EXCEPT !.pc = s, !.fileId = id]
<1>1. io[p].pc = pc /\ UNCHANGED <<nodes, fsys>>
  BY DEF Test
<1>2. /\ ThreadSound(io[p]) /\ io[p] \in Thread /\ HasItOpen(io[p], p, handles)
      /\ io[p].fileId \in {io[p].file, NoFile}
  BY <1>1, ThreadAt
<1>3. [io[p] EXCEPT !.pc = s] = [io[p] EXCEPT !.pc = s, !.fileId = io[p].fileId]
  BY <1>2 DEF Thread
<1>4. io' = [io EXCEPT ![p] = t]
  BY <1>3 DEF Test
<1>5. ThreadSound(t) /\ HasItOpen(t, p, handles)
  <2>1. CASE s = "idle"
    BY <2>1, IdleSound
  <2>2. CASE s # "idle"
    <3>1. /\ ThreadSound(io[p]) /\ io[p].pc # "idle" /\ s \in Statements \ {"idle"}
          /\ id \in {io[p].file, NoFile} /\ (s = "addFile" => id = io[p].file)
          /\ t = [io[p] EXCEPT !.pc = s, !.fileId = id]
      BY <1>1, <1>2, <2>2
    <3>2. io[p] \in Thread /\ io[p].file # NoFile /\ id \in Files \cup {NoFile}
      BY <1>2, <3>1 DEF ThreadSound, Thread
    <3>. HIDE DEF id, t
    <3>3. t \in Thread /\ t.pc = s /\ t.file = io[p].file /\ t.fileId = id
      BY <3>1, <3>2 DEF Thread
    <3>4. ThreadSound(t)
      BY <3>1, <3>2, <3>3 DEF ThreadSound
    <3>. QED
      BY <1>1, <1>2, <3>3, <3>4 DEF HasItOpen
  <2>. QED
    BY <2>1, <2>2
<1>. QED
  BY <1>1, <1>4, <1>5, QuietStep

LEMMA IdentifiedStep ==
  ASSUME IInv, NEW p \in Actors, NEW pc, NEW s \in Statements,
         NEW id \in {io[p].file, NoFile}, Identified(p, pc, id, s),
         pc \notin {"idle", "postCleanup"}, s = "addFile" => id = io[p].file,
         s \in HoldsFileOpen => pc \in HoldsFileOpen
  PROVE  IInv'
<1>. DEFINE t == IF s = "idle" THEN Idle ELSE [io[p] EXCEPT !.pc = s, !.fileId = id]
<1>1. io[p].pc = pc /\ UNCHANGED <<nodes, fsys>>
  BY DEF Identified
<1>2. ThreadSound(io[p]) /\ io[p] \in Thread /\ HasItOpen(io[p], p, handles)
  BY <1>1, ThreadAt
<1>3. [io[p] EXCEPT !.fileId = id, !.pc = s] = [io[p] EXCEPT !.pc = s, !.fileId = id]
  BY <1>2 DEF Thread
<1>4. io' = [io EXCEPT ![p] = t]
  BY <1>3 DEF Identified
<1>5. ThreadSound(t) /\ HasItOpen(t, p, handles)
  <2>1. CASE s = "idle"
    BY <2>1, IdleSound
  <2>2. CASE s # "idle"
    <3>1. /\ ThreadSound(io[p]) /\ io[p].pc # "idle" /\ s \in Statements \ {"idle"}
          /\ id \in {io[p].file, NoFile} /\ (s = "addFile" => id = io[p].file)
          /\ t = [io[p] EXCEPT !.pc = s, !.fileId = id]
      BY <1>1, <1>2, <2>2
    <3>2. io[p] \in Thread /\ io[p].file # NoFile /\ id \in Files \cup {NoFile}
      BY <1>2, <3>1 DEF ThreadSound, Thread
    <3>. HIDE DEF t
    <3>3. t \in Thread /\ t.pc = s /\ t.file = io[p].file /\ t.fileId = id
      BY <3>1, <3>2 DEF Thread
    <3>4. ThreadSound(t)
      BY <3>1, <3>2, <3>3 DEF ThreadSound
    <3>. QED
      BY <1>1, <1>2, <3>3, <3>4 DEF HasItOpen
  <2>. QED
    BY <2>1, <2>2
<1>. QED
  BY <1>1, <1>4, <1>5, QuietStep

\* A thread that begins an operation on f, which it has open if need be.
LEMMA BeginStep ==
  ASSUME IInv, NEW p \in Actors, NEW f \in Files, Free(p),
         NEW t, ThreadSound(t), t.file = f, t.pc \in HoldsFileOpen => HandleOf(p, f) # {},
         io' = [io EXCEPT ![p] = t], UNCHANGED <<nodes, fsys>>
  PROVE  IInv'
<1>1. io[p].pc # "postCleanup"
  BY DEF Free, Idle
<1>2. HasItOpen(t, p, handles)
  BY DEF HasItOpen, HandleOf
<1>. QED
  BY <1>1, <1>2, QuietStep

LEMMA FileIdTyped ==
  ASSUME NEW f, NEW fileId \in GetFileId(f)
  PROVE  fileId \in {f, NoFile}
BY DEF GetFileId

LEMMA PreCreateInv ==
  ASSUME IInv, NEW p \in Actors, PreCreate(p)
  PROVE  IInv'
<1>1. CASE ExecuteChecks(p)
  <2>1. ASSUME NEW id \in GetFileId(io[p].file), Identified(p, "execId", id, "execWatched")
        PROVE  IInv'
    <3>1. /\ "execWatched" \in Statements /\ "execWatched" \notin HoldsFileOpen
          /\ "execWatched" # "addFile" /\ "execId" \notin {"idle", "postCleanup"}
      BY DEF Statements, HoldsFileOpen
    <3>2. id \in {io[p].file, NoFile}
      BY FileIdTyped
    <3>. QED
      BY <2>1, <3>1, <3>2, IdentifiedStep
  <2>2. CASE ~\E id \in GetFileId(io[p].file) : Identified(p, "execId", id, "execWatched")
    BY <1>1, <2>2, TestStep DEF ExecuteChecks, Statements, HoldsFileOpen
  <2>. QED
    BY <2>1, <2>2
<1>2. CASE NewFileChecks(p)
  BY <1>2, TestStep DEF NewFileChecks, Statements, HoldsFileOpen
<1>3. CASE OldFileChecks(p)
  <2>. DEFINE s(id) == CASE id = NoFile ->
                         IF io[p].disp # "open" \/ io[p].write THEN "idle" ELSE "create"
                       [] id # NoFile -> IF io[p].write THEN "owner" ELSE "create"
  <2>1. ASSUME NEW id \in GetFileId(io[p].file), Identified(p, "fileId", id, s(id))
        PROVE  IInv'
    <3>1. s(id) \in {"idle", "create", "owner"}
      OBVIOUS
    <3>. HIDE DEF s
    <3>2. s(id) \in Statements /\ s(id) # "addFile" /\ s(id) \notin HoldsFileOpen
      BY <3>1 DEF Statements, HoldsFileOpen
    <3>3. id \in {io[p].file, NoFile}
      BY FileIdTyped
    <3>. QED
      BY <2>1, <3>2, <3>3, IdentifiedStep
  <2>2. CASE Test(p, "owner", IF IsProcessInFileOwners(p, io[p].fileId) THEN "create" ELSE "idle")
    BY <2>2, TestStep DEF Statements, HoldsFileOpen
  <2>. QED
    BY <1>3, <2>1, <2>2 DEF OldFileChecks
<1>. QED
  BY <1>1, <1>2, <1>3 DEF PreCreate

LEMMA PostCreateChecksInv ==
  ASSUME IInv, NEW p \in Actors, PostCreateChecks(p)
  PROVE  IInv'
<1>1. CASE Test(p, "post", IF ContainsProcess(nodes, p) THEN "postId" ELSE "idle")
  BY <1>1, TestStep DEF Statements, HoldsFileOpen
<1>2. ASSUME NEW id \in GetFileId(io[p].file),
             Identified(p, "postId", id,
               IF id = NoFile \/ io[p].info = "opened" THEN "idle" ELSE "addFile")
      PROVE  IInv'
  <2>. DEFINE s == IF id = NoFile \/ io[p].info = "opened" THEN "idle" ELSE "addFile"
  <2>1. id \in {io[p].file, NoFile} /\ (s = "addFile" => id = io[p].file)
    BY FileIdTyped
  <2>2. s \in Statements /\ "postId" \in HoldsFileOpen /\ "postId" \notin {"idle", "postCleanup"}
    BY DEF Statements, HoldsFileOpen
  <2>3. Identified(p, "postId", id, s)
    BY <1>2
  <2>. HIDE DEF s
  <2>. QED
    BY <2>1, <2>2, <2>3, IdentifiedStep
<1>. QED
  BY <1>1, <1>2 DEF PostCreateChecks

LEMMA PreSetInformationInv ==
  ASSUME IInv, NEW p \in Actors, PreSetInformation(p)
  PROVE  IInv'
<1>. DEFINE f == io[p].file
<1>1. \/ Test(p, "setWatched", IF ContainsProcess(nodes, p) THEN "setId" ELSE "set")
      \/ \E id \in {f, NoFile} : Identified(p, "setId", id, "setOwner")
      \/ Test(p, "setOwner", IF IsProcessInFileOwners(p, io[p].fileId) THEN "set" ELSE "idle")
  BY FileIdTyped DEF PreSetInformation
<1>. QED
  BY <1>1, TestStep, IdentifiedStep, SMTT(30) DEF Statements, HoldsFileOpen

-----------------------------------------------------------------------------
(* Steps of a thread that change the file system                           *)

LEMMA FileCreatedInv ==
  ASSUME IInv, NEW p \in Actors, NEW info \in {"opened", "overwritten", "created"},
         FileCreated(p, info)
  PROVE  IInv'
<1>. DEFINE f == io[p].file
            h == [by |-> p, file |-> f, write |-> io[p].write]
            post == [Idle EXCEPT !.pc = "post", !.file = f, !.info = info]
            t == IF io[p].pc = "create" THEN Idle ELSE post
<1>1. /\ io[p].pc \in {"create", "createSync"} /\ UNCHANGED <<nodes, pending, contexts>>
      /\ handles' = handles \cup {h} /\ io' = [io EXCEPT ![p] = t]
      /\ \/ Exists(f) /\ UNCHANGED disk
         \/ disk' = [disk EXCEPT ![f] = "empty"]
  BY DEF FileCreated
<1>2. f \in Files /\ io[p] \in Thread /\ io[p].write \in BOOLEAN
  BY <1>1, ThreadAt DEF Thread
<1>3. /\ disk' \in [Files -> {"unborn", "empty", "data", "gone", "cancelled"}]
      /\ \A g \in Files : (Exists(g) \/ g = f) => disk'[g] \in {"empty", "data"}
      /\ \A g \in Files : disk'[g] = "gone" => disk[g] = "gone"
  BY <1>1, <1>2 DEF IInv, FilesSound, Exists
<1>4. FilesSound'
  <2>1. h \in [by : Actors, file : {g \in Files : Exists(g)'}, write : BOOLEAN]
    BY <1>2, <1>3 DEF Exists
  <2>2. handles' \subseteq [by : Actors, file : {g \in Files : Exists(g)'}, write : BOOLEAN]
    BY <1>1, <1>3, <2>1 DEF IInv, FilesSound, Exists
  <2>. QED
    BY <1>1, <1>3, <2>2 DEF IInv, FilesSound
<1>5. ThreadSound(post) /\ post.pc = "post" /\ post.file = f
  BY <1>2, SentinelAssumption, ZenonT(60)
     DEF ThreadSound, Thread, Idle, Statements, HoldsFileOpen, Dispositions
<1>6. h \in handles' /\ h.by = p /\ h.file = f
  BY <1>1
<1>. HIDE DEF h, post, f
<1>7. ThreadSound(t) /\ HasItOpen(t, p, handles')
  BY <1>5, <1>6, IdleSound DEF HasItOpen
<1>. HIDE DEF t
<1>8. ThreadsSound'
  BY <1>1, <1>7, ThreadStep DEF IInv
<1>9. \A q \in Actors : io[q].pc = "postCleanup" => io'[q] = io[q]
  BY <1>1 DEF IInv, ThreadsSound
<1>. QED
  BY <1>1, <1>3, <1>4, <1>8, <1>9, FilesStep DEF IInv, FilesSound

LEMMA WriteInv ==
  ASSUME IInv, NEW p, NEW f, Write(p, f)
  PROVE  IInv'
<1>1. PICK h \in handles : h.file = f
  BY DEF Write, HandleOf
<1>2. f \in Files /\ Exists(f)
  BY <1>1 DEF IInv, FilesSound
<1>3. disk' = [disk EXCEPT ![f] = "data"] /\ UNCHANGED <<nodes, pending, handles, contexts, io>>
  BY DEF Write
<1>4. /\ disk' \in [Files -> {"unborn", "empty", "data", "gone", "cancelled"}]
      /\ \A g \in Files : Exists(g) => Exists(g)'
      /\ \A g \in Files : disk'[g] = "gone" => disk[g] = "gone"
  BY <1>2, <1>3 DEF IInv, FilesSound, Exists
<1>5. FilesSound' /\ ThreadsSound'
  BY <1>3, <1>4 DEF IInv, FilesSound, ThreadsSound
<1>. QED
  BY <1>3, <1>4, <1>5, FilesStep DEF IInv, FilesSound

LEMMA DispositionSetInv ==
  ASSUME IInv, NEW p \in Actors, DispositionSet(p)
  PROVE  IInv'
<1>1. /\ io[p].pc = "set" /\ pending' = pending \cup {io[p].file}
      /\ io' = [io EXCEPT ![p] = Idle] /\ UNCHANGED <<nodes, disk, handles, contexts>>
  BY DEF DispositionSet, Ends
<1>2. HandleOf(p, io[p].file) # {}
  BY <1>1, OpenExists DEF HoldsFileOpen
<1>3. FilesSound'
  BY <1>1, <1>2 DEF IInv, FilesSound, Exists, HandleOf
<1>4. ThreadsSound'
  BY <1>1, IdleSound, ThreadStep DEF IInv
<1>5. \A q \in Actors : io[q].pc = "postCleanup" => io'[q] = io[q]
  BY <1>1 DEF IInv, ThreadsSound
<1>. QED
  BY <1>1, <1>3, <1>4, <1>5, FilesStep

\* A context is attached through an open handle, so the file is not gone.
LEMMA SetFileContextInv ==
  ASSUME IInv, NEW p \in Actors,
         \/ SetFileContext(p, "addContext", "idle")
         \/ SetFileContext(p, "closeContext", "close")
  PROVE  IInv'
<1>. DEFINE t == IF io[p].pc = "addContext" THEN Idle ELSE [io[p] EXCEPT !.pc = "close"]
<1>1. /\ io[p].pc \in {"addContext", "closeContext"} /\ contexts' = contexts \cup {io[p].file}
      /\ io' = [io EXCEPT ![p] = t] /\ UNCHANGED <<nodes, disk, pending, handles>>
  BY DEF SetFileContext, Ends, GoesTo
<1>2. io[p].file \in Files /\ disk[io[p].file] # "gone"
  BY <1>1, OpenExists DEF HoldsFileOpen
<1>3. ThreadSound(t) /\ HasItOpen(t, p, handles')
  <2>1. CASE io[p].pc = "addContext"
    BY <2>1, IdleSound
  <2>2. CASE io[p].pc = "closeContext"
    <3>1. ThreadSound(io[p]) /\ HasItOpen(io[p], p, handles)
      BY <2>2, ThreadAt
    <3>2. t = [io[p] EXCEPT !.pc = "close"]
      BY <2>2
    <3>. HIDE DEF t
    <3>3. t \in Thread /\ t.pc = "close" /\ t.file = io[p].file /\ t.fileId = io[p].fileId
      BY <3>1, <3>2 DEF ThreadSound, Thread, Statements, HoldsFileOpen
    <3>. QED
      BY <1>1, <2>2, <3>1, <3>3 DEF ThreadSound, HasItOpen, HoldsFileOpen
  <2>. QED
    BY <1>1, <2>1, <2>2
<1>. HIDE DEF t
<1>4. FilesSound'
  BY <1>1, <1>2 DEF IInv, FilesSound, Exists
<1>5. ThreadsSound'
  BY <1>1, <1>3, ThreadStep DEF IInv
<1>6. \A q \in Actors : io[q].pc = "postCleanup" => io'[q] = io[q]
  BY <1>1 DEF IInv, ThreadsSound
<1>. QED
  BY <1>1, <1>2, <1>4, <1>5, <1>6, FilesStep

\* What closing the handle of p leaves.
LEMMA ClosedSound ==
  ASSUME IInv, NEW p \in Actors, NEW f \in Files, NEW how \in {"gone", "cancelled"},
         Closed(p, f, how), UNCHANGED contexts
  PROVE  /\ FilesSound'
         /\ \A h \in handles : h.by # p => h \in handles'
         /\ \A h \in handles' : h.by = p => h.file # f
         /\ \A g \in Files : disk'[g] = "gone" => disk[g] = "gone" \/ (g = f /\ how = "gone")
<1>. DEFINE deleted == f \in pending /\ \A h \in handles : h.file = f => h.by = p
<1>1. /\ handles' = handles \ HandleOf(p, f)
      /\ pending' = IF deleted THEN pending \ {f} ELSE pending
      /\ disk' = IF deleted THEN [disk EXCEPT ![f] = how] ELSE disk
  BY DEF Closed
<1>2. \A h : h \in handles' <=> h \in handles /\ ~(h.by = p /\ h.file = f)
  BY <1>1 DEF HandleOf
<1>3. /\ disk' \in [Files -> {"unborn", "empty", "data", "gone", "cancelled"}]
      /\ \A g \in Files : g # f \/ ~deleted => disk'[g] = disk[g]
      /\ deleted => disk'[f] = how
  BY <1>1 DEF IInv, FilesSound
<1>4. pending' \subseteq {h.file : h \in handles'}
  <2>. SUFFICES ASSUME NEW g \in pending' PROVE \E h \in handles' : h.file = g
    OBVIOUS
  <2>1. g \in pending /\ (g # f \/ ~deleted)
    BY <1>1
  <2>2. CASE g # f
    BY <1>2, <2>1, <2>2 DEF IInv, FilesSound
  <2>3. CASE g = f
    BY <1>2, <2>1, <2>3
  <2>. QED
    BY <2>2, <2>3
<1>5. handles' \subseteq [by : Actors, file : {g \in Files : Exists(g)'}, write : BOOLEAN]
  <2>. SUFFICES ASSUME NEW h \in handles'
                PROVE  h \in [by : Actors, file : {g \in Files : Exists(g)'}, write : BOOLEAN]
    OBVIOUS
  <2>1. h \in [by : Actors, file : {g \in Files : Exists(g)}, write : BOOLEAN]
    BY <1>2 DEF IInv, FilesSound
  <2>2. h.file # f \/ ~deleted
    BY <1>2
  <2>3. Exists(h.file)'
    BY <1>3, <2>1, <2>2 DEF Exists
  <2>. QED
    BY <2>1, <2>3
<1>. QED
  BY <1>2, <1>3, <1>4, <1>5 DEF IInv, FilesSound

LEMMA FileClosedInv ==
  ASSUME IInv, NEW p \in Actors, FileClosed(p)
  PROVE  IInv'
<1>. DEFINE f == io[p].file
            t == [io[p] EXCEPT !.pc = "postCleanup"]
<1>1. /\ io[p].pc = "close" /\ Closed(p, f, "gone")
      /\ io' = [io EXCEPT ![p] = t] /\ UNCHANGED <<nodes, contexts>>
  BY DEF FileClosed, GoesTo
<1>2. ThreadSound(io[p]) /\ f \in Files
  BY <1>1, ThreadAt
<1>3. /\ FilesSound'
      /\ \A h \in handles : h.by # p => h \in handles'
      /\ \A g \in Files : disk'[g] = "gone" => disk[g] = "gone" \/ g = f
  BY <1>1, <1>2, ClosedSound
<1>4. t \in Thread /\ t.pc = "postCleanup" /\ t.file = f /\ t.fileId = io[p].fileId
  BY <1>2 DEF ThreadSound, Thread, Statements
<1>. HIDE DEF f, t
<1>5. ThreadSound(t) /\ HasItOpen(t, p, handles')
  BY <1>1, <1>2, <1>4 DEF ThreadSound, HasItOpen, HoldsFileOpen, f
<1>6. ThreadsSound'
  BY <1>1, <1>3, <1>5, ThreadStep DEF IInv
<1>7. io'[p] = t /\ \A q \in Actors : io[q].pc = "postCleanup" => io'[q] = io[q]
  BY <1>1 DEF IInv, ThreadsSound
<1>8. \A g \in contexts' : disk'[g] = "gone" =>
        \/ g \in contexts /\ disk[g] = "gone"
        \/ \E q \in Actors : io'[q].pc = "postCleanup" /\ io'[q].file = g
  BY <1>1, <1>3, <1>4, <1>7 DEF IInv, FilesSound
<1>. QED
  BY <1>1, <1>3, <1>6, <1>7, <1>8, FilesStep

LEMMA PreCleanupInv ==
  ASSUME IInv, NEW p \in Actors, PreCleanup(p)
  PROVE  IInv'
<1>1. CASE SetFileContext(p, "closeContext", "close")
  BY <1>1, SetFileContextInv
<1>2. CASE ~SetFileContext(p, "closeContext", "close")
  BY <1>2, TestStep DEF PreCleanup, Statements, HoldsFileOpen
<1>. QED
  BY <1>1, <1>2

\* The client's thread opens its file, and may mark it for deletion.
LEMMA ClientOpensInv ==
  ASSUME IInv, GetFileIdByPath \/ RequestFileDeletion
  PROVE  IInv'
<1>. DEFINE f == io[Client].file
            id == IF io[Client].pc = "fileIdByPath" THEN f ELSE io[Client].fileId
            then == IF io[Client].pc = "fileIdByPath" THEN "fileOwner" ELSE io[Client].then
            t == [io[Client] EXCEPT !.pc = "cleanup", !.fileId = id, !.then = then]
<1>1. io[Client].pc \in {"fileIdByPath", "requestDeletion"} /\ Client \in Actors
  BY DEF GetFileIdByPath, RequestFileDeletion, Actors
<1>2. /\ f \in Files /\ ThreadSound(io[Client]) /\ io[Client] \in Thread
      /\ io[Client].fileId \in {f, NoFile}
  BY <1>1, ThreadAt
<1>3. /\ Exists(f) /\ handles' = handles \cup {ForClient} /\ UNCHANGED <<nodes, disk, contexts>>
      /\ \/ UNCHANGED pending
         \/ pending' = pending \cup {f}
  BY <1>2, SentinelAssumption DEF GetFileIdByPath, RequestFileDeletion, GetFileId
<1>4. io' = [io EXCEPT ![Client] = t]
  <2>1. CASE GetFileIdByPath
    BY <1>1, <1>2, <2>1 DEF GetFileIdByPath, IInv, ThreadsSound, Thread
  <2>2. CASE RequestFileDeletion
    BY <1>1, <1>2, <2>2 DEF RequestFileDeletion, GoesTo, IInv, ThreadsSound, Thread
  <2>. QED
    BY <2>1, <2>2
<1>5. id \in {f, NoFile} /\ id \in Files \cup {NoFile} /\ then \in {"idle", "fileOwner"}
  BY <1>2 DEF Thread
<1>. HIDE DEF id, then
<1>6. t \in Thread /\ t.pc = "cleanup" /\ t.file = f /\ t.fileId = id
  BY <1>2, <1>5 DEF Thread, Statements, HoldsFileOpen
<1>7. ForClient \in handles' /\ ForClient.by = Client /\ ForClient.file = f
  BY <1>1, <1>3 DEF ForClient
<1>. HIDE DEF t
<1>8. ThreadSound(t) /\ HasItOpen(t, Client, handles')
  BY <1>1, <1>2, <1>3, <1>5, <1>6, <1>7 DEF ThreadSound, HasItOpen
<1>9. FilesSound'
  <2>1. ForClient \in [by : Actors, file : {g \in Files : Exists(g)}, write : BOOLEAN]
    BY <1>1, <1>2, <1>3 DEF ForClient
  <2>. QED
    BY <1>1, <1>3, <1>7, <2>1 DEF IInv, FilesSound, Exists
<1>10. ThreadsSound'
  BY <1>1, <1>2, <1>3, <1>4, <1>8, ThreadStep DEF IInv
<1>11. \A q \in Actors : io[q].pc = "postCleanup" => io'[q] = io[q]
  BY <1>1, <1>3, <1>4 DEF IInv, ThreadsSound
<1>. QED
  BY <1>1, <1>3, <1>9, <1>10, <1>11, FilesStep

LEMMA FileOwnerIsPidInv ==
  ASSUME IInv, FileOwnerIsPid
  PROVE  IInv'
<1>. DEFINE u == [io[Client] EXCEPT !.pc = "requestDeletion", !.pid = NoPid, !.then = "idle"]
            t == IF GetFileOwner(nodes, io[Client].fileId) # io[Client].pid THEN Idle ELSE u
<1>1. io[Client].pc = "fileOwner" /\ UNCHANGED <<nodes, fsys>>
  BY DEF FileOwnerIsPid
<1>2. /\ Client \in Actors /\ ThreadSound(io[Client]) /\ io[Client] \in Thread
      /\ io[Client].file \in Files /\ io[Client].fileId \in {io[Client].file, NoFile}
  BY <1>1, ThreadAt DEF Actors
<1>3. io' = [io EXCEPT ![Client] = t]
  BY <1>2 DEF FileOwnerIsPid, IInv, ThreadsSound
<1>4. /\ u \in Thread /\ u.pc = "requestDeletion" /\ u.file = io[Client].file
      /\ u.fileId = io[Client].fileId
  BY <1>2 DEF Thread, Statements
<1>. HIDE DEF u
<1>5. ThreadSound(u) /\ HasItOpen(u, Client, handles)
  BY <1>2, <1>4, SentinelAssumption DEF ThreadSound, HasItOpen, HoldsFileOpen
<1>6. ThreadSound(t) /\ HasItOpen(t, Client, handles)
  BY <1>5, IdleSound
<1>. HIDE DEF t
<1>. QED
  BY <1>1, <1>2, <1>3, <1>6, QuietStep

\* A process or the client begins an operation.
LEMMA OperationBegins ==
  ASSUME IInv, NEW f \in Files,
         \/ \E p \in Pids, request \in Requests : Create(p, f, request)
         \/ \E p \in Pids : SetDisposition(p, f) \/ Close(p, f)
         \/ \E PID \in Pids \cup {NoPid} : DeleteWatchedFile(PID, f)
  PROVE  IInv'
<1>1. CASE \E p \in Pids, request \in Requests : Create(p, f, request)
  <2>1. PICK p \in Pids, request \in Requests : Create(p, f, request)
    BY <1>1
  <2>. DEFINE t == [Idle EXCEPT !.pc = IF request.execute THEN "execId" ELSE "watched",
                                !.file = f, !.disp = request.disp, !.write = request.write]
  <2>2. request.disp \in Dispositions /\ request.write \in BOOLEAN
    BY RequestsAssumption
  <2>3. ThreadSound(t) /\ t.file = f /\ t.pc \notin HoldsFileOpen
    BY <2>2, SentinelAssumption DEF ThreadSound, Thread, Idle, Statements, HoldsFileOpen
  <2>4. p \in Actors /\ Free(p) /\ io' = [io EXCEPT ![p] = t] /\ UNCHANGED <<nodes, fsys>>
    BY <2>1 DEF Create, Actors
  <2>. HIDE DEF t
  <2>. QED
    BY <2>3, <2>4, BeginStep
<1>2. CASE \E p \in Pids : SetDisposition(p, f) \/ Close(p, f)
  <2>1. PICK p \in Pids : SetDisposition(p, f) \/ Close(p, f)
    BY <1>2
  <2>2. PICK s \in {"setWatched", "cleanup"} :
          io' = [io EXCEPT ![p] = [Idle EXCEPT !.pc = s, !.file = f]]
    BY <2>1 DEF SetDisposition, Close
  <2>. DEFINE t == [Idle EXCEPT !.pc = s, !.file = f]
  <2>3. ThreadSound(t) /\ t.file = f
    BY SentinelAssumption
       DEF ThreadSound, Thread, Idle, Statements, HoldsFileOpen, Dispositions
  <2>4. /\ p \in Actors /\ Free(p) /\ HandleOf(p, f) # {}
        /\ io' = [io EXCEPT ![p] = t] /\ UNCHANGED <<nodes, fsys>>
    BY <2>1, <2>2 DEF SetDisposition, Close, Actors
  <2>. HIDE DEF t
  <2>. QED
    BY <2>3, <2>4, BeginStep
<1>3. CASE \E PID \in Pids \cup {NoPid} : DeleteWatchedFile(PID, f)
  <2>1. PICK PID \in Pids \cup {NoPid} : DeleteWatchedFile(PID, f)
    BY <1>3
  <2>. DEFINE t == [Idle EXCEPT !.pc = "fileIdByPath", !.file = f, !.pid = PID]
  <2>2. ThreadSound(t) /\ t.file = f /\ t.pc \notin HoldsFileOpen
    BY SentinelAssumption
       DEF ThreadSound, Thread, Idle, Statements, HoldsFileOpen, Dispositions
  <2>3. Client \in Actors /\ Free(Client) /\ io' = [io EXCEPT ![Client] = t]
        /\ UNCHANGED <<nodes, fsys>>
    BY <2>1 DEF DeleteWatchedFile, Actors
  <2>. HIDE DEF t
  <2>. QED
    BY <2>2, <2>3, BeginStep
<1>. QED
  BY <1>1, <1>2, <1>3

-----------------------------------------------------------------------------
(* Steps that change the list                                              *)

LEMMA AddProcessWatchInv ==
  ASSUME IInv, NEW p \in Pids, NEW img \in Files \cup {NoFile}, NEW noresp \in Levels,
         AddProcessWatch(p, img, noresp)
  PROVE  IInv'
<1>. DEFINE mid == AddProcessNode(nodes, p, img, noresp)
<1>1. /\ nodes' = AddFile(mid, img, p) /\ (img # NoFile => Exists(img))
      /\ UNCHANGED <<fsys, io>>
  BY DEF AddProcessWatch
<1>2. Sound(nodes) /\ Disjoint(nodes) /\ nodes \in Seq(ProcessNode) /\ noresp \in t_noresp
  BY LevelsAssumption DEF IInv, Sound
<1>3. Sound(mid) /\ Disjoint(mid)
  BY <1>2, AddProcessNodeSound, AddProcessNodeDisjoint
<1>4. \A f : Owning(mid, f) = Owning(nodes, f)
  BY <1>2, AddProcessNodeOwns
<1>. HIDE DEF mid
<1>5. Sound(nodes') /\ Disjoint(nodes') /\ NoFileNewBut(nodes', mid, {img})
  BY <1>1, <1>3, AddFileSound, AddFileDisjoint, AddFileOwns
<1>6. \A f \in Files : disk[f] = "gone" /\ Owning(nodes, f) = {} => Owning(nodes', f) = {}
  BY <1>1, <1>4, <1>5, SentinelAssumption DEF NoFileNewBut, Exists
<1>. QED
  BY <1>1, <1>5, <1>6, ListStep

LEMMA ProcessesChangeInv ==
  ASSUME IInv, NEW p \in Pids,
         (\E parent \in Pids : OnProcessCreation(p, parent)) \/ RemoveProcess(p)
  PROVE  IInv'
<1>1. Sound(nodes) /\ Disjoint(nodes) /\ nodes \in Seq(ProcessNode)
  BY DEF IInv, Sound
<1>2. CASE \E parent \in Pids : OnProcessCreation(p, parent)
  <2>1. PICK parent \in Pids : OnProcessCreation(p, parent)
    BY <1>2
  <2>2. ~ContainsProcess(nodes, p) /\ nodes' = AddProcess(nodes, p, parent) /\ UNCHANGED <<fsys, io>>
    BY <2>1 DEF OnProcessCreation, Unstarted
  <2>3. Sound(nodes') /\ Disjoint(nodes') /\ \A f : Owning(nodes', f) = Owning(nodes, f)
    BY <1>1, <2>2, AddProcessSound, AddProcessDisjoint, AddProcessOwns
  <2>. QED
    BY <2>2, <2>3, ListStep
<1>3. CASE RemoveProcess(p)
  <2>1. nodes' = DeleteProcess(nodes, p) /\ UNCHANGED <<fsys, io>>
    BY <1>3 DEF RemoveProcess
  <2>2. Sound(nodes') /\ Disjoint(nodes') /\ NoFileNewBut(nodes', nodes, {})
    BY <1>1, <2>1, DeleteProcessSound, DeleteProcessDisjoint, DeleteProcessOwns
  <2>. QED
    BY <2>1, <2>2, ListStep DEF NoFileNewBut
<1>. QED
  BY <1>2, <1>3

\* A file that PostCreate adds is open, and is not gone when its open is cancelled.
LEMMA PostCreateAddFileInv ==
  ASSUME IInv, NEW p \in Actors, PostCreateAddFile(p)
  PROVE  IInv'
<1>. DEFINE f == io[p].file
            t == IF AddFileStatus(nodes, f, p) = "ADD_OK"
                 THEN [io[p] EXCEPT !.pc = "addContext"] ELSE Idle
<1>1. /\ io[p].pc = "addFile" /\ f \in Files /\ io[p].fileId = f /\ disk[f] # "gone"
      /\ ThreadSound(io[p]) /\ HasItOpen(io[p], p, handles)
  BY OpenExists, ThreadAt DEF PostCreateAddFile, ThreadSound, HoldsFileOpen
<1>2. /\ nodes' = AddFile(nodes, f, p) /\ io' = [io EXCEPT ![p] = t]
      /\ \/ UNCHANGED fsys
         \/ AddFileStatus(nodes, f, p) # "ADD_OK" /\ Closed(p, f, "cancelled") /\ UNCHANGED contexts
  BY <1>1 DEF PostCreateAddFile, Ends, GoesTo
<1>3. /\ FilesSound' /\ UNCHANGED contexts
      /\ \A h \in handles : h.by # p => h \in handles'
      /\ AddFileStatus(nodes, f, p) = "ADD_OK" => UNCHANGED handles
      /\ \A g \in Files : disk'[g] = "gone" => disk[g] = "gone"
  <2>1. CASE UNCHANGED fsys
    BY <2>1 DEF fsys, IInv, FilesSound, Exists
  <2>2. CASE AddFileStatus(nodes, f, p) # "ADD_OK" /\ Closed(p, f, "cancelled") /\ UNCHANGED contexts
    <3>. HIDE DEF f
    <3>1. "cancelled" \in {"gone", "cancelled"} /\ "cancelled" # "gone" /\ f \in Files
      BY <1>1
    <3>. QED
      BY <2>2, <3>1, ClosedSound
  <2>. QED
    BY <1>2, <2>1, <2>2
<1>4. ThreadSound(t) /\ HasItOpen(t, p, handles')
  <2>1. CASE AddFileStatus(nodes, f, p) # "ADD_OK"
    BY <2>1, IdleSound
  <2>2. CASE AddFileStatus(nodes, f, p) = "ADD_OK"
    <3>1. t = [io[p] EXCEPT !.pc = "addContext"]
      BY <2>2
    <3>. HIDE DEF t
    <3>2. t \in Thread /\ t.pc = "addContext" /\ t.file = f /\ t.fileId = f
      BY <1>1, <3>1 DEF ThreadSound, Thread, Statements, HoldsFileOpen
    <3>. QED
      BY <1>1, <1>3, <2>2, <3>2 DEF ThreadSound, HasItOpen, HoldsFileOpen
  <2>. QED
    BY <2>1, <2>2
<1>5. ThreadsSound'
  <2>. HIDE DEF t
  <2>. QED
    BY <1>2, <1>3, <1>4, ThreadStep DEF IInv
<1>6. Sound(nodes') /\ Disjoint(nodes') /\ NoFileNewBut(nodes', nodes, {f})
  BY <1>1, <1>2, AddFileSound, AddFileDisjoint, AddFileOwns DEF IInv
<1>7. DeletedFileLeavesList'
  <2>. SUFFICES ASSUME NEW g \in contexts', disk'[g] = "gone",
                       \A q \in Actors : io'[q].pc = "postCleanup" => io'[q].file # g
                PROVE  Owning(nodes', g) = {}
    BY DEF DeletedFileLeavesList
  <2>1. g \in contexts /\ disk[g] = "gone" /\ g # f
    BY <1>1, <1>3 DEF IInv, FilesSound
  <2>2. \A q \in Actors : io[q].pc = "postCleanup" => io[q].file # g
    BY <1>1, <1>2 DEF IInv, ThreadsSound
  <2>3. Owning(nodes, g) = {}
    BY <2>1, <2>2 DEF IInv, DeletedFileLeavesList
  <2>. QED
    BY <1>6, <2>1, <2>3 DEF NoFileNewBut
<1>. QED
  BY <1>3, <1>5, <1>6, <1>7 DEF IInv

\* The cleanup that is over has taken the file off the list if it is gone.
LEMMA PostCleanupInv ==
  ASSUME IInv, NEW p \in Actors, PostCleanup(p)
  PROVE  IInv'
<1>. DEFINE f == io[p].file
            t == IF io[p].then = "idle" THEN Idle ELSE [io[p] EXCEPT !.pc = io[p].then]
<1>1. /\ io[p].pc = "postCleanup"
      /\ nodes' = IF disk[f] = "gone" /\ f \in contexts THEN DeleteFile(nodes, f) ELSE nodes
      /\ io' = [io EXCEPT ![p] = t]
      /\ UNCHANGED <<disk, pending, handles, contexts>>
  BY DEF PostCleanup, Ends, GoesTo, fsys
<1>2. f \in Files /\ ThreadSound(io[p])
  BY <1>1, ThreadAt
<1>3. ThreadSound(t) /\ HasItOpen(t, p, handles')
  <2>1. CASE io[p].then = "idle"
    BY <2>1, IdleSound
  <2>2. CASE io[p].then # "idle"
    <3>1. t = [io[p] EXCEPT !.pc = "fileOwner"]
      BY <1>2, <2>2 DEF ThreadSound, Thread
    <3>. HIDE DEF t
    <3>2. t \in Thread /\ t.pc = "fileOwner" /\ t.file = f /\ t.fileId = io[p].fileId
      BY <1>2, <3>1 DEF ThreadSound, Thread, Statements
    <3>. QED
      BY <1>1, <1>2, <3>2 DEF ThreadSound, HasItOpen, HoldsFileOpen
  <2>. QED
    BY <2>1, <2>2
<1>4. FilesSound'
  BY <1>1 DEF IInv, FilesSound, Exists
<1>5. ThreadsSound'
  <2>. HIDE DEF t
  <2>. QED
    BY <1>1, <1>3, ThreadStep DEF IInv
<1>6. nodes \in Seq(ProcessNode) /\ Sound(nodes) /\ Disjoint(nodes)
  BY DEF IInv, Sound
<1>7. /\ Sound(nodes') /\ Disjoint(nodes') /\ NoFileNewBut(nodes', nodes, {})
      /\ disk[f] = "gone" /\ f \in contexts => Owning(nodes', f) = {}
  <2>1. CASE disk[f] = "gone" /\ f \in contexts
    BY <1>1, <1>6, <2>1, DeleteFileSound, DeleteFileDisjoint, DeleteFileOwns
  <2>2. CASE ~(disk[f] = "gone" /\ f \in contexts)
    BY <1>1, <1>6, <2>2 DEF NoFileNewBut
  <2>. QED
    BY <2>1, <2>2
<1>8. DeletedFileLeavesList'
  <2>. SUFFICES ASSUME NEW g \in contexts, disk[g] = "gone",
                       \A q \in Actors : io'[q].pc = "postCleanup" => io'[q].file # g
                PROVE  Owning(nodes', g) = {}
    BY <1>1 DEF DeletedFileLeavesList
  <2>1. CASE g = f
    BY <1>7, <2>1
  <2>2. CASE g # f
    <3>1. \A q \in Actors : io[q].pc = "postCleanup" => io[q].file # g
      BY <1>1, <2>2 DEF IInv, ThreadsSound
    <3>2. Owning(nodes, g) = {}
      BY <3>1 DEF IInv, DeletedFileLeavesList
    <3>. QED
      BY <1>7, <3>2 DEF NoFileNewBut
  <2>. QED
    BY <2>1, <2>2
<1>. QED
  BY <1>4, <1>5, <1>7, <1>8 DEF IInv

LEMMA TreatRenamedAsDeletedInv ==
  ASSUME IInv, TreatRenamedAsDeleted
  PROVE  IInv'
<1>1. /\ io[Client].pc = "requestDeletion" /\ Client \in Actors
      /\ nodes' = DeleteFile(nodes, io[Client].fileId)
      /\ io' = [io EXCEPT ![Client] = Idle]
      /\ UNCHANGED <<disk, pending, handles, contexts>>
  BY DEF TreatRenamedAsDeleted, Ends, fsys, Actors
<1>2. FilesSound'
  BY <1>1 DEF IInv, FilesSound, Exists
<1>3. ThreadsSound'
  BY <1>1, IdleSound, ThreadStep DEF IInv
<1>4. nodes \in Seq(ProcessNode) /\ Sound(nodes) /\ Disjoint(nodes)
  BY DEF IInv, Sound
<1>5. Sound(nodes') /\ Disjoint(nodes') /\ NoFileNewBut(nodes', nodes, {})
  BY <1>1, <1>4, DeleteFileSound, DeleteFileDisjoint, DeleteFileOwns
<1>6. ASSUME NEW g, \A q \in Actors : io'[q].pc = "postCleanup" => io'[q].file # g,
             NEW q \in Actors, io[q].pc = "postCleanup"
      PROVE  io[q].file # g
  BY <1>1, <1>6 DEF IInv, ThreadsSound
<1>7. DeletedFileLeavesList'
  BY <1>1, <1>5, <1>6 DEF IInv, DeletedFileLeavesList, NoFileNewBut
<1>. QED
  BY <1>2, <1>3, <1>5, <1>7 DEF IInv

-----------------------------------------------------------------------------
(* The theorems                                                            *)

LEMMA OperationInv ==
  ASSUME IInv, NEW p \in Actors, Operation(p)
  PROVE  IInv'
<1>1. CASE PreCreate(p) \/ FileNotCreated(p)
  BY <1>1, PreCreateInv, TestStep DEF FileNotCreated, Statements, HoldsFileOpen
<1>2. CASE PostCreate(p)
  BY <1>2, PostCreateChecksInv, PostCreateAddFileInv, SetFileContextInv DEF PostCreate
<1>3. CASE \E info \in {"opened", "overwritten", "created"} : FileCreated(p, info)
  BY <1>3, FileCreatedInv
<1>4. CASE PreSetInformation(p) \/ DispositionSet(p)
  BY <1>4, PreSetInformationInv, DispositionSetInv
<1>5. CASE DispositionNotSet(p)
  BY <1>5, TestStep DEF DispositionNotSet, Statements, HoldsFileOpen
<1>6. CASE PreCleanup(p) \/ FileClosed(p) \/ PostCleanup(p)
  BY <1>6, PreCleanupInv, FileClosedInv, PostCleanupInv
<1>. QED
  BY <1>1, <1>2, <1>3, <1>4, <1>5, <1>6 DEF Operation

LEMMA DeleteRequestInv ==
  ASSUME IInv, DeleteRequestStep
  PROVE  IInv'
<1>1. Client \in Actors
  BY DEF Actors
<1>2. CASE GetFileIdByPath \/ RequestFileDeletion
  BY <1>2, ClientOpensInv
<1>3. CASE FileOwnerIsPid \/ TreatRenamedAsDeleted
  BY <1>3, FileOwnerIsPidInv, TreatRenamedAsDeletedInv
<1>4. CASE Test(Client, "fileIdByPath", "fileOwner") \/ Test(Client, "requestDeletion", "idle")
  BY <1>1, <1>4, TestStep DEF Statements, HoldsFileOpen
<1>. QED
  BY <1>2, <1>3, <1>4 DEF DeleteRequestStep

LEMMA NextInv ==
  ASSUME IInv, [Next]_vars
  PROVE  IInv'
<1>1. CASE \E p \in Pids :
              \/ \E img \in Files \cup {NoFile}, noresp \in Levels : AddProcessWatch(p, img, noresp)
              \/ \E parent \in Pids : OnProcessCreation(p, parent)
              \/ RemoveProcess(p)
  BY <1>1, AddProcessWatchInv, ProcessesChangeInv
<1>2. CASE \E p \in Pids, f \in Files :
              \/ \E request \in Requests : Create(p, f, request)
              \/ SetDisposition(p, f) \/ Close(p, f)
  BY <1>2, OperationBegins
<1>3. CASE \E p \in Pids, f \in Files : Write(p, f)
  BY <1>3, WriteInv
<1>4. CASE \E p \in Actors : Operation(p)
  BY <1>4, OperationInv
<1>5. CASE \E PID \in Pids \cup {NoPid}, f \in Files : DeleteWatchedFile(PID, f)
  BY <1>5, OperationBegins
<1>6. CASE DeleteRequestStep
  BY <1>6, DeleteRequestInv
<1>7. CASE UNCHANGED vars
  BY <1>7 DEF vars, IInv, FilesSound, ThreadsSound, DeletedFileLeavesList, Exists
<1>. QED
  BY <1>1, <1>2, <1>3, <1>4, <1>5, <1>6, <1>7 DEF Next

\* The inductive invariant: the list is sound, what is open exists, and a thread
\* at a statement that uses its file has it open.
THEOREM InvariantHolds == Spec => []IInv
BY InitInv, NextInv, PTL DEF Spec

\* Files that are open or about to be deleted exist, and an operation knows its
\* file by its identifier or by none.
THEOREM FilesTyped == Spec => []TypeOK
<1>1. IInv => TypeOK
  BY DEF IInv, Sound, FilesSound, ThreadsSound, ThreadSound, TypeOK
<1>. QED
  BY <1>1, InvariantHolds, PTL

\* A file with a context that is gone from the disk is on no tree once the
\* cleanup that deleted it is over.
THEOREM DeletedLeaves == Spec => []DeletedFileLeavesList
<1>1. IInv => DeletedFileLeavesList
  BY DEF IInv
<1>. QED
  BY <1>1, InvariantHolds, PTL

\* The steps of the list: only these change it.
LEMMA ListChanges ==
  ASSUME [Next]_vars, nodes' # nodes
  PROVE  \/ \E p \in Pids :
              \/ \E img \in Files \cup {NoFile}, noresp \in Levels : AddProcessWatch(p, img, noresp)
              \/ \E parent \in Pids : OnProcessCreation(p, parent)
              \/ RemoveProcess(p)
         \/ \E p \in Actors : PostCreateAddFile(p) \/ PostCleanup(p)
         \/ TreatRenamedAsDeleted
BY DEF Next, vars, Operation, PreCreate, ExecuteChecks, NewFileChecks, OldFileChecks, Create,
   Test, Identified, FileCreated, FileNotCreated, Write, PostCreate, PostCreateChecks,
   SetFileContext, SetDisposition, PreSetInformation, DispositionSet, DispositionNotSet, Close,
   PreCleanup, FileClosed, DeleteWatchedFile, GetFileIdByPath, FileOwnerIsPid,
   RequestFileDeletion, DeleteRequestStep

LEMMA LostForAReason ==
  ASSUME IInv, [Next]_vars, NEW f \in Files, Owning(nodes, f) # {}, Owning(nodes', f) = {}
  PROVE  \/ disk[f] = "gone"
         \/ io[Client].pc = "requestDeletion" /\ io[Client].fileId = f
         \/ LostWithTree(nodes', nodes, f)
<1>1. nodes \in Seq(ProcessNode) /\ Sound(nodes) /\ Disjoint(nodes)
  BY DEF IInv, Sound
<1>2. ASSUME NEW p \in Pids, NEW img \in Files \cup {NoFile}, NEW noresp \in Levels,
             AddProcessWatch(p, img, noresp)
      PROVE  LostWithTree(nodes', nodes, f)
  <2>. DEFINE mid == AddProcessNode(nodes, p, img, noresp)
  <2>1. nodes' = AddFile(mid, img, p) /\ noresp \in t_noresp
    BY <1>2, LevelsAssumption DEF AddProcessWatch
  <2>2. /\ Sound(mid) /\ Disjoint(mid)
        /\ Owning(mid, f) = Owning(nodes, f) /\ \A i \in Owning(nodes, f) : mid[i] = nodes[i]
    BY <1>1, <2>1, AddProcessNodeSound, AddProcessNodeDisjoint, AddProcessNodeOwns
  <2>. HIDE DEF mid
  <2>3. LostWithTree(nodes', mid, f)
    BY <2>1, <2>2, AddFileOwns
  <2>. QED
    BY <2>2, <2>3 DEF LostWithTree
<1>3. ASSUME NEW p \in Pids, NEW parent \in Pids, OnProcessCreation(p, parent) PROVE FALSE
  BY <1>1, <1>3, AddProcessOwns DEF OnProcessCreation
<1>4. ASSUME NEW p \in Pids, RemoveProcess(p) PROVE LostWithTree(nodes', nodes, f)
  BY <1>1, <1>4, DeleteProcessOwns DEF RemoveProcess
<1>5. ASSUME NEW p \in Actors, PostCreateAddFile(p) PROVE LostWithTree(nodes', nodes, f)
  <2>1. io[p].fileId \in Files \cup {NoFile} /\ nodes' = AddFile(nodes, io[p].fileId, p)
    BY <1>5 DEF PostCreateAddFile, IInv, ThreadsSound, ThreadSound, Thread
  <2>. QED
    BY <1>1, <2>1, AddFileOwns
<1>6. ASSUME NEW p \in Actors, PostCleanup(p)
      PROVE  disk[f] = "gone" \/ LostWithTree(nodes', nodes, f)
  <2>1. disk[io[p].file] = "gone" /\ nodes' = DeleteFile(nodes, io[p].file)
    BY <1>6 DEF PostCleanup
  <2>. QED
    BY <1>1, <2>1, DeleteFileOwns
<1>7. ASSUME TreatRenamedAsDeleted
      PROVE  \/ io[Client].pc = "requestDeletion" /\ io[Client].fileId = f
             \/ LostWithTree(nodes', nodes, f)
  <2>1. io[Client].pc = "requestDeletion" /\ nodes' = DeleteFile(nodes, io[Client].fileId)
    BY <1>7 DEF TreatRenamedAsDeleted
  <2>. QED
    BY <1>1, <2>1, DeleteFileOwns
<1>. QED
  BY <1>2, <1>3, <1>4, <1>5, <1>6, <1>7, ListChanges

\* A file leaves the list because it is gone from the disk, because the client
\* has renamed it, or with a tree that is dead and does not protect it.
THEOREM StaysWatched == Spec => WatchedUntilDeleted
<1>1. ASSUME IInv, [Next]_vars
      PROVE  \A f \in Files :
               Owning(nodes, f) # {} /\ Owning(nodes', f) = {} =>
                 \/ disk[f] = "gone"
                 \/ io[Client].pc = "requestDeletion" /\ io[Client].fileId = f
                 \/ \E i \in Owning(nodes, f) :
                       /\ Unprotected(nodes[i], f)
                       /\ \A q \in nodes[i].processList : ~ContainsProcess(nodes', q)
  BY <1>1, LostForAReason DEF LostWithTree
<1>. QED
  BY <1>1, InvariantHolds, PTL DEF Spec, WatchedUntilDeleted

\* The steps of the post-operation of a create, as seen from the statement that
\* its thread is at.
LEMMA PostCreateSteps ==
  ASSUME IInv, [Next]_vars, NEW p \in Pids, io[p].pc \in {"post", "postId", "addFile"},
         io'[p].pc # io[p].pc
  PROVE  PostCreateChecks(p) \/ PostCreateAddFile(p)
<1>1. io \in [Actors -> Thread] /\ p \in Actors /\ p # Client /\ Client \in Actors
  BY ClientAssumption DEF IInv, ThreadsSound, Actors
<1>2. io'[p] # io[p]
  OBVIOUS
<1>3. ASSUME NEW q \in Actors, Operation(q)
      PROVE  PostCreateChecks(p) \/ PostCreateAddFile(p)
  <2>1. q = p
    BY <1>1, <1>2, <1>3
       DEF Operation, PreCreate, ExecuteChecks, NewFileChecks, OldFileChecks, Test, Identified,
           FileCreated, FileNotCreated, PostCreate, PostCreateChecks, PostCreateAddFile,
           SetFileContext, PreSetInformation, DispositionSet, DispositionNotSet, PreCleanup,
           FileClosed, PostCleanup, GoesTo, Ends
  <2>. QED
    BY <1>3, <2>1
       DEF Operation, PreCreate, ExecuteChecks, NewFileChecks, OldFileChecks, Test, Identified,
           FileCreated, FileNotCreated, PostCreate, SetFileContext, PreSetInformation,
           DispositionSet, DispositionNotSet, PreCleanup, FileClosed, PostCleanup
<1>4. ASSUME DeleteRequestStep PROVE FALSE
  BY <1>1, <1>2, <1>4
     DEF DeleteRequestStep, GetFileIdByPath, Test, FileOwnerIsPid, RequestFileDeletion,
         TreatRenamedAsDeleted, GoesTo, Ends
<1>5. ASSUME NEW q \in Pids, NEW f \in Files,
             \/ \E request \in Requests : Create(q, f, request)
             \/ SetDisposition(q, f) \/ Close(q, f)
      PROVE  FALSE
  <2>1. Free(q) /\ \E t : io' = [io EXCEPT ![q] = t]
    BY <1>5 DEF Create, SetDisposition, Close
  <2>. QED
    BY <1>1, <1>2, <2>1 DEF Free, Idle, Actors
<1>6. ASSUME NEW PID, NEW f \in Files, DeleteWatchedFile(PID, f) PROVE FALSE
  BY <1>1, <1>2, <1>6 DEF DeleteWatchedFile
<1>7. ASSUME NEW q \in Pids, NEW f \in Files, Write(q, f) PROVE FALSE
  BY <1>2, <1>7 DEF Write
<1>8. ASSUME NEW q \in Pids,
             \/ \E img \in Files \cup {NoFile}, noresp \in Levels : AddProcessWatch(q, img, noresp)
             \/ \E parent \in Pids : OnProcessCreation(q, parent)
             \/ RemoveProcess(q)
      PROVE  FALSE
  BY <1>2, <1>8 DEF AddProcessWatch, OnProcessCreation, RemoveProcess
<1>. QED
  BY <1>2, <1>3, <1>4, <1>5, <1>6, <1>7, <1>8 DEF Next, vars

LEMMA OpenEndsOwned ==
  ASSUME IInv, [Next]_vars, NEW p \in Pids, io[p].pc \in {"post", "postId", "addFile"},
         io[p].info # "opened", io'[p].pc \in {"idle", "addContext"}, ContainsProcess(nodes, p)
  PROVE  \/ OwnedWith(nodes', p, io[p].file)
         \/ io[p].pc = "postId"
         \/ \A h \in handles' : h.by = p => h.file # io[p].file
<1>1. p \in Actors /\ io \in [Actors -> Thread]
  BY DEF Actors, IInv, ThreadsSound
<1>2. PostCreateChecks(p) \/ PostCreateAddFile(p)
  BY PostCreateSteps
<1>3. CASE Test(p, "post", IF ContainsProcess(nodes, p) THEN "postId" ELSE "idle")
  <2>1. io'[p].pc = "postId"
    BY <1>1, <1>3 DEF Test, Thread
  <2>. QED
    BY <2>1
<1>4. CASE PostCreateAddFile(p)
  <2>1. io[p].pc = "addFile" /\ nodes' = AddFile(nodes, io[p].fileId, p)
    BY <1>4 DEF PostCreateAddFile
  <2>2. io[p].fileId = io[p].file
    BY <1>1, <2>1, ThreadAt DEF ThreadSound
  <2>3. CASE AddFileStatus(nodes, io[p].fileId, p) \in {"ADD_OK", "ADD_ALREADY_EXIST"}
    <3>1. nodes \in Seq(ProcessNode)
      BY DEF IInv, Sound
    <3>. QED
      BY <2>1, <2>2, <2>3, <3>1, AddFileTells
  <2>4. CASE AddFileStatus(nodes, io[p].fileId, p) \notin {"ADD_OK", "ADD_ALREADY_EXIST"}
    BY <1>4, <2>4 DEF PostCreateAddFile, Closed, HandleOf
  <2>. QED
    BY <2>3, <2>4
<1>. QED
  BY <1>2, <1>3, <1>4 DEF PostCreateChecks, Identified

\* When the pre-operation has asked for the post-operation and the file was
\* created or overwritten, the open of a process that is still watched succeeds
\* only with the file on its tree, but for a query of the identifier that fails.
THEOREM CreatedFileIsOwned == Spec => CreationIsOwned
<1>1. ASSUME IInv, [Next]_vars
      PROVE  \A p \in Pids :
               /\ io[p].pc \in {"post", "postId", "addFile"} /\ io[p].info # "opened"
               /\ io'[p].pc \in {"idle", "addContext"}
               /\ ContainsProcess(nodes, p)
               => \/ OwnedWith(nodes', p, io[p].file)
                  \/ io[p].pc = "postId"
                  \/ \A h \in handles' : h.by = p => h.file # io[p].file
  BY <1>1, OpenEndsOwned
<1>. QED
  BY <1>1, InvariantHolds, PTL DEF Spec, CreationIsOwned
=============================================================================
