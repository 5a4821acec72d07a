------------------------------ MODULE FileWatch ------------------------------
(***************************************************************************)
(* The file side of the driver: the minifilter callbacks (create, set      *)
(* information, cleanup) and the request DELETE_WATCHED_FILE.  They run in *)
(* the thread that does the file operation and interleave at every query   *)
(* of the file system and at every operation of the watch list; a process  *)
(* does one operation at a time, and has at most one handle of a file.  A  *)
(* process that is on no tree is one of the system's like any other.       *)
(*                                                                         *)
(* The file system is external.  A name belongs to one file, which is      *)
(* created at most once, and a file that has been deleted does not come    *)
(* back; the context of a file lasts as long as the file.                  *)
(***************************************************************************)
EXTENDS ProcessNodes

CONSTANTS
  Levels,    \* respawn-protection levels that the client asks for
  Client,    \* the thread that serves the requests of the client
  Requests,  \* how files are opened: disposition and desired access
  MaxBusy    \* bound: operations in progress at a time

ASSUME ClientAssumption == Client \notin Pids \cup {NoPid}

ASSUME LevelsAssumption == Levels \subseteq t_noresp

Dispositions == {"open", "openIf", "create", "overwrite", "overwriteIf"}

ASSUME RequestsAssumption ==
  Requests \subseteq [disp : Dispositions, write : BOOLEAN, execute : BOOLEAN]

ASSUME BusyAssumption == MaxBusy \in Nat \ {0}

VARIABLES
  nodes,     \* g_ProcessNodes, Items[0 .. ItemCount-1]
  disk,      \* what there is of each file
  pending,   \* files with the delete disposition set
  handles,   \* open handles
  contexts,  \* files with a FileContext attached
  io         \* the operation that each process is in

fsys == <<disk, pending, handles, contexts>>
vars == <<nodes, disk, pending, handles, contexts, io>>

Actors == Pids \cup {Client}

Idle == [ pc |-> "idle", file |-> NoFile, disp |-> "open", write |-> FALSE,
          fileId |-> NoFile, info |-> "opened", pid |-> NoPid, then |-> "idle" ]

Init ==
  /\ nodes = << >>
  /\ disk \in [Files -> {"unborn", "empty", "data"}]
  /\ pending = {} /\ handles = {} /\ contexts = {}
  /\ io = [p \in Actors |-> Idle]

Exists(f) == disk[f] \in {"empty", "data"}

HandleOf(p, f) == {h \in handles : h.by = p /\ h.file = f}

\* p may begin an operation.
Free(p) == io[p] = Idle /\ Cardinality({q \in Actors : io[q] # Idle}) < MaxBusy

GoesTo(p, s) == io' = [io EXCEPT ![p].pc = s]

Ends(p) == io' = [io EXCEPT ![p] = Idle]

\* What FltUtil::GetFileId may find: it opens the file once more, by its name,
\* which fails when there is none or it is being deleted, and can always fail.
GetFileId(f) == {NoFile} \cup {g \in Files \ pending : g = f /\ Exists(g)}

\* Whether the size that is found is 0: that of a name not found is, a size that
\* cannot be read is not.
SizeIsZero(f) ==
  {zero \in BOOLEAN :
     zero => \A g \in Files : g = f /\ Exists(g) => disk[g] = "empty" /\ g \notin pending}

-----------------------------------------------------------------------------
(* The watch list, as other threads change it                              *)

\* A process that is registered or created has not done any I/O yet.
Unstarted(p) == ~ContainsProcess(nodes, p) /\ io[p] = Idle /\ \A h \in handles : h.by # p

AddProcessWatch(p, img, noresp) ==
  /\ Unstarted(p)
  /\ img # NoFile => Exists(img)
  /\ nodes' = AddFile(AddProcessNode(nodes, p, img, noresp), img, p)
  /\ UNCHANGED <<fsys, io>>

OnProcessCreation(p, parent) ==
  /\ Unstarted(p)
  /\ nodes' = AddProcess(nodes, p, parent)
  /\ UNCHANGED <<fsys, io>>

\* The exit of a process, or its termination by the client.
RemoveProcess(p) ==
  /\ ContainsProcess(nodes, p)
  /\ nodes' = DeleteProcess(nodes, p)
  /\ UNCHANGED <<fsys, io>>

-----------------------------------------------------------------------------
(* MyFilterProtectPreCreate                                                *)

Create(p, f, request) ==
  /\ Free(p) /\ HandleOf(p, f) = {} /\ disk[f] \in {"unborn", "empty", "data"}
  /\ io' = [io EXCEPT ![p] = [Idle EXCEPT !.pc = IF request.execute THEN "execId" ELSE "watched",
                                          !.file = f, !.disp = request.disp,
                                          !.write = request.write]]
  /\ UNCHANGED <<nodes, fsys>>

\* A test of the thread of p at pc leads to the statement s; the fileId of a
\* block that ends goes out of scope.
Test(p, pc, s) ==
  /\ io[p].pc = pc
  /\ io' = [io EXCEPT ![p] = IF s = "idle" THEN Idle
                             ELSE IF s \in {"watched", "create", "set"}
                             THEN [@ EXCEPT !.pc = s, !.fileId = NoFile]
                             ELSE [@ EXCEPT !.pc = s]]
  /\ UNCHANGED <<nodes, fsys>>

\* The thread of p at pc has an identifier of its file and goes on to s.
Identified(p, pc, fileId, s) ==
  /\ io[p].pc = pc
  /\ io' = [io EXCEPT ![p] = IF s = "idle" THEN Idle
                             ELSE [@ EXCEPT !.fileId = fileId, !.pc = s]]
  /\ UNCHANGED <<nodes, fsys>>

IsProcessInFileOwners(p, fileId) ==
  /\ Owning(nodes, fileId) # {}
  /\ p \in nodes[First(Owning(nodes, fileId))].processList

ExecuteChecks(p) ==
  \/ \E fileId \in GetFileId(io[p].file) : Identified(p, "execId", fileId, "execWatched")
  \/ Test(p, "execWatched", IF GetFileOwner(nodes, io[p].fileId) # NoPid
                            THEN "execOwner" ELSE "watched")
  \/ Test(p, "execOwner", IF IsProcessInFileOwners(p, io[p].fileId)
                          THEN "watched" ELSE "idle")

\* IsCreateOrOverwriteEmpty
IsNewFile(disp, zero) == disp = "create" \/ (disp # "open" /\ zero)

\* A new file is let through to the post-operation, but not an alternate
\* stream, and not beyond what the tree can own.
NewFileChecks(p) ==
  \/ Test(p, "watched", IF ContainsProcess(nodes, p) THEN "size" ELSE "create")
  \/ \E zero \in SizeIsZero(io[p].file) :
        Test(p, "size", IF IsNewFile(io[p].disp, zero) THEN "canAddFile" ELSE "fileId")
  \/ Test(p, "canAddFile", "idle")
  \/ Test(p, "canAddFile", IF CanAddFileStatus(nodes, p) = "ADD_OK"
                           THEN "createSync" ELSE "idle")

OldFileChecks(p) ==
  \/ \E fileId \in GetFileId(io[p].file) :
        Identified(p, "fileId", fileId,
          CASE fileId = NoFile -> IF io[p].disp # "open" \/ io[p].write THEN "idle" ELSE "create"
            [] fileId # NoFile -> IF io[p].write THEN "owner" ELSE "create")
  \/ Test(p, "owner", IF IsProcessInFileOwners(p, io[p].fileId) THEN "create" ELSE "idle")

PreCreate(p) == ExecuteChecks(p) \/ NewFileChecks(p) \/ OldFileChecks(p)

\* The file system; the post-operation runs only when it was asked for.
FileCreated(p, info) ==
  LET f == io[p].file  disp == io[p].disp
  IN  /\ io[p].pc \in {"create", "createSync"}
      /\ f \notin pending
      /\ \/ /\ Exists(f) /\ disp \in {"open", "openIf"} /\ info = "opened"
            /\ UNCHANGED disk
         \/ /\ Exists(f) /\ disp \in {"overwrite", "overwriteIf"} /\ info = "overwritten"
            /\ disk' = [disk EXCEPT ![f] = "empty"]
         \/ /\ disk[f] = "unborn" /\ disp \in {"openIf", "create", "overwriteIf"}
            /\ info = "created"
            /\ disk' = [disk EXCEPT ![f] = "empty"]
      /\ handles' = handles \cup {[by |-> p, file |-> f, write |-> io[p].write]}
      /\ io' = [io EXCEPT ![p] = IF @.pc = "create" THEN Idle
                                 ELSE [Idle EXCEPT !.pc = "post", !.file = f, !.info = info]]
      /\ UNCHANGED <<nodes, pending, contexts>>

FileNotCreated(p) == Test(p, "create", "idle") \/ Test(p, "createSync", "idle")

\* A process that has the file open for writing writes to it.
Write(p, f) ==
  /\ \E h \in HandleOf(p, f) : h.write
  /\ disk' = [disk EXCEPT ![f] = "data"]
  /\ UNCHANGED <<nodes, pending, handles, contexts, io>>

-----------------------------------------------------------------------------
(* MyFilterProtectPostCreate                                               *)

PostCreateChecks(p) ==
  \/ Test(p, "post", IF ContainsProcess(nodes, p) THEN "postId" ELSE "idle")
  \/ \E fileId \in GetFileId(io[p].file) :
        Identified(p, "postId", fileId,
          IF fileId = NoFile \/ io[p].info = "opened" THEN "idle" ELSE "addFile")

\* The last handle of a file with the delete disposition takes it away: by a
\* cleanup ("gone"), or by a cancelled open, which no filter is told of.
Closed(p, f, how) ==
  LET deleted == f \in pending /\ \A h \in handles : h.file = f => h.by = p
  IN  /\ handles' = handles \ HandleOf(p, f)
      /\ pending' = IF deleted THEN pending \ {f} ELSE pending
      /\ disk' = IF deleted THEN [disk EXCEPT ![f] = how] ELSE disk

\* Fault: only an open over the limit is cancelled.
PostCreateAddFileOverLimit(p) ==
  LET status == AddFileStatus(nodes, io[p].fileId, p)
  IN  /\ io[p].pc = "addFile"
      /\ nodes' = AddFile(nodes, io[p].fileId, p)
      /\ IF status = "ADD_OK" THEN GoesTo(p, "addContext") ELSE Ends(p)
      /\ IF status # "ADD_LIMIT_EXHAUSTED"
         THEN UNCHANGED fsys
         ELSE Closed(p, io[p].file, "cancelled") /\ UNCHANGED contexts

\* An open that the list refuses is cancelled, below this filter only.
PostCreateAddFile(p) ==
  LET status == AddFileStatus(nodes, io[p].fileId, p)
  IN  /\ io[p].pc = "addFile"
      /\ nodes' = AddFile(nodes, io[p].fileId, p)
      /\ IF status = "ADD_OK" THEN GoesTo(p, "addContext") ELSE Ends(p)
      /\ IF status \in {"ADD_OK", "ADD_ALREADY_EXIST"}
         THEN UNCHANGED fsys
         ELSE Closed(p, io[p].file, "cancelled") /\ UNCHANGED contexts

SetFileContext(p, pc, s) ==
  /\ io[p].pc = pc
  /\ contexts' = contexts \cup {io[p].file}
  /\ IF s = "idle" THEN Ends(p) ELSE GoesTo(p, s)
  /\ UNCHANGED <<nodes, disk, pending, handles>>

PostCreate(p) ==
  PostCreateChecks(p) \/ PostCreateAddFile(p) \/ SetFileContext(p, "addContext", "idle")

-----------------------------------------------------------------------------
(* MyFilterProtectPreSetInformation                                        *)

SetDisposition(p, f) ==
  /\ Free(p) /\ HandleOf(p, f) # {}
  /\ io' = [io EXCEPT ![p] = [Idle EXCEPT !.pc = "setWatched", !.file = f]]
  /\ UNCHANGED <<nodes, fsys>>

PreSetInformation(p) ==
  LET f == io[p].file
  IN  \/ Test(p, "setWatched", IF ContainsProcess(nodes, p) THEN "setId" ELSE "set")
      \/ \E fileId \in IF f \in contexts THEN {f} ELSE GetFileId(f) :
            Identified(p, "setId", fileId, "setOwner")
      \/ Test(p, "setOwner", IF IsProcessInFileOwners(p, io[p].fileId)
                             THEN "set" ELSE "idle")

DispositionSet(p) ==
  /\ io[p].pc = "set"
  /\ pending' = pending \cup {io[p].file}
  /\ Ends(p)
  /\ UNCHANGED <<nodes, disk, handles, contexts>>

DispositionNotSet(p) == Test(p, "set", "idle")

-----------------------------------------------------------------------------
(* MyPreCleanup and MyPostCleanup                                          *)

Close(p, f) ==
  /\ Free(p) /\ HandleOf(p, f) # {}
  /\ io' = [io EXCEPT ![p] = [Idle EXCEPT !.pc = "cleanup", !.file = f]]
  /\ UNCHANGED <<nodes, fsys>>

PreCleanup(p) ==
  \/ \E fileId \in GetFileId(io[p].file) :
        Test(p, "cleanup", IF fileId = NoFile THEN "close" ELSE "closeOwner")
  \/ Test(p, "closeOwner", IF GetFileOwner(nodes, io[p].file) # NoPid
                           THEN "closeContext" ELSE "close")
  \/ SetFileContext(p, "closeContext", "close")

FileClosed(p) ==
  /\ io[p].pc = "close"
  /\ Closed(p, io[p].file, "gone")
  /\ GoesTo(p, "postCleanup")
  /\ UNCHANGED <<nodes, contexts>>

\* Fault: the identifier is looked for by name, when the file is gone.
PostCleanupByName(p) ==
  LET f == io[p].file
  IN  /\ io[p].pc = "postCleanup"
      /\ \E fileId \in GetFileId(f) :
            nodes' = IF disk[f] = "gone" THEN DeleteFile(nodes, fileId) ELSE nodes
      /\ IF io[p].then = "idle" THEN Ends(p) ELSE GoesTo(p, io[p].then)
      /\ UNCHANGED fsys

\* Fault: a file that is only closed is taken for deleted.
PostCleanupOfAnyFile(p) ==
  LET f == io[p].file
  IN  /\ io[p].pc = "postCleanup"
      /\ nodes' = IF f \in contexts THEN DeleteFile(nodes, f) ELSE nodes
      /\ IF io[p].then = "idle" THEN Ends(p) ELSE GoesTo(p, io[p].then)
      /\ UNCHANGED fsys

\* STATUS_FILE_DELETED is what the file system says of a deleted file only.
PostCleanup(p) ==
  LET f == io[p].file
  IN  /\ io[p].pc = "postCleanup"
      /\ nodes' = IF disk[f] = "gone" /\ f \in contexts THEN DeleteFile(nodes, f) ELSE nodes
      /\ IF io[p].then = "idle" THEN Ends(p) ELSE GoesTo(p, io[p].then)
      /\ UNCHANGED fsys

-----------------------------------------------------------------------------
(* _DeleteWatchedFile, a request of the client                             *)

DeleteWatchedFile(PID, f) ==
  /\ Free(Client) /\ HandleOf(Client, f) = {}
  /\ io' = [io EXCEPT ![Client] = [Idle EXCEPT !.pc = "fileIdByPath", !.file = f, !.pid = PID]]
  /\ UNCHANGED <<nodes, fsys>>

ForClient == [by |-> Client, file |-> io[Client].file, write |-> FALSE]

\* GetFileIdByPath opens the file and closes it, filtered like any other.
GetFileIdByPath ==
  LET f == io[Client].file
  IN  /\ io[Client].pc = "fileIdByPath"
      /\ f \in GetFileId(f)
      /\ handles' = handles \cup {ForClient}
      /\ io' = [io EXCEPT ![Client].pc = "cleanup", ![Client].fileId = f,
                          ![Client].then = "fileOwner"]
      /\ UNCHANGED <<nodes, disk, pending, contexts>>

FileOwnerIsPid ==
  /\ io[Client].pc = "fileOwner"
  /\ io' = [io EXCEPT ![Client] =
              IF GetFileOwner(nodes, @.fileId) # @.pid THEN Idle
              ELSE [@ EXCEPT !.pc = "requestDeletion", !.pid = NoPid, !.then = "idle"]]
  /\ UNCHANGED <<nodes, fsys>>

\* Fault: the file is not held open while it is marked.
RequestFileDeletionUnopened ==
  LET f == io[Client].file
  IN  /\ io[Client].pc = "requestDeletion"
      /\ f \in GetFileId(f)
      /\ pending' = pending \cup {f}
      /\ GoesTo(Client, "cleanup")
      /\ UNCHANGED <<nodes, disk, handles, contexts>>

\* RequestFileDeletion: open with DELETE, set the disposition, close.
RequestFileDeletion ==
  LET f == io[Client].file
  IN  /\ io[Client].pc = "requestDeletion"
      /\ f \in GetFileId(f)
      /\ handles' = handles \cup {ForClient}
      /\ pending' = pending \cup {f}
      /\ GoesTo(Client, "cleanup")
      /\ UNCHANGED <<nodes, disk, contexts>>

\* STATUS_CANNOT_DELETE, and the name has RENAMED_EXTENSION.
TreatRenamedAsDeleted ==
  /\ io[Client].pc = "requestDeletion"
  /\ nodes' = DeleteFile(nodes, io[Client].fileId)
  /\ Ends(Client)
  /\ UNCHANGED fsys

DeleteRequestStep ==
  \/ GetFileIdByPath
  \/ Test(Client, "fileIdByPath", "fileOwner")
  \/ FileOwnerIsPid
  \/ RequestFileDeletion
  \/ Test(Client, "requestDeletion", "idle")
  \/ TreatRenamedAsDeleted

-----------------------------------------------------------------------------
Operation(p) ==
  \/ PreCreate(p) \/ FileNotCreated(p) \/ PostCreate(p)
  \/ \E info \in {"opened", "overwritten", "created"} : FileCreated(p, info)
  \/ PreSetInformation(p) \/ DispositionSet(p) \/ DispositionNotSet(p)
  \/ PreCleanup(p) \/ FileClosed(p) \/ PostCleanup(p)

Next ==
  \/ \E p \in Pids :
        \/ \E img \in Files \cup {NoFile}, noresp \in Levels : AddProcessWatch(p, img, noresp)
        \/ \E parent \in Pids : OnProcessCreation(p, parent)
        \/ RemoveProcess(p)
        \/ \E f \in Files :
              \/ \E request \in Requests : Create(p, f, request)
              \/ Write(p, f) \/ SetDisposition(p, f) \/ Close(p, f)
  \/ \E p \in Actors : Operation(p)
  \/ \E PID \in Pids \cup {NoPid}, f \in Files : DeleteWatchedFile(PID, f)
  \/ DeleteRequestStep

Spec == Init /\ [][Next]_vars

-----------------------------------------------------------------------------
\* An operation in progress is on one file, and knows it by its identifier or
\* by none; only files that exist are open or about to be deleted.
TypeOK ==
  /\ nodes \in Seq(ProcessNode)
  /\ disk \in [Files -> {"unborn", "empty", "data", "gone", "cancelled"}]
  /\ pending \subseteq {h.file : h \in handles}
  /\ handles \subseteq [by : Actors, file : {f \in Files : Exists(f)}, write : BOOLEAN]
  /\ contexts \subseteq Files
  /\ \A p \in Actors :
        /\ io[p].fileId \in {io[p].file, NoFile}
        /\ io[p].pc = "idle" <=> io[p].file = NoFile

\* The tree of p owns f.
OwnedWith(ns, p, f) ==
  \E i \in DOMAIN ns : p \in ns[i].processList /\ f \in ns[i].filesList

\* fs_filters.cpp:376-393: when the pre-operation has asked for the
\* post-operation, which it does for a file that is new or empty, and the file
\* has then been created or overwritten, the open of a process that is still
\* watched succeeds only with the file on its tree, whatever happened to the
\* list since it was tested for room; else the open is cancelled.  It is not
\* when the query of the identifier fails (:362): the open is granted, and
\* nothing is added.  Nor does this speak of opens without a post-operation: a
\* file with data is overwritten, whoever owns it, by an open that asks for no
\* write access (:316, :329).
CreationIsOwned ==
  [][ \A p \in Pids :
        /\ io[p].pc \in {"post", "postId", "addFile"} /\ io[p].info # "opened"
        /\ io'[p].pc \in {"idle", "addContext"}
        /\ ContainsProcess(nodes, p)
        => \/ OwnedWith(nodes', p, io[p].file)
           \/ io[p].pc = "postId"
           \/ \A h \in handles' : h.by = p => h.file # io[p].file ]_vars

\* A file that has a context and is gone from the disk is on no tree, once the
\* cleanup that deleted it is over: whoever deleted it, and whatever the list
\* did meanwhile, MyPostCleanup recognises it.
DeletedFileLeavesList ==
  \A f \in contexts :
    disk[f] = "gone" /\ (\A p \in Actors : io[p].pc = "postCleanup" => io[p].file # f)
      => Owning(nodes, f) = {}

\* _isEmptyNode keeps no tree without processes for f alone.
Unprotected(n, f) ==
  \/ n.respawnProtect = "NORESP_NO_RESTRICTION"
  \/ n.respawnProtect = "NORESP_DROPPED_FILES" /\ f = n.imgFile

\* A file leaves the list because it is gone from the disk, because the client
\* has renamed it, or because its tree has no process left and does not
\* protect it: the image of a dead tree may go when another file is deleted.
WatchedUntilDeleted ==
  [][ \A f \in Files :
        Owning(nodes, f) # {} /\ Owning(nodes', f) = {} =>
          \/ disk[f] = "gone"
          \/ io[Client].pc = "requestDeletion" /\ io[Client].fileId = f
          \/ \E i \in Owning(nodes, f) :
                /\ Unprotected(nodes[i], f)
                /\ \A q \in nodes[i].processList : ~ContainsProcess(nodes', q) ]_vars

-----------------------------------------------------------------------------
=============================================================================
