---------------------------- MODULE ProcessWatch ----------------------------
(***************************************************************************)
(* The process side of the driver: the process-notify callback (creation   *)
(* and exit) and the two IOCTLs that name a process, run by threads that   *)
(* interleave between the points where they take the list's mutex.         *)
(*                                                                         *)
(*   creation  runs in the creating thread, before the new process runs:   *)
(*             ContainsProcess then AddProcess, for the parent and then    *)
(*             for the creator when it is another process                  *)
(*   exit      runs in the last thread of the process that exits:          *)
(*             WaitForProcessDeletion holds a root until a client has      *)
(*             taken it off the list, and takes off anything else          *)
(*   client    one request at a time: ADD_TO_WATCHED or TERMINATE_WATCHED  *)
(*                                                                         *)
(* The kernel is external: processes are created, end, and stay as zombies *)
(* while an object refers to them; then their PID may be used again.       *)
(***************************************************************************)
EXTENDS ProcessNodes

CONSTANTS
  Clients,   \* threads of the client application
  Levels,    \* respawn-protection levels that clients ask for
  Outside    \* a process that nobody watches (the client, a system process)

ASSUME OutsideAssumption == Outside \notin Pids \cup {NoPid}

ASSUME LevelsAssumption == Levels \subseteq t_noresp

VARIABLES
  nodes,          \* g_ProcessNodes, Items[0 .. ItemCount-1]
  deletionEvent,  \* the notification event is in the signalled state
  proc,           \* what the process with this PID, if any, is doing
  origin,         \* while it is created: ParentProcessId and the creating PID
  doomed,         \* processes ZwTerminateProcess was called on
  client          \* the request a client is in

vars == <<nodes, deletionEvent, proc, origin, doomed, client>>

Creating == {"parentCheck", "parentAdd", "creatorCheck", "creatorAdd"}

Exiting == {"exitCheck", "exitReset", "exitEnter", "exitWait", "exitDelete"}

ProcState == {"none", "running", "zombie"} \cup Creating \cup Exiting

NoOrigin == [parent |-> Outside, creator |-> Outside]

Idle == [ pc |-> "idle", pid |-> NoPid, fileId |-> NoFile,
          noresp |-> "NORESP_NO_RESTRICTION", status |-> "ADD_OK" ]

Init ==
  /\ nodes = << >>
  /\ deletionEvent = FALSE
  /\ proc = [p \in Pids |-> "none"]
  /\ origin = [p \in Pids |-> NoOrigin]
  /\ doomed = {}
  /\ client = [c \in Clients |-> Idle]

-----------------------------------------------------------------------------
(* The kernel                                                              *)

CreatesProcess(p) == \E q \in Pids : proc[q] \in Creating /\ origin[q].creator = p

\* Another process can be named as the parent of the one that is created.
CreateProcess(p, parent, creator) ==
  /\ proc[p] = "none"
  /\ creator # Outside => proc[creator] = "running"
  /\ parent \notin {Outside, creator} => proc[parent] \in {"running"} \cup Exiting
  /\ proc' = [proc EXCEPT ![p] = "parentCheck"]
  /\ origin' = [origin EXCEPT ![p] = [parent |-> parent, creator |-> creator]]
  /\ UNCHANGED <<nodes, deletionEvent, doomed, client>>

\* The last thread of p ends, so none of its threads is creating a process.
BeginExit(p) ==
  /\ proc[p] = "running"
  /\ ~CreatesProcess(p)
  /\ proc' = [proc EXCEPT ![p] = "exitCheck"]
  /\ UNCHANGED <<nodes, deletionEvent, origin, doomed, client>>

\* The process object goes and the PID is free; a creation in progress
\* refers to the parent and to the creator.
Reap(p) ==
  /\ proc[p] = "zombie"
  /\ \A q \in Pids : proc[q] \in Creating => p \notin {origin[q].parent, origin[q].creator}
  /\ proc' = [proc EXCEPT ![p] = "none"]
  /\ doomed' = doomed \ {p}
  /\ UNCHANGED <<nodes, deletionEvent, origin, client>>

-----------------------------------------------------------------------------
(* _OnProcessCreation                                                      *)

\* The callback of p goes on to state s, or is over and p runs.
CreationGoesTo(p, s) ==
  /\ proc' = [proc EXCEPT ![p] = s]
  /\ origin' = [origin EXCEPT ![p] = IF s = "running" THEN NoOrigin ELSE @]

\* Fault: the creator is not looked at.
AfterParentOnly(p) == "running"

AfterParent(p) ==
  IF origin[p].parent # origin[p].creator THEN "creatorCheck" ELSE "running"

CheckParent(p) ==
  /\ proc[p] = "parentCheck"
  /\ CreationGoesTo(p, IF ContainsProcess(nodes, origin[p].parent)
                       THEN "parentAdd" ELSE AfterParent(p))
  /\ UNCHANGED <<nodes, deletionEvent, doomed, client>>

CheckCreator(p) ==
  /\ proc[p] = "creatorCheck"
  /\ CreationGoesTo(p, IF ContainsProcess(nodes, origin[p].creator)
                       THEN "creatorAdd" ELSE "running")
  /\ UNCHANGED <<nodes, deletionEvent, doomed, client>>

\* Data::AddProcess terminates the process that does not fit.
AddUnder(p, parentPid, otherwise) ==
  LET status == AddProcessStatus(nodes, p, parentPid)
  IN  /\ nodes' = AddProcess(nodes, p, parentPid)
      /\ doomed' = IF status = "ADD_LIMIT_EXHAUSTED" THEN doomed \cup {p} ELSE doomed
      /\ CreationGoesTo(p, IF status \in {"ADD_OK", "ADD_ALREADY_EXIST"}
                           THEN "running" ELSE otherwise)
      /\ UNCHANGED <<deletionEvent, client>>

AddToParent(p) ==
  proc[p] = "parentAdd" /\ AddUnder(p, origin[p].parent, AfterParent(p))

AddToCreator(p) ==
  proc[p] = "creatorAdd" /\ AddUnder(p, origin[p].creator, "running")

CreationStep(p) ==
  CheckParent(p) \/ AddToParent(p) \/ CheckCreator(p) \/ AddToCreator(p)

-----------------------------------------------------------------------------
(* WaitForProcessDeletion, called by _OnProcessExit                        *)

\* Fault: a node that is left empty keeps its slot.
DeleteWithoutDestroy(p) ==
  /\ nodes' = [i \in DOMAIN nodes |-> [nodes[i] EXCEPT !.processList = @ \ {p}]]
  /\ deletionEvent' = (deletionEvent \/ DeletionSetsEvent(nodes, p))

\* ProcessNodesList::DeleteProcess; KeSetEvent ends every wait in progress.
Delete(p) ==
  /\ nodes' = DeleteProcess(nodes, p)
  /\ deletionEvent' = (deletionEvent \/ DeletionSetsEvent(nodes, p))

AfterDelete(p) ==
  [q \in Pids |-> IF DeletionSetsEvent(nodes, p) /\ proc[q] = "exitWait"
                  THEN "exitCheck" ELSE proc[q]]

\* The tests of the loop come to the statement s.
ExitGoesTo(p, s) ==
  /\ proc[p] = "exitCheck"
  /\ proc' = [proc EXCEPT ![p] = s]
  /\ UNCHANGED <<nodes, deletionEvent, origin, doomed, client>>

\* Fault: only roots are looked for, and a child is left on the list.
ExitCheckForgetsChild(p) ==
  ExitGoesTo(p, IF GetProcessOwner(nodes, p) = p THEN "exitReset" ELSE "zombie")

\* Fault: a root is taken off the list like any other process.
ExitCheckPermitsRoot(p) ==
  ExitGoesTo(p, IF ContainsProcess(nodes, p) THEN "exitDelete" ELSE "zombie")

\* Fault: every process of a tree is held, not the root only.
ExitCheckHoldsChild(p) ==
  ExitGoesTo(p, IF ContainsProcess(nodes, p) THEN "exitReset" ELSE "zombie")

ExitCheck(p) ==
  LET owner == GetProcessOwner(nodes, p)
  IN  ExitGoesTo(p, IF owner = p THEN "exitReset"
                    ELSE IF owner = NoPid THEN "zombie"
                    ELSE "exitDelete")

ExitReset(p) ==
  /\ proc[p] = "exitReset"
  /\ deletionEvent' = FALSE
  /\ proc' = [proc EXCEPT ![p] = "exitEnter"]
  /\ UNCHANGED <<nodes, origin, doomed, client>>

\* KeWaitForSingleObject without a timeout: at once, or not before a signal.
ExitWait(p) ==
  /\ proc[p] = "exitEnter"
  /\ proc' = [proc EXCEPT ![p] = IF deletionEvent THEN "exitCheck" ELSE "exitWait"]
  /\ UNCHANGED <<nodes, deletionEvent, origin, doomed, client>>

\* The wait is alertable, and its status is not looked at.
Alerted(p) ==
  /\ proc[p] = "exitWait"
  /\ proc' = [proc EXCEPT ![p] = "exitCheck"]
  /\ UNCHANGED <<nodes, deletionEvent, origin, doomed, client>>

ExitDelete(p) ==
  /\ proc[p] = "exitDelete"
  /\ Delete(p)
  /\ proc' = [AfterDelete(p) EXCEPT ![p] = "zombie"]
  /\ UNCHANGED <<origin, doomed, client>>

ExitStep(p) == ExitCheck(p) \/ ExitReset(p) \/ ExitWait(p) \/ ExitDelete(p)

-----------------------------------------------------------------------------
(* IOCTLs: _AddProcessWatch and _TerminateWatched                          *)

\* PsLookupProcessByProcessId finds the process; if not, nothing happens.
RequestWatch(c, p, fileId, noresp) ==
  /\ client[c] = Idle
  /\ proc[p] # "none"
  /\ client' = [client EXCEPT ![c] = [ pc |-> "addNode", pid |-> p, fileId |-> fileId,
                                       noresp |-> noresp, status |-> "ADD_OK" ]]
  /\ UNCHANGED <<nodes, deletionEvent, proc, origin, doomed>>

\* The test before AddFile is of the status of the lookup, so that it is
\* called whatever the status of the node.
AddNode(c) ==
  LET p      == client[c].pid
      status == AddProcessNodeStatus(nodes, p)
  IN  /\ client[c].pc = "addNode"
      /\ nodes' = AddProcessNode(nodes, p, client[c].fileId, client[c].noresp)
      /\ doomed' = IF status = "ADD_LIMIT_EXHAUSTED" /\ proc[p] # "none"
                   THEN doomed \cup {p} ELSE doomed
      /\ client' = [client EXCEPT ![c] =
                      IF @.fileId = NoFile THEN Idle
                      ELSE [@ EXCEPT !.pc = "addFile", !.status = status]]
      /\ UNCHANGED <<deletionEvent, proc, origin>>

AddImage(c) ==
  /\ client[c].pc = "addFile"
  /\ nodes' = AddFile(nodes, client[c].fileId, client[c].pid)
  /\ client' = [client EXCEPT ![c] = Idle]
  /\ UNCHANGED <<deletionEvent, proc, origin, doomed>>

\* A process that is not watched is left alone.
RequestTerminate(c, p) ==
  /\ client[c] = Idle
  /\ ContainsProcess(nodes, p)
  /\ client' = [client EXCEPT ![c] = [Idle EXCEPT !.pc = "terminate", !.pid = p]]
  /\ UNCHANGED <<nodes, deletionEvent, proc, origin, doomed>>

\* Fault: the terminated process is not taken off the list.
TerminateWithoutDelete(c) ==
  /\ client[c].pc = "terminate"
  /\ proc[client[c].pid] # "none"
  /\ doomed' = doomed \cup {client[c].pid}
  /\ client' = [client EXCEPT ![c] = Idle]
  /\ UNCHANGED <<nodes, deletionEvent, proc, origin>>

\* A process that is ending already counts as terminated.
Terminate(c) ==
  /\ client[c].pc = "terminate"
  /\ proc[client[c].pid] # "none"
  /\ doomed' = doomed \cup {client[c].pid}
  /\ client' = [client EXCEPT ![c].pc = "delete"]
  /\ UNCHANGED <<nodes, deletionEvent, proc, origin>>

\* ZwOpenProcess or ZwTerminateProcess fails: the process stays on the list.
TerminateFails(c) ==
  /\ client[c].pc = "terminate"
  /\ client' = [client EXCEPT ![c] = Idle]
  /\ UNCHANGED <<nodes, deletionEvent, proc, origin, doomed>>

Unwatch(c) ==
  /\ client[c].pc = "delete"
  /\ Delete(client[c].pid)
  /\ proc' = AfterDelete(client[c].pid)
  /\ client' = [client EXCEPT ![c] = Idle]
  /\ UNCHANGED <<origin, doomed>>

ClientStep(c) ==
  AddNode(c) \/ AddImage(c) \/ Terminate(c) \/ TerminateFails(c) \/ Unwatch(c)

\* MyPostCleanup: a watched file is gone from the disk.
FileDeleted(fileId) ==
  /\ nodes' = DeleteFile(nodes, fileId)
  /\ UNCHANGED <<deletionEvent, proc, origin, doomed, client>>

-----------------------------------------------------------------------------
Internal ==
  \/ \E p \in Pids : CreationStep(p) \/ ExitStep(p) \/ Alerted(p)
  \/ \E c \in Clients : ClientStep(c)
  \/ \E f \in Files : FileDeleted(f)

(* Any request at any time.                                                *)
Next ==
  \/ Internal
  \/ \E p \in Pids, parent, creator \in Pids \cup {Outside} :
        CreateProcess(p, parent, creator)
  \/ \E p \in Pids : BeginExit(p) \/ Reap(p)
  \/ \E c \in Clients, p \in Pids :
        \/ RequestTerminate(c, p)
        \/ \E f \in Files \cup {NoFile}, noresp \in Levels : RequestWatch(c, p, f, noresp)

Spec == Init /\ [][Next]_vars

(* Requests of a client that holds a handle to the process it names and    *)
(* registers a process that it has created suspended and not terminated:   *)
(* until the request is answered the PID is not recycled, and a process    *)
(* that is being registered neither ends nor creates another, nor does     *)
(* another request name it.                                                *)
InUse(p) == \E c \in Clients : client[c].pid = p

Suspended(p) == \E c \in Clients : client[c].pid = p /\ client[c].pc \in {"addNode", "addFile"}

HoldingNext ==
  \/ Internal
  \/ \E p \in Pids, parent, creator \in Pids \cup {Outside} :
        ~Suspended(creator) /\ CreateProcess(p, parent, creator)
  \/ \E p \in Pids : ~Suspended(p) /\ BeginExit(p)
  \/ \E p \in Pids : ~InUse(p) /\ Reap(p)
  \/ \E c \in Clients, p \in Pids :
        \/ ~Suspended(p) /\ RequestTerminate(c, p)
        \/ /\ proc[p] = "running" /\ ~CreatesProcess(p)
           /\ p \notin doomed /\ ~InUse(p)
           /\ \E f \in Files \cup {NoFile}, noresp \in Levels : RequestWatch(c, p, f, noresp)

HoldingSpec == Init /\ [][HoldingNext]_vars

(* Callbacks and requests that have begun are carried on by the threads    *)
(* they run in, and a terminated process ends: each of its threads ends    *)
(* once it leaves the kernel.                                              *)
Fairness ==
  /\ \A p \in Pids :
       /\ WF_vars(CreationStep(p))
       /\ WF_vars(ExitStep(p))
       /\ SF_vars(p \in doomed /\ ~Suspended(p) /\ BeginExit(p))
  /\ \A c \in Clients : WF_vars(ClientStep(c))

FairSpec == HoldingSpec /\ Fairness

-----------------------------------------------------------------------------
\* Every variable holds what the code can put there; a status is kept only
\* between AddProcessNode and AddFile.
TypeOK ==
  /\ nodes \in Seq(ProcessNode)
  /\ deletionEvent \in BOOLEAN
  /\ proc \in [Pids -> ProcState]
  /\ origin \in [Pids -> [parent : Pids \cup {Outside}, creator : Pids \cup {Outside}]]
  /\ doomed \subseteq Pids
  /\ client \in [Clients ->
       [ pc : {"idle", "addNode", "addFile", "terminate", "delete"},
         pid : Pids \cup {NoPid}, fileId : Files \cup {NoFile}, noresp : t_noresp,
         status : {"ADD_OK", "ADD_FORBIDDEN", "ADD_LIMIT_EXHAUSTED"} ]]

\* A process that has left the exit callback, and a PID that is free, is on
\* no tree: otherwise the next process with this PID would be taken for it.
GoneIsUnwatched ==
  \A p \in Pids : proc[p] \in {"none", "zombie"} => ~ContainsProcess(nodes, p)

\* A process leaves the list on a client's request that names it, or, unless
\* it is the root of its tree, at the end of its own exit callback: "if the
\* given PID is a root, don't let it terminate without permission".
WatchedUntilReleased ==
  [][ \A p \in Pids :
        ContainsProcess(nodes, p) /\ ~ContainsProcess(nodes', p) =>
          \/ \E c \in Clients : client[c].pc = "delete" /\ client[c].pid = p
          \/ proc[p] = "exitDelete" /\ GetProcessOwner(nodes, p) # p ]_vars

\* When the creation callback ends and the creator is on the list, the new
\* process is too, or is being terminated: no interleaving of the callback
\* with requests lets a child of a watched process run unwatched.
CreatorTracksChild ==
  [][ \A p \in Pids :
        /\ proc[p] \in Creating /\ proc'[p] = "running"
        /\ ContainsProcess(nodes', origin[p].creator)
        => ContainsProcess(nodes', p) \/ p \in doomed' ]_vars

\* A registration that is refused still calls AddFile, as it is not the status
\* of the node that is tested: it does no more than give the image file to the
\* living tree that holds the process, and takes it from no other living tree.
RefusedRequestIsHarmless ==
  [][ \A c \in Clients :
        client[c].pc = "addFile" /\ client[c].status # "ADD_OK" /\ client'[c] = Idle =>
          \A i \in DOMAIN nodes : ~IsDeadNode(nodes[i]) =>
            \E j \in DOMAIN nodes' :
              \/ nodes'[j] = nodes[i]
              \/ /\ client[c].pid \in nodes[i].processList
                 /\ nodes'[j] = [nodes[i] EXCEPT !.filesList = @ \cup {client[c].fileId}] ]_vars

\* A process that is terminated is eventually off the list, a root included.
DoomedLeavesList ==
  \A p \in Pids : p \in doomed ~> ~ContainsProcess(nodes, p)

\* The exit callback of a process that is not a root is never held.
ChildExitEnds ==
  \A p \in Pids :
    proc[p] = "exitCheck" /\ GetProcessOwner(nodes, p) # p ~> proc[p] \in {"none", "zombie"}

-----------------------------------------------------------------------------
(* What the source says and the code does not do; each is refuted by a run *)
(* of its own.                                                             *)

\* process_data_struct.h:426, :434: a root is held in its exit callback until
\* its termination is permitted, that is until it is off the list.
ReleasedRootExits ==
  \A p \in Pids :
    proc[p] \in Exiting /\ ~ContainsProcess(nodes, p) ~> proc[p] \in {"none", "zombie"}

\* main.cpp:39: a new process is refused, and terminated, because the "limit
\* [is] exhausted": its parent's tree is full, or is closed by its root's end.
KilledOnlyOverLimit ==
  [][ \A p \in Pids :
        /\ proc[p] = "parentAdd" /\ p \in doomed' \ doomed
        => \A i \in Holding(nodes, origin[p].parent) :
              \/ IsDeadNode(nodes[i])
              \/ Cardinality(nodes[i].processList) >= MaxItems ]_vars

-----------------------------------------------------------------------------
\* The callbacks and requests use the list as the monitor it is.
List == INSTANCE WatchList

\* The steps of callbacks and requests are operations of the list, and a
\* process is added to a tree only while no tree holds it.
UsesListFreshly == List!FreshSpec
=============================================================================
