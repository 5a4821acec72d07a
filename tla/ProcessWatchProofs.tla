-------------------------- MODULE ProcessWatchProofs --------------------------
(***************************************************************************)
(* Theorems about the process-notify callback and the requests, for any    *)
(* numbers of processes, clients, files and nodes, and whatever the        *)
(* clients ask for (Spec); and about requests of clients that hold the     *)
(* processes they name (HoldingSpec).  The strengthening for these is      *)
(* HoldInv: a process that is not yet, or no longer, past its callbacks is *)
(* on no tree, and trees are disjoint.                                     *)
(***************************************************************************)
EXTENDS ProcessWatch, ProcessNodesProofs

-----------------------------------------------------------------------------
(* Any client: types                                                       *)

\* A request that is in progress names a process, never 0.
RequestNamesProcess ==
  \A c \in Clients : client[c].pc # "idle" => client[c].pid \in Pids

TypeInv ==
  /\ TypeOK
  /\ Sound(nodes)
  /\ RequestNamesProcess

LEMMA InitTyped == Init => TypeInv
<1>1. << >> \in Seq(ProcessNode) /\ Sound(<< >>)
  <2>1. << >> \in Seq(ProcessNode) /\ Len(<< >>) = 0 /\ DOMAIN << >> = {}
    BY EmptySeq
  <2>. QED
    BY <2>1, LimitAssumption DEF Sound
<1>2. /\ Idle \in [ pc : {"idle", "addNode", "addFile", "terminate", "delete"},
                    pid : Pids \cup {NoPid}, fileId : Files \cup {NoFile}, noresp : t_noresp,
                    status : {"ADD_OK", "ADD_FORBIDDEN", "ADD_LIMIT_EXHAUSTED"} ]
      /\ Idle.pc = "idle"
  BY DEF Idle, t_noresp
<1>3. /\ NoOrigin \in [parent : Pids \cup {Outside}, creator : Pids \cup {Outside}]
      /\ "none" \in ProcState
  BY DEF NoOrigin, ProcState
<1>4. ASSUME Init PROVE TypeOK
  <2>1. nodes \in Seq(ProcessNode)
    BY <1>1, <1>4 DEF Init
  <2>2. deletionEvent \in BOOLEAN /\ doomed \subseteq Pids
    BY <1>4 DEF Init
  <2>3. proc \in [Pids -> ProcState]
    BY <1>3, <1>4 DEF Init
  <2>4. origin \in [Pids -> [parent : Pids \cup {Outside}, creator : Pids \cup {Outside}]]
    BY <1>3, <1>4 DEF Init
  <2>5. client \in [Clients ->
           [ pc : {"idle", "addNode", "addFile", "terminate", "delete"},
             pid : Pids \cup {NoPid}, fileId : Files \cup {NoFile}, noresp : t_noresp,
             status : {"ADD_OK", "ADD_FORBIDDEN", "ADD_LIMIT_EXHAUSTED"} ]]
    BY <1>2, <1>4 DEF Init
  <2>. QED
    BY <2>1, <2>2, <2>3, <2>4, <2>5 DEF TypeOK
<1>5. Init => Sound(nodes) /\ RequestNamesProcess
  BY <1>1, <1>2 DEF Init, RequestNamesProcess
<1>. QED
  BY <1>4, <1>5 DEF TypeInv

\* Processes are created, end, and go: the list and the requests stay.
LEMMA KernelTyped ==
  ASSUME TypeInv,
         \/ \E p \in Pids, parent, creator \in Pids \cup {Outside} : CreateProcess(p, parent, creator)
         \/ \E p \in Pids : BeginExit(p) \/ Reap(p)
  PROVE  TypeInv'
BY DEF TypeInv, TypeOK, RequestNamesProcess, CreateProcess, BeginExit, Reap, ProcState,
       Creating, Exiting

LEMMA CreationTyped ==
  ASSUME TypeInv, NEW p \in Pids, CreationStep(p)
  PROVE  TypeInv'
<1>1. ASSUME NEW s \in Creating \cup {"running"}, CreationGoesTo(p, s)
      PROVE  /\ proc' \in [Pids -> ProcState]
             /\ origin' \in [Pids -> [parent : Pids \cup {Outside}, creator : Pids \cup {Outside}]]
  BY <1>1 DEF CreationGoesTo, TypeInv, TypeOK, ProcState, NoOrigin
<1>2. AfterParent(p) \in Creating \cup {"running"}
  BY DEF AfterParent, Creating
<1>3. {"parentAdd", "creatorAdd"} \subseteq Creating
  BY DEF Creating
<1>4. CASE CheckParent(p) \/ CheckCreator(p)
  BY <1>1, <1>2, <1>3, <1>4 DEF CheckParent, CheckCreator, TypeInv, TypeOK, RequestNamesProcess
<1>5. ASSUME NEW parentPid, NEW s \in Creating \cup {"running"}, AddUnder(p, parentPid, s)
      PROVE  TypeInv'
  <2>1. Sound(nodes') /\ nodes' \in Seq(ProcessNode)
    BY <1>5, AddProcessSound DEF AddUnder, TypeInv, Sound
  <2>2. doomed' \subseteq Pids
    BY <1>5 DEF AddUnder, TypeInv, TypeOK
  <2>. QED
    BY <1>1, <1>5, <2>1, <2>2 DEF AddUnder, TypeInv, TypeOK, RequestNamesProcess
<1>. QED
  BY <1>2, <1>4, <1>5 DEF CreationStep, AddToParent, AddToCreator

\* DeleteProcess ends every wait in progress.
LEMMA AfterDeleteTyped ==
  ASSUME TypeInv, NEW p
  PROVE  AfterDelete(p) \in [Pids -> ProcState]
BY DEF AfterDelete, TypeInv, TypeOK, ProcState, Exiting

LEMMA DeleteTyped ==
  ASSUME TypeInv, NEW p, Delete(p)
  PROVE  Sound(nodes') /\ nodes' \in Seq(ProcessNode) /\ deletionEvent' \in BOOLEAN
<1>1. Sound(nodes')
  BY DeleteProcessSound DEF Delete, TypeInv
<1>2. deletionEvent' \in BOOLEAN
  BY DEF Delete, DeletionSetsEvent
<1>. QED
  BY <1>1, <1>2 DEF Sound

LEMMA ExitTyped ==
  ASSUME TypeInv, NEW p \in Pids, ExitStep(p) \/ Alerted(p)
  PROVE  TypeInv'
<1>1. CASE ExitDelete(p)
  <2>1. proc' \in [Pids -> ProcState]
    BY <1>1, AfterDeleteTyped DEF ExitDelete, ProcState
  <2>. QED
    BY <1>1, <2>1, DeleteTyped DEF ExitDelete, TypeInv, TypeOK, RequestNamesProcess
<1>2. CASE ExitCheck(p)
  BY <1>2 DEF ExitCheck, ExitGoesTo, TypeInv, TypeOK, RequestNamesProcess, ProcState, Exiting
<1>3. CASE ExitReset(p) \/ ExitWait(p) \/ Alerted(p)
  BY <1>3 DEF ExitReset, ExitWait, Alerted, TypeInv, TypeOK, RequestNamesProcess,
              ProcState, Exiting
<1>. QED
  BY <1>1, <1>2, <1>3 DEF ExitStep

LEMMA ClientTyped ==
  ASSUME TypeInv, NEW c \in Clients, ClientStep(c)
  PROVE  TypeInv'
<1>1. /\ client \in [Clients ->
           [ pc : {"idle", "addNode", "addFile", "terminate", "delete"},
             pid : Pids \cup {NoPid}, fileId : Files \cup {NoFile}, noresp : t_noresp,
             status : {"ADD_OK", "ADD_FORBIDDEN", "ADD_LIMIT_EXHAUSTED"} ]]
      /\ client[c].pc # "idle" => client[c].pid \in Pids
  BY DEF TypeInv, TypeOK, RequestNamesProcess
<1>2. Idle \in [ pc : {"idle", "addNode", "addFile", "terminate", "delete"},
                 pid : Pids \cup {NoPid}, fileId : Files \cup {NoFile}, noresp : t_noresp,
                 status : {"ADD_OK", "ADD_FORBIDDEN", "ADD_LIMIT_EXHAUSTED"} ]
      /\ Idle.pc = "idle"
  BY DEF Idle, t_noresp
<1>3. CASE AddNode(c)
  <2>1. client[c].pid \in Pids
    BY <1>1, <1>3 DEF AddNode
  <2>2. AddProcessNodeStatus(nodes, client[c].pid)
          \in {"ADD_OK", "ADD_FORBIDDEN", "ADD_LIMIT_EXHAUSTED"}
    BY <2>1, SentinelAssumption DEF AddProcessNodeStatus
  <2>3. Sound(nodes') /\ nodes' \in Seq(ProcessNode)
    BY <1>1, <1>3, <2>1, AddProcessNodeSound DEF AddNode, TypeInv, Sound
  <2>4. doomed' \subseteq Pids
    BY <1>3, <2>1 DEF AddNode, TypeInv, TypeOK
  <2>5. client' \in [Clients ->
           [ pc : {"idle", "addNode", "addFile", "terminate", "delete"},
             pid : Pids \cup {NoPid}, fileId : Files \cup {NoFile}, noresp : t_noresp,
             status : {"ADD_OK", "ADD_FORBIDDEN", "ADD_LIMIT_EXHAUSTED"} ]]
    BY <1>1, <1>2, <1>3, <2>2, ZenonT(60) DEF AddNode
  <2>6. RequestNamesProcess'
    BY <1>1, <1>2, <1>3, <2>1 DEF AddNode, TypeInv, RequestNamesProcess
  <2>. QED
    BY <1>3, <2>3, <2>4, <2>5, <2>6 DEF AddNode, TypeInv, TypeOK
<1>4. CASE AddImage(c)
  <2>1. Sound(nodes') /\ nodes' \in Seq(ProcessNode)
    BY <1>1, <1>4, AddFileSound DEF AddImage, TypeInv, Sound
  <2>. QED
    BY <1>1, <1>2, <1>4, <2>1 DEF AddImage, TypeInv, TypeOK, RequestNamesProcess
<1>5. CASE Terminate(c)
  <2>1. client[c].pid \in Pids
    BY <1>1, <1>5 DEF Terminate
  <2>. QED
    BY <1>1, <1>5, <2>1, SMTT(30) DEF Terminate, TypeInv, TypeOK, RequestNamesProcess
<1>6. CASE TerminateFails(c)
  BY <1>1, <1>2, <1>6 DEF TerminateFails, TypeInv, TypeOK, RequestNamesProcess
<1>7. CASE Unwatch(c)
  BY <1>1, <1>2, <1>7, DeleteTyped, AfterDeleteTyped
     DEF Unwatch, TypeInv, TypeOK, RequestNamesProcess
<1>. QED
  BY <1>3, <1>4, <1>5, <1>6, <1>7 DEF ClientStep

\* A request begins.
LEMMA RequestTyped ==
  ASSUME TypeInv, NEW c \in Clients, NEW p \in Pids,
         \/ RequestTerminate(c, p)
         \/ \E f \in Files \cup {NoFile}, noresp \in Levels : RequestWatch(c, p, f, noresp)
  PROVE  TypeInv'
<1>1. CASE RequestTerminate(c, p)
  BY <1>1 DEF RequestTerminate, TypeInv, TypeOK, RequestNamesProcess, Idle, t_noresp
<1>2. ASSUME NEW f \in Files \cup {NoFile}, NEW noresp \in Levels, RequestWatch(c, p, f, noresp)
      PROVE  TypeInv'
  <2>1. noresp \in t_noresp
    BY LevelsAssumption
  <2>. QED
    BY <1>2, <2>1 DEF RequestWatch, TypeInv, TypeOK, RequestNamesProcess
<1>. QED
  BY <1>1, <1>2

LEMMA FileDeletedTyped ==
  ASSUME TypeInv, NEW f \in Files, FileDeleted(f)
  PROVE  TypeInv'
<1>1. Sound(nodes') /\ nodes' \in Seq(ProcessNode)
  BY DeleteFileSound DEF FileDeleted, TypeInv, Sound
<1>. QED
  BY <1>1 DEF FileDeleted, TypeInv, TypeOK, RequestNamesProcess

LEMMA NextTyped == TypeInv /\ [Next]_vars => TypeInv'
<1>. SUFFICES ASSUME TypeInv, [Next]_vars PROVE TypeInv'
  OBVIOUS
<1>1. CASE UNCHANGED vars
  BY <1>1 DEF vars, TypeInv, TypeOK, RequestNamesProcess
<1>2. CASE Internal
  BY <1>2, CreationTyped, ExitTyped, ClientTyped, FileDeletedTyped DEF Internal
<1>3. ASSUME NEW p \in Pids, NEW parent \in Pids \cup {Outside},
             NEW creator \in Pids \cup {Outside}, CreateProcess(p, parent, creator)
      PROVE  TypeInv'
  BY <1>3, KernelTyped
<1>4. ASSUME NEW p \in Pids, BeginExit(p) \/ Reap(p) PROVE TypeInv'
  BY <1>4, KernelTyped
<1>5. ASSUME NEW c \in Clients, NEW p \in Pids,
             \/ RequestTerminate(c, p)
             \/ \E f \in Files \cup {NoFile}, noresp \in Levels : RequestWatch(c, p, f, noresp)
      PROVE  TypeInv'
  BY <1>5, RequestTyped
<1>. QED
  BY <1>1, <1>2, <1>3, <1>4, <1>5 DEF Next

LEMMA TypeInvIsInvariant == Spec => []TypeInv
<1>1. TypeInv /\ [Next]_vars => TypeInv'
  BY NextTyped
<1>. QED
  BY <1>1, InitTyped, PTL DEF Spec

\* Every variable holds what the code can put there, whatever clients ask
\* for and in whatever order threads run.
THEOREM WatchTyped == Spec => []TypeOK
<1>1. TypeInv => TypeOK
  BY DEF TypeInv
<1>. QED
  BY <1>1, TypeInvIsInvariant, PTL

-----------------------------------------------------------------------------
(* Any client: what the creation callback and a registration do            *)

\* Where the callback of p is over, the creator is not on the list, or p is,
\* or p is terminated.
LEMMA CreationEndsTracked ==
  ASSUME TypeInv, NEW p \in Pids, NEW parentPid, parentPid \in Pids \cup {Outside},
         NEW s, AddUnder(p, parentPid, s), proc'[p] = "running",
         s = "running" => parentPid = origin[p].creator,
         ContainsProcess(nodes', origin[p].creator)
  PROVE  ContainsProcess(nodes', p) \/ p \in doomed'
<1>. DEFINE status == AddProcessStatus(nodes, p, parentPid)
<1>1. nodes \in Seq(ProcessNode) /\ nodes' = AddProcess(nodes, p, parentPid)
  BY DEF TypeInv, TypeOK, AddUnder
<1>2. /\ status # "ADD_OK" => nodes' = nodes
      /\ status \in {"ADD_OK", "ADD_ALREADY_EXIST"} => ContainsProcess(nodes', p)
      /\ status \in {"ADD_OK", "ADD_ALREADY_EXIST", "ADD_LIMIT_EXHAUSTED", "ADD_NO_PARENT"}
      /\ status = "ADD_NO_PARENT" => parentPid = NoPid \/ ~ContainsProcess(nodes, parentPid)
  BY <1>1, AddProcessAnswers
<1>3. parentPid # NoPid
  BY SentinelAssumption, OutsideAssumption
<1>4. CASE status = "ADD_LIMIT_EXHAUSTED"
  BY <1>4 DEF AddUnder
<1>5. CASE status = "ADD_NO_PARENT"
  <2>1. proc' = [proc EXCEPT ![p] = s]
    BY <1>5 DEF AddUnder, CreationGoesTo
  <2>2. s = "running"
    BY <2>1 DEF TypeInv, TypeOK
  <2>. QED
    BY <1>2, <1>3, <1>5, <2>2
<1>. QED
  BY <1>2, <1>4, <1>5

LEMMA StepTracksChild ==
  ASSUME TypeInv, [Next]_vars, NEW p \in Pids,
         proc[p] \in Creating, proc'[p] = "running",
         ContainsProcess(nodes', origin[p].creator)
  PROVE  ContainsProcess(nodes', p) \/ p \in doomed'
<1>1. /\ proc \in [Pids -> ProcState]
      /\ proc[p] \notin Exiting \cup {"none", "running", "zombie"}
      /\ origin[p].parent \in Pids \cup {Outside} /\ origin[p].creator \in Pids \cup {Outside}
  BY DEF TypeInv, TypeOK, Creating, Exiting
<1>2. proc'[p] # proc[p]
  BY <1>1
<1>3. CASE CheckParent(p)
  <2>1. nodes' = nodes /\ AfterParent(p) = "running" /\ ~ContainsProcess(nodes, origin[p].parent)
    BY <1>1, <1>3 DEF CheckParent, CreationGoesTo
  <2>2. origin[p].parent = origin[p].creator
    BY <2>1 DEF AfterParent
  <2>. QED
    BY <2>1, <2>2
<1>4. CASE CheckCreator(p)
  BY <1>1, <1>4 DEF CheckCreator, CreationGoesTo
<1>5. CASE AddToParent(p)
  <2>1. AddUnder(p, origin[p].parent, AfterParent(p))
    BY <1>5 DEF AddToParent
  <2>2. AfterParent(p) = "running" => origin[p].parent = origin[p].creator
    BY DEF AfterParent
  <2>. QED
    BY <1>1, <2>1, <2>2, CreationEndsTracked
<1>6. CASE AddToCreator(p)
  BY <1>1, <1>6, CreationEndsTracked DEF AddToCreator
<1>7. ASSUME NEW q \in Pids, q # p, CreationStep(q) PROVE proc'[p] = proc[p]
  BY <1>1, <1>7 DEF CreationStep, CheckParent, CheckCreator, AddToParent, AddToCreator,
                    AddUnder, CreationGoesTo
<1>8. ASSUME NEW q \in Pids, ExitStep(q) \/ Alerted(q) PROVE proc'[p] = proc[p]
  <2>1. proc[q] \in Exiting
    BY <1>8 DEF ExitStep, ExitCheck, ExitGoesTo, ExitReset, ExitWait, ExitDelete, Alerted, Exiting
  <2>2. q # p
    BY <1>1, <2>1
  <2>. QED
    BY <1>1, <1>8, <2>2
       DEF ExitStep, ExitCheck, ExitGoesTo, ExitReset, ExitWait, ExitDelete, Alerted,
           AfterDelete, Exiting
<1>9. ASSUME NEW c \in Clients, ClientStep(c) PROVE proc'[p] = proc[p]
  BY <1>1, <1>9 DEF ClientStep, AddNode, AddImage, Terminate, TerminateFails, Unwatch,
                    AfterDelete, Exiting
<1>10. ASSUME NEW f \in Files, FileDeleted(f) PROVE proc'[p] = proc[p]
  BY <1>10 DEF FileDeleted
<1>11. CASE Internal
  BY <1>2, <1>3, <1>4, <1>5, <1>6, <1>7, <1>8, <1>9, <1>10, <1>11 DEF Internal, CreationStep
<1>12. ASSUME NEW q \in Pids, NEW parent \in Pids \cup {Outside},
              NEW creator \in Pids \cup {Outside}, CreateProcess(q, parent, creator)
       PROVE  proc'[p] = proc[p]
  BY <1>1, <1>12 DEF CreateProcess
<1>13. ASSUME NEW q \in Pids, BeginExit(q) \/ Reap(q) PROVE proc'[p] = proc[p]
  BY <1>1, <1>13 DEF BeginExit, Reap
<1>14. ASSUME NEW c \in Clients, NEW q \in Pids,
              \/ RequestTerminate(c, q)
              \/ \E f \in Files \cup {NoFile}, noresp \in Levels : RequestWatch(c, q, f, noresp)
       PROVE  proc'[p] = proc[p]
  BY <1>14 DEF RequestTerminate, RequestWatch
<1>15. CASE UNCHANGED vars
  BY <1>2, <1>15 DEF vars
<1>. QED
  BY <1>2, <1>11, <1>12, <1>13, <1>14, <1>15 DEF Next

\* No interleaving of the creation callback with requests and exits lets a
\* child of a watched creator run unwatched, whatever parent is named for it.
THEOREM ChildrenAreTracked == Spec => CreatorTracksChild
<1>1. TypeInv /\ [Next]_vars =>
        [ \A p \in Pids :
            /\ proc[p] \in Creating /\ proc'[p] = "running"
            /\ ContainsProcess(nodes', origin[p].creator)
            => ContainsProcess(nodes', p) \/ p \in doomed' ]_vars
  BY StepTracksChild
<1>. QED
  BY <1>1, TypeInvIsInvariant, PTL DEF Spec, CreatorTracksChild

\* The step that ends a registration in AddFile is that AddFile.
LEMMA RegistrationEnds ==
  ASSUME TypeInv, [Next]_vars, NEW c \in Clients,
         client[c].pc = "addFile", client'[c] = Idle
  PROVE  AddImage(c)
<1>1. client \in [Clients -> [ pc : {"idle", "addNode", "addFile", "terminate", "delete"},
                              pid : Pids \cup {NoPid}, fileId : Files \cup {NoFile},
                              noresp : t_noresp,
                              status : {"ADD_OK", "ADD_FORBIDDEN", "ADD_LIMIT_EXHAUSTED"} ]]
  BY DEF TypeInv, TypeOK
<1>2. Idle.pc = "idle" /\ client[c] # Idle
  BY DEF Idle
<1>3. client'[c] # client[c]
  BY <1>2
<1>4. ASSUME NEW d \in Clients, d # c,
             \/ ClientStep(d)
             \/ \E p \in Pids : RequestTerminate(d, p)
             \/ \E p \in Pids, f \in Files \cup {NoFile}, noresp \in Levels :
                   RequestWatch(d, p, f, noresp)
      PROVE  client'[c] = client[c]
  BY <1>1, <1>4 DEF ClientStep, AddNode, AddImage, Terminate, TerminateFails, Unwatch,
                    RequestTerminate, RequestWatch
<1>5. \A p, f, noresp : ~RequestTerminate(c, p) /\ ~RequestWatch(c, p, f, noresp)
  BY <1>2 DEF RequestTerminate, RequestWatch
<1>6. CASE Internal
  <2>1. ASSUME NEW p \in Pids, CreationStep(p) \/ ExitStep(p) \/ Alerted(p)
        PROVE  UNCHANGED client
    BY <2>1 DEF CreationStep, CheckParent, CheckCreator, AddToParent, AddToCreator, AddUnder,
                ExitStep, ExitCheck, ExitGoesTo, ExitReset, ExitWait, ExitDelete, Alerted
  <2>2. ASSUME NEW f \in Files, FileDeleted(f) PROVE UNCHANGED client
    BY <2>2 DEF FileDeleted
  <2>3. ClientStep(c)
    BY <1>3, <1>4, <1>6, <2>1, <2>2 DEF Internal
  <2>. QED
    BY <2>3 DEF ClientStep, AddNode, Terminate, TerminateFails, Unwatch
<1>7. CASE \/ \E p \in Pids, parent, creator \in Pids \cup {Outside} :
                CreateProcess(p, parent, creator)
           \/ \E p \in Pids : BeginExit(p) \/ Reap(p)
  BY <1>3, <1>7 DEF CreateProcess, BeginExit, Reap
<1>8. CASE UNCHANGED vars
  BY <1>3, <1>8 DEF vars
<1>9. ASSUME NEW d \in Clients, NEW p \in Pids,
             \/ RequestTerminate(d, p)
             \/ \E f \in Files \cup {NoFile}, noresp \in Levels : RequestWatch(d, p, f, noresp)
      PROVE  FALSE
  <2>1. CASE d = c
    BY <1>5, <1>9, <2>1
  <2>2. CASE d # c
    BY <1>3, <1>4, <1>9, <2>2
  <2>. QED
    BY <2>1, <2>2
<1>. QED
  BY <1>6, <1>7, <1>8, <1>9 DEF Next

\* A registration that is refused takes no file from a living tree, and gives
\* the image file to no tree but one that holds the process.
THEOREM RefusalIsHarmless == Spec => RefusedRequestIsHarmless
<1>1. ASSUME TypeInv, [Next]_vars, NEW c \in Clients,
             client[c].pc = "addFile", client'[c] = Idle,
             NEW i \in DOMAIN nodes, ~IsDeadNode(nodes[i])
      PROVE  \E j \in DOMAIN nodes' :
               \/ nodes'[j] = nodes[i]
               \/ /\ client[c].pid \in nodes[i].processList
                  /\ nodes'[j] = [nodes[i] EXCEPT !.filesList = @ \cup {client[c].fileId}]
  <2>1. nodes' = AddFile(nodes, client[c].fileId, client[c].pid)
    BY <1>1, RegistrationEnds DEF AddImage
  <2>2. nodes \in Seq(ProcessNode)
    BY <1>1 DEF TypeInv, TypeOK
  <2>3. SparesLiving(nodes', nodes, client[c].fileId, client[c].pid)
    BY <2>1, <2>2, AddFileSparesLiving
  <2>. QED
    BY <1>1, <2>3 DEF SparesLiving
<1>2. TypeInv /\ [Next]_vars =>
        [ \A c \in Clients :
            client[c].pc = "addFile" /\ client[c].status # "ADD_OK" /\ client'[c] = Idle =>
              \A i \in DOMAIN nodes : ~IsDeadNode(nodes[i]) =>
                \E j \in DOMAIN nodes' :
                  \/ nodes'[j] = nodes[i]
                  \/ /\ client[c].pid \in nodes[i].processList
                     /\ nodes'[j] = [nodes[i] EXCEPT !.filesList = @ \cup {client[c].fileId}] ]_vars
  BY <1>1
<1>. QED
  BY <1>2, TypeInvIsInvariant, PTL DEF Spec, RefusedRequestIsHarmless

-----------------------------------------------------------------------------
(* Holding clients: the invariant                                          *)

\* Where a process is before it is added and after it was taken off.
Settled == {"none", "zombie"} \cup Creating

Unwatched == \A p \in Pids : proc[p] \in Settled => ~ContainsProcess(nodes, p)

\* A process that is about to be registered runs.
Reserved == \A c \in Clients : client[c].pc = "addNode" => proc[client[c].pid] = "running"

ExitsAsChild == \A p \in Pids : proc[p] = "exitDelete" => NotRoot(nodes, p)

HoldInv ==
  /\ TypeInv
  /\ Disjoint(nodes)
  /\ Unwatched
  /\ Reserved
  /\ ExitsAsChild

LEMMA HoldingIsNext == HoldingNext => Next
<1>1. ASSUME NEW p \in Pids, proc[p] = "running" PROVE proc[p] # "none"
  BY <1>1
<1>. QED
  BY <1>1 DEF HoldingNext, Next

LEMMA InitHolds == Init => HoldInv
<1>1. Init => TypeInv
  BY InitTyped
<1>2. ASSUME Init PROVE Disjoint(nodes) /\ Unwatched /\ Reserved /\ ExitsAsChild
  <2>1. DOMAIN nodes = {}
    BY <1>2 DEF Init
  <2>2. Disjoint(nodes) /\ Unwatched /\ ExitsAsChild
    BY <2>1, ContainedIffHeld DEF Disjoint, Unwatched, ExitsAsChild, NotRoot
  <2>3. \A c \in Clients : client[c].pc = "idle"
    BY <1>2 DEF Init, Idle
  <2>. QED
    BY <2>2, <2>3 DEF Reserved
<1>. QED
  BY <1>1, <1>2 DEF HoldInv

\* An update that puts none but the processes of S on the list keeps the
\* invariant for the others, if they stay where they are in their callbacks.
LEMMA OthersHold ==
  ASSUME HoldInv, NEW S, NothingNewBut(nodes', nodes, S),
         \A q \in Pids : proc'[q] \in Settled =>
           \/ q \notin S /\ proc[q] \in Settled
           \/ ~ContainsProcess(nodes', q),
         \A q \in Pids : proc'[q] = "exitDelete" =>
           \/ q \notin S /\ proc[q] = "exitDelete"
           \/ NotRoot(nodes', q)
  PROVE  Unwatched' /\ ExitsAsChild'
<1>1. Unwatched'
  <2>1. ASSUME NEW q \in Pids, proc'[q] \in Settled PROVE ~ContainsProcess(nodes', q)
    <3>1. CASE q \notin S /\ proc[q] \in Settled
      <4>1. ~ContainsProcess(nodes, q)
        BY <3>1 DEF HoldInv, Unwatched
      <4>. QED
        BY <3>1, <4>1, NothingNewMeans
    <3>. QED
      BY <2>1, <3>1
  <2>. QED
    BY <2>1 DEF Unwatched, Settled
<1>2. ExitsAsChild'
  <2>1. ASSUME NEW q \in Pids, proc'[q] = "exitDelete" PROVE NotRoot(nodes', q)
    <3>1. CASE q \notin S /\ proc[q] = "exitDelete"
      <4>1. NotRoot(nodes, q)
        BY <3>1 DEF HoldInv, ExitsAsChild
      <4>. QED
        BY <3>1, <4>1, NothingNewMeans
    <3>. QED
      BY <2>1, <3>1
  <2>. QED
    BY <2>1 DEF ExitsAsChild, NotRoot
<1>. QED
  BY <1>1, <1>2

LEMMA NothingNewHere ==
  ASSUME NEW ns
  PROVE  NothingNewBut(ns, ns, {}) /\ AllKeptBut(ns, ns, {})
BY DEF NothingNewBut, AllKeptBut

-----------------------------------------------------------------------------
(* One lemma for each kind of step: what it keeps, and what it takes off   *)
(* the list.                                                               *)

ListKept ==
  /\ Disjoint(nodes')
  /\ Unwatched'
  /\ Reserved'
  /\ ExitsAsChild'

LEMMA KernelHolds ==
  ASSUME HoldInv, NEW p \in Pids,
         \/ \E parent, creator \in Pids \cup {Outside} : CreateProcess(p, parent, creator)
         \/ ~Suspended(p) /\ BeginExit(p)
         \/ Reap(p)
  PROVE  ListKept /\ AllKeptBut(nodes', nodes, {})
<1>1. nodes' = nodes /\ client' = client /\ proc \in [Pids -> ProcState]
  BY DEF CreateProcess, BeginExit, Reap, HoldInv, TypeInv, TypeOK
<1>2. \A q \in Pids :
        /\ proc'[q] \in Settled => proc[q] \in Settled
        /\ proc'[q] = "exitDelete" => proc[q] = "exitDelete"
  BY <1>1 DEF CreateProcess, BeginExit, Reap, Settled, Creating
<1>3. Unwatched' /\ ExitsAsChild'
  BY <1>1, <1>2, NothingNewHere, OthersHold
<1>4. \A c \in Clients : client[c].pc = "addNode" => client[c].pid \in Pids
  BY DEF HoldInv, TypeInv, RequestNamesProcess
<1>5. ASSUME NEW c \in Clients, client[c].pc = "addNode", client[c].pid = p
      PROVE  ~BeginExit(p) \/ Suspended(p)
  BY <1>5 DEF Suspended
<1>6. Reserved'
  BY <1>1, <1>4, <1>5 DEF HoldInv, Reserved, CreateProcess, BeginExit, Reap
<1>. QED
  BY <1>1, <1>3, <1>6, NothingNewHere DEF ListKept, HoldInv

LEMMA CreationHolds ==
  ASSUME HoldInv, NEW p \in Pids, CreationStep(p)
  PROVE  ListKept /\ AllKeptBut(nodes', nodes, {})
<1>1. /\ proc \in [Pids -> ProcState] /\ nodes \in Seq(ProcessNode) /\ proc[p] \in Creating
      /\ client' = client
  BY DEF CreationStep, CheckParent, CheckCreator, AddToParent, AddToCreator, AddUnder,
         HoldInv, TypeInv, TypeOK, Creating
<1>2. ~ContainsProcess(nodes, p) /\ proc[p] # "running"
  BY <1>1 DEF HoldInv, Unwatched, Settled, Creating
<1>3. /\ \A q \in Pids : q # p => proc'[q] = proc[q]
      /\ proc'[p] \in Creating \cup {"running"}
  BY <1>1 DEF CreationStep, CheckParent, CheckCreator, AddToParent, AddToCreator, AddUnder,
              CreationGoesTo, AfterParent, Creating
<1>4. Reserved'
  BY <1>1, <1>2, <1>3 DEF HoldInv, Reserved, TypeInv, RequestNamesProcess
<1>5. CASE nodes' = nodes
  <2>1. \A q \in Pids :
          /\ proc'[q] \in Settled => proc[q] \in Settled
          /\ proc'[q] = "exitDelete" => proc[q] = "exitDelete"
    BY <1>1, <1>3 DEF Settled, Creating
  <2>2. Unwatched' /\ ExitsAsChild'
    BY <1>5, <2>1, NothingNewHere, OthersHold
  <2>. QED
    BY <1>4, <1>5, <2>2, NothingNewHere DEF ListKept, HoldInv
<1>6. ASSUME NEW parentPid, NEW s, AddUnder(p, parentPid, s), nodes' # nodes
      PROVE  ListKept /\ AllKeptBut(nodes', nodes, {})
  <2>1. nodes' = AddProcess(nodes, p, parentPid)
    BY <1>6 DEF AddUnder
  <2>2. AddProcessStatus(nodes, p, parentPid) = "ADD_OK"
    BY <1>1, <1>6, <2>1, AddProcessAnswers
  <2>3. proc'[p] = "running"
    BY <1>1, <1>6, <2>2 DEF AddUnder, CreationGoesTo
  <2>4. NothingNewBut(nodes', nodes, {p}) /\ AllKeptBut(nodes', nodes, {})
    BY <1>1, <2>1, AddProcessKeeps
  <2>5. Unwatched' /\ ExitsAsChild'
    BY <1>3, <2>3, <2>4, OthersHold DEF Settled, Creating
  <2>6. Disjoint(nodes')
    BY <1>1, <1>2, <2>1, AddProcessDisjoint DEF HoldInv
  <2>. QED
    BY <1>4, <2>4, <2>5, <2>6 DEF ListKept
<1>7. nodes' = nodes \/ \E parentPid, s : AddUnder(p, parentPid, s)
  BY DEF CreationStep, CheckParent, CheckCreator, AddToParent, AddToCreator
<1>. QED
  BY <1>5, <1>6, <1>7

\* What DeleteProcess leaves of the list, and of the processes that wait.
LEMMA DeleteHolds ==
  ASSUME HoldInv, NEW p, Delete(p)
  PROVE  /\ NothingNewBut(nodes', nodes, {}) /\ AllKeptBut(nodes', nodes, {p})
         /\ Disjoint(nodes') /\ ~ContainsProcess(nodes', p)
         /\ \A q \in Pids : \/ AfterDelete(p)[q] = proc[q]
                           \/ (proc[q] = "exitWait" /\ AfterDelete(p)[q] = "exitCheck")
<1>1. nodes \in Seq(ProcessNode) /\ Disjoint(nodes) /\ nodes' = DeleteProcess(nodes, p)
  BY DEF Delete, HoldInv, TypeInv, TypeOK
<1>2. NothingNewBut(nodes', nodes, {}) /\ AllKeptBut(nodes', nodes, {p})
      /\ ~ContainsProcess(nodes', p)
  BY <1>1, DeleteProcessKeeps
<1>3. Disjoint(nodes')
  BY <1>1, DeleteProcessDisjoint
<1>. QED
  BY <1>2, <1>3 DEF AfterDelete

LEMMA ExitHolds ==
  ASSUME HoldInv, NEW p \in Pids, ExitStep(p) \/ Alerted(p)
  PROVE  /\ ListKept
         /\ \/ AllKeptBut(nodes', nodes, {})
            \/ /\ proc[p] = "exitDelete" /\ AllKeptBut(nodes', nodes, {p})
               /\ ContainsProcess(nodes, p) => GetProcessOwner(nodes, p) # p
<1>1. /\ proc \in [Pids -> ProcState] /\ nodes \in Seq(ProcessNode) /\ Disjoint(nodes)
      /\ proc[p] \in Exiting /\ client' = client
  BY DEF ExitStep, ExitCheck, ExitGoesTo, ExitReset, ExitWait, ExitDelete, Alerted,
         HoldInv, TypeInv, TypeOK, Exiting
<1>2. \A q \in Pids : proc[q] = "running" => proc'[q] = "running"
  BY <1>1 DEF ExitStep, ExitCheck, ExitGoesTo, ExitReset, ExitWait, ExitDelete, Alerted,
              AfterDelete, Exiting
<1>3. Reserved'
  BY <1>1, <1>2 DEF HoldInv, Reserved, TypeInv, RequestNamesProcess
<1>4. CASE ExitDelete(p)
  <2>1. Delete(p) /\ proc' = [AfterDelete(p) EXCEPT ![p] = "zombie"] /\ proc[p] = "exitDelete"
    BY <1>4 DEF ExitDelete
  <2>2. /\ NothingNewBut(nodes', nodes, {}) /\ AllKeptBut(nodes', nodes, {p})
        /\ Disjoint(nodes') /\ ~ContainsProcess(nodes', p)
        /\ \A q \in Pids : \/ AfterDelete(p)[q] = proc[q]
                          \/ (proc[q] = "exitWait" /\ AfterDelete(p)[q] = "exitCheck")
    BY <2>1, DeleteHolds
  <2>3. DOMAIN AfterDelete(p) = Pids
    BY DEF AfterDelete
  <2>4. \A q \in Pids \ {p} :
          /\ proc'[q] \in Settled => proc[q] \in Settled
          /\ proc'[q] = "exitDelete" => proc[q] = "exitDelete"
    BY <2>1, <2>2, <2>3 DEF Settled, Creating
  <2>5. proc'[p] = "zombie"
    BY <2>1, <2>3
  <2>6. \A q \in Pids :
          /\ proc'[q] \in Settled => proc[q] \in Settled \/ ~ContainsProcess(nodes', q)
          /\ proc'[q] = "exitDelete" => proc[q] = "exitDelete"
    BY <2>2, <2>4, <2>5
  <2>9. Unwatched' /\ ExitsAsChild'
    BY <2>2, <2>6, OthersHold
  <2>7. NotRoot(nodes, p)
    BY <2>1 DEF HoldInv, ExitsAsChild
  <2>8. ContainsProcess(nodes, p) => GetProcessOwner(nodes, p) # p
    BY <1>1, <2>7, OwnerTells
  <2>. QED
    BY <1>3, <2>1, <2>2, <2>8, <2>9 DEF ListKept
<1>5. CASE ExitCheck(p)
  <2>1. /\ nodes' = nodes /\ \A q \in Pids : q # p => proc'[q] = proc[q]
        /\ proc'[p] = IF GetProcessOwner(nodes, p) = p THEN "exitReset"
                      ELSE IF GetProcessOwner(nodes, p) = NoPid THEN "zombie"
                      ELSE "exitDelete"
    BY <1>1, <1>5 DEF ExitCheck, ExitGoesTo
  <2>2. proc'[p] = "zombie" => ~ContainsProcess(nodes', p)
    BY <1>1, <2>1, OwnerTells
  <2>3. proc'[p] = "exitDelete" => NotRoot(nodes', p)
    BY <1>1, <2>1, OwnerTells
  <2>4. proc'[p] \in {"exitReset", "zombie", "exitDelete"}
    BY <2>1
  <2>5. proc'[p] \in Settled => ~ContainsProcess(nodes', p)
    BY <2>2, <2>4 DEF Settled, Creating
  <2>6. Unwatched' /\ ExitsAsChild'
    BY <2>1, <2>3, <2>5, NothingNewHere, OthersHold
  <2>. QED
    BY <1>1, <1>3, <2>1, <2>6, NothingNewHere DEF ListKept
<1>6. CASE ExitReset(p) \/ ExitWait(p) \/ Alerted(p)
  <2>1. nodes' = nodes
    BY <1>6 DEF ExitReset, ExitWait, Alerted
  <2>2. \A q \in Pids : /\ proc'[q] \in Settled => proc[q] \in Settled
                        /\ proc'[q] = "exitDelete" => proc[q] = "exitDelete"
    BY <1>1, <1>6 DEF ExitReset, ExitWait, Alerted, Settled, Creating
  <2>3. Unwatched' /\ ExitsAsChild'
    BY <2>1, <2>2, NothingNewHere, OthersHold
  <2>. QED
    BY <1>1, <1>3, <2>1, <2>3, NothingNewHere DEF ListKept
<1>. QED
  BY <1>4, <1>5, <1>6 DEF ExitStep

LEMMA ClientHolds ==
  ASSUME HoldInv, NEW c \in Clients, ClientStep(c)
  PROVE  /\ ListKept
         /\ \/ AllKeptBut(nodes', nodes, {})
            \/ client[c].pc = "delete" /\ AllKeptBut(nodes', nodes, {client[c].pid})
<1>1. /\ proc \in [Pids -> ProcState] /\ nodes \in Seq(ProcessNode) /\ Disjoint(nodes)
      /\ client \in [Clients ->
           [ pc : {"idle", "addNode", "addFile", "terminate", "delete"},
             pid : Pids \cup {NoPid}, fileId : Files \cup {NoFile}, noresp : t_noresp,
             status : {"ADD_OK", "ADD_FORBIDDEN", "ADD_LIMIT_EXHAUSTED"} ]]
      /\ client[c].pc # "idle" => client[c].pid \in Pids
  BY DEF HoldInv, TypeInv, TypeOK, RequestNamesProcess
<1>2. \A q \in Pids : \/ proc'[q] = proc[q]
                      \/ (proc[q] = "exitWait" /\ proc'[q] = "exitCheck")
  BY DEF ClientStep, AddNode, AddImage, Terminate, TerminateFails, Unwatch, AfterDelete
<1>3. /\ \A q \in Pids : /\ proc'[q] \in Settled => proc[q] \in Settled
                         /\ proc'[q] = "exitDelete" => proc[q] = "exitDelete"
                         /\ proc[q] = "running" => proc'[q] = "running"
  BY <1>2 DEF Settled, Creating
<1>4. Idle.pc = "idle"
  BY DEF Idle
<1>5. \A d \in Clients : client'[d].pc = "addNode" => client'[d] = client[d]
  BY <1>1, <1>4 DEF ClientStep, AddNode, AddImage, Terminate, TerminateFails, Unwatch
<1>6. Reserved'
  BY <1>3, <1>5 DEF HoldInv, Reserved, TypeInv, RequestNamesProcess
<1>7. CASE AddNode(c)
  <2>. DEFINE p == client[c].pid
  <2>1. p \in Pids /\ proc[p] = "running" /\ proc' = proc
    BY <1>1, <1>7 DEF AddNode, HoldInv, Reserved
  <2>2. nodes' = AddProcessNode(nodes, p, client[c].fileId, client[c].noresp)
    BY <1>7 DEF AddNode
  <2>3. client[c].fileId \in Files \cup {NoFile} /\ client[c].noresp \in t_noresp
    BY <1>1
  <2>4. NothingNewBut(nodes', nodes, {p}) /\ AllKeptBut(nodes', nodes, {})
    BY <1>1, <2>1, <2>2, <2>3, AddProcessNodeKeeps
  <2>5. Disjoint(nodes')
    BY <1>1, <2>1, <2>2, <2>3, AddProcessNodeDisjoint
  <2>6. \A q \in Pids : q \in {p} => proc'[q] \notin Settled /\ proc'[q] # "exitDelete"
    BY <2>1 DEF Settled, Creating
  <2>7. Unwatched' /\ ExitsAsChild'
    BY <2>1, <2>4, <2>6, OthersHold
  <2>. QED
    BY <1>6, <2>4, <2>5, <2>7 DEF ListKept
<1>8. CASE AddImage(c)
  <2>1. nodes' = AddFile(nodes, client[c].fileId, client[c].pid)
    BY <1>8 DEF AddImage
  <2>2. NothingNewBut(nodes', nodes, {}) /\ AllKeptBut(nodes', nodes, {})
    BY <1>1, <2>1, AddFileKeeps
  <2>3. Disjoint(nodes')
    BY <1>1, <2>1, AddFileDisjoint DEF HoldInv, TypeInv
  <2>4. Unwatched' /\ ExitsAsChild'
    BY <1>3, <2>2, OthersHold
  <2>. QED
    BY <1>6, <2>2, <2>3, <2>4 DEF ListKept
<1>9. CASE Terminate(c) \/ TerminateFails(c)
  <2>1. nodes' = nodes
    BY <1>9 DEF Terminate, TerminateFails
  <2>2. Unwatched' /\ ExitsAsChild'
    BY <1>3, <2>1, NothingNewHere, OthersHold
  <2>. QED
    BY <1>1, <1>6, <2>1, <2>2, NothingNewHere DEF ListKept
<1>10. CASE Unwatch(c)
  <2>1. client[c].pc = "delete" /\ Delete(client[c].pid)
    BY <1>10 DEF Unwatch
  <2>2. /\ NothingNewBut(nodes', nodes, {}) /\ AllKeptBut(nodes', nodes, {client[c].pid})
        /\ Disjoint(nodes')
    BY <2>1, DeleteHolds
  <2>3. Unwatched' /\ ExitsAsChild'
    BY <1>3, <2>2, OthersHold
  <2>. QED
    BY <1>6, <2>1, <2>2, <2>3 DEF ListKept
<1>. QED
  BY <1>7, <1>8, <1>9, <1>10 DEF ClientStep

LEMMA RequestHolds ==
  ASSUME HoldInv, NEW c \in Clients, NEW p \in Pids,
         \/ RequestTerminate(c, p)
         \/ /\ proc[p] = "running"
            /\ \E f \in Files \cup {NoFile}, noresp \in Levels : RequestWatch(c, p, f, noresp)
  PROVE  ListKept /\ AllKeptBut(nodes', nodes, {})
<1>1. nodes' = nodes /\ proc' = proc
  BY DEF RequestTerminate, RequestWatch
<1>2. Unwatched' /\ ExitsAsChild'
  BY <1>1, NothingNewHere, OthersHold
<1>3. /\ DOMAIN client = Clients
      /\ \A d \in Clients : d # c => client'[d] = client[d]
      /\ client'[c].pc = "addNode" => client'[c].pid = p /\ proc[p] = "running"
  <2>1. DOMAIN client = Clients
    BY DEF HoldInv, TypeInv, TypeOK
  <2>2. CASE RequestTerminate(c, p)
    BY <2>1, <2>2 DEF RequestTerminate, Idle
  <2>3. CASE ~RequestTerminate(c, p)
    BY <2>1, <2>3 DEF RequestWatch
  <2>. QED
    BY <2>1, <2>2, <2>3
<1>4. Reserved'
  <2>1. ASSUME NEW d \in Clients, client'[d].pc = "addNode"
        PROVE  proc'[client'[d].pid] = "running"
    BY <1>1, <1>3, <2>1 DEF HoldInv, Reserved
  <2>. QED
    BY <2>1 DEF Reserved
<1>. QED
  BY <1>1, <1>2, <1>4, NothingNewHere DEF ListKept, HoldInv

\* MyPostCleanup.
LEMMA FileDeletedHolds ==
  ASSUME HoldInv, NEW f \in Files, FileDeleted(f)
  PROVE  ListKept /\ AllKeptBut(nodes', nodes, {})
<1>1. nodes' = DeleteFile(nodes, f) /\ nodes \in Seq(ProcessNode)
  BY DEF FileDeleted, HoldInv, TypeInv, TypeOK
<1>2. NothingNewBut(nodes', nodes, {}) /\ AllKeptBut(nodes', nodes, {})
  BY <1>1, DeleteFileKeeps
<1>3. Disjoint(nodes')
  BY <1>1, DeleteFileDisjoint DEF HoldInv
<1>4. proc' = proc /\ client' = client
  BY DEF FileDeleted
<1>5. Unwatched' /\ ExitsAsChild'
  BY <1>2, <1>4, OthersHold
<1>6. Reserved'
  BY <1>4 DEF HoldInv, Reserved
<1>. QED
  BY <1>2, <1>3, <1>5, <1>6 DEF ListKept

-----------------------------------------------------------------------------
(* Holding clients: the invariant holds                                    *)

\* What a step may take off the list: nothing, the process a client has
\* terminated, or a child at the end of its exit callback.
TakesOff(S) == AllKeptBut(nodes', nodes, S)

StepTakesOffReleased ==
  \/ TakesOff({})
  \/ \E c \in Clients : client[c].pc = "delete" /\ TakesOff({client[c].pid})
  \/ \E p \in Pids :
        /\ proc[p] = "exitDelete"
        /\ TakesOff({p})
        /\ ContainsProcess(nodes, p) => GetProcessOwner(nodes, p) # p

LEMMA HoldingStep ==
  ASSUME HoldInv, [HoldingNext]_vars
  PROVE  ListKept /\ StepTakesOffReleased
<1>1. CASE UNCHANGED vars
  <2>1. nodes' = nodes /\ proc' = proc /\ client' = client
    BY <1>1 DEF vars
  <2>2. ListKept
    BY <2>1 DEF ListKept, HoldInv, Unwatched, Reserved, ExitsAsChild
  <2>. QED
    BY <2>1, <2>2, NothingNewHere DEF StepTakesOffReleased, TakesOff
<1>2. ASSUME NEW p \in Pids, CreationStep(p) PROVE ListKept /\ StepTakesOffReleased
  BY <1>2, CreationHolds DEF StepTakesOffReleased, TakesOff
<1>3. ASSUME NEW p \in Pids, ExitStep(p) \/ Alerted(p) PROVE ListKept /\ StepTakesOffReleased
  BY <1>3, ExitHolds DEF StepTakesOffReleased, TakesOff
<1>4. ASSUME NEW c \in Clients, ClientStep(c) PROVE ListKept /\ StepTakesOffReleased
  BY <1>4, ClientHolds DEF StepTakesOffReleased, TakesOff
<1>5. ASSUME NEW f \in Files, FileDeleted(f) PROVE ListKept /\ StepTakesOffReleased
  BY <1>5, FileDeletedHolds DEF StepTakesOffReleased, TakesOff
<1>6. CASE Internal
  BY <1>2, <1>3, <1>4, <1>5, <1>6 DEF Internal
<1>7. ASSUME NEW p \in Pids,
             \/ \E parent, creator \in Pids \cup {Outside} : CreateProcess(p, parent, creator)
             \/ ~Suspended(p) /\ BeginExit(p)
             \/ Reap(p)
      PROVE  ListKept /\ StepTakesOffReleased
  BY <1>7, KernelHolds DEF StepTakesOffReleased, TakesOff
<1>8. ASSUME NEW c \in Clients, NEW p \in Pids,
             \/ RequestTerminate(c, p)
             \/ /\ proc[p] = "running"
                /\ \E f \in Files \cup {NoFile}, noresp \in Levels : RequestWatch(c, p, f, noresp)
      PROVE  ListKept /\ StepTakesOffReleased
  BY <1>8, RequestHolds DEF StepTakesOffReleased, TakesOff
<1>. QED
  BY <1>1, <1>6, <1>7, <1>8 DEF HoldingNext

LEMMA HoldInvIsInvariant == HoldingSpec => []HoldInv
<1>1. HoldInv /\ [HoldingNext]_vars => HoldInv'
  <2>1. ASSUME HoldInv, [HoldingNext]_vars PROVE TypeInv'
    BY <2>1, HoldingIsNext, NextTyped DEF HoldInv
  <2>2. ASSUME HoldInv, [HoldingNext]_vars PROVE HoldInv'
    BY <2>1, <2>2, HoldingStep DEF HoldInv, ListKept, Disjoint
  <2>. QED
    BY <2>2
<1>. QED
  BY <1>1, InitHolds, PTL DEF HoldingSpec

\* Once a process has left its exit callback, and whenever its PID is free,
\* it is on no tree, so that no later process is taken for it.
THEOREM GoneProcessesUnwatched == HoldingSpec => []GoneIsUnwatched
<1>1. HoldInv => GoneIsUnwatched
  BY DEF HoldInv, Unwatched, GoneIsUnwatched, Settled
<1>. QED
  BY <1>1, HoldInvIsInvariant, PTL

\* A root leaves the list on a client's request that names it and in no other
\* way, whatever the interleaving with its own exit callback.
THEOREM RootsAreReleased == HoldingSpec => WatchedUntilReleased
<1>1. ASSUME HoldInv, [HoldingNext]_vars, NEW p \in Pids,
             ContainsProcess(nodes, p), ~ContainsProcess(nodes', p)
      PROVE  \/ \E c \in Clients : client[c].pc = "delete" /\ client[c].pid = p
             \/ proc[p] = "exitDelete" /\ GetProcessOwner(nodes, p) # p
  <2>1. \A S : TakesOff(S) => p \in S
    BY <1>1 DEF TakesOff, AllKeptBut
  <2>2. StepTakesOffReleased
    BY <1>1, HoldingStep
  <2>. QED
    BY <1>1, <2>1, <2>2 DEF StepTakesOffReleased
<1>2. HoldInv /\ [HoldingNext]_vars =>
        [ \A p \in Pids :
            ContainsProcess(nodes, p) /\ ~ContainsProcess(nodes', p) =>
              \/ \E c \in Clients : client[c].pc = "delete" /\ client[c].pid = p
              \/ proc[p] = "exitDelete" /\ GetProcessOwner(nodes, p) # p ]_vars
  BY <1>1
<1>. QED
  BY <1>2, HoldInvIsInvariant, PTL DEF HoldingSpec, WatchedUntilReleased

-----------------------------------------------------------------------------
(* The callbacks and requests are operations of the watch list.            *)

\* What List looks up is what this module looks up.
LEMMA SameQueries ==
  /\ List!t_noresp = t_noresp
  /\ \A S : List!First(S) = First(S)
  /\ \A ns, pid : List!Holding(ns, pid) = Holding(ns, pid)
  /\ \A ns, f : List!Owning(ns, f) = Owning(ns, f)
  /\ \A ns, pid : List!TreesOf(ns, pid) = TreesOf(ns, pid)
  /\ \A ns, pid : List!ContainsProcess(ns, pid) <=> ContainsProcess(ns, pid)
<1>1. \A ns, pid : List!RootedAt(ns, pid) = RootedAt(ns, pid)
  BY DEF List!RootedAt, RootedAt
<1>2. \A ns, pid : List!Holding(ns, pid) = Holding(ns, pid)
  BY DEF List!Holding, Holding
<1>3. \A ns, pid : List!TreesOf(ns, pid) = TreesOf(ns, pid)
  BY <1>1, <1>2 DEF List!TreesOf, TreesOf
<1>4. \A ns, pid : List!ContainsProcess(ns, pid) <=> ContainsProcess(ns, pid)
  BY <1>2 DEF List!ContainsProcess, ContainsProcess
<1>5. \A ns, f : List!Owning(ns, f) = Owning(ns, f)
  BY DEF List!Owning, Owning
<1>6. \A S : List!First(S) = First(S)
  BY DEF List!First, First
<1>. QED
  BY <1>2, <1>3, <1>4, <1>5, <1>6 DEF List!t_noresp, t_noresp

LEMMA SameNodes ==
  /\ \A n : List!IsDeadNode(n) <=> IsDeadNode(n)
  /\ \A n : List!IsEmptyNode(n) <=> IsEmptyNode(n)
  /\ \A n, pid : List!NodeAddProcessStatus(n, pid) = NodeAddProcessStatus(n, pid)
  /\ \A n, f : List!NodeAddFileStatus(n, f) = NodeAddFileStatus(n, f)
  /\ \A n : List!NodeCanAddFile(n) <=> NodeCanAddFile(n)
<1>1. \A n : List!IsDeadNode(n) <=> IsDeadNode(n)
  BY DEF List!IsDeadNode, IsDeadNode
<1>2. \A n : List!IsEmptyNode(n) <=> IsEmptyNode(n)
  BY <1>1 DEF List!IsEmptyNode, IsEmptyNode
<1>7. \A S : List!Cardinality(S) = Cardinality(S)
  BY DEF List!Cardinality, Cardinality
<1>3. \A S, it : List!AddItemStatus(S, it) = AddItemStatus(S, it)
  BY <1>7 DEF List!AddItemStatus, AddItemStatus
<1>4. \A n, pid : List!NodeAddProcessStatus(n, pid) = NodeAddProcessStatus(n, pid)
  BY <1>1, <1>3 DEF List!NodeAddProcessStatus, NodeAddProcessStatus
<1>5. \A n, f : List!NodeAddFileStatus(n, f) = NodeAddFileStatus(n, f)
  BY <1>1, <1>3 DEF List!NodeAddFileStatus, NodeAddFileStatus
<1>6. \A n : List!NodeCanAddFile(n) <=> NodeCanAddFile(n)
  BY <1>7, <1>1 DEF List!NodeCanAddFile, NodeCanAddFile
<1>. QED
  BY <1>1, <1>2, <1>4, <1>5, <1>6

LEMMA SameDeletions ==
  /\ \A ns, pid : List!DeleteProcess(ns, pid) = DeleteProcess(ns, pid)
  /\ \A ns, f : List!DeleteFile(ns, f) = DeleteFile(ns, f)
  /\ \A ns, f, pid : List!PreviousAssociation(ns, f, pid) = PreviousAssociation(ns, f, pid)
  /\ \A ns, f, pid :
        List!DeletePreviousAssociation(ns, f, pid) = DeletePreviousAssociation(ns, f, pid)
<1>1. \A ns, i : List!DestroyNodeIfEmpty(ns, i) = DestroyNodeIfEmpty(ns, i)
  BY SameNodes DEF List!DestroyNodeIfEmpty, DestroyNodeIfEmpty
<1>2. \A ns, pid : List!DeleteProcess(ns, pid) = DeleteProcess(ns, pid)
  BY <1>1, SameQueries DEF List!DeleteProcess, DeleteProcess
<1>3. \A ns, f : List!DeleteFile(ns, f) = DeleteFile(ns, f)
  BY <1>1, SameQueries DEF List!DeleteFile, DeleteFile
<1>4. \A ns, f, pid : List!PreviousAssociation(ns, f, pid) = PreviousAssociation(ns, f, pid)
  BY SameNodes, SameQueries DEF List!PreviousAssociation, PreviousAssociation
<1>5. \A ns, f, pid :
        List!DeletePreviousAssociation(ns, f, pid) = DeletePreviousAssociation(ns, f, pid)
  BY <1>3, <1>4 DEF List!DeletePreviousAssociation, DeletePreviousAssociation
<1>. QED
  BY <1>2, <1>3, <1>4, <1>5

LEMMA SameAdditions ==
  /\ \A ns, pid, f, noresp :
        List!AddProcessNode(ns, pid, f, noresp) = AddProcessNode(ns, pid, f, noresp)
  /\ \A ns, pid, parent : List!AddProcess(ns, pid, parent) = AddProcess(ns, pid, parent)
  /\ \A ns, f, pid : List!AddFile(ns, f, pid) = AddFile(ns, f, pid)
<1>1. \A ns, pid, f, noresp :
        List!AddProcessNode(ns, pid, f, noresp) = AddProcessNode(ns, pid, f, noresp)
  BY SameQueries DEF List!AddProcessNode, AddProcessNode, List!AddProcessNodeStatus,
                     AddProcessNodeStatus
<1>2. \A ns, pid, parent : List!AddProcessStatus(ns, pid, parent) = AddProcessStatus(ns, pid, parent)
  BY SameNodes, SameQueries DEF List!AddProcessStatus, AddProcessStatus
<1>3. \A ns, pid, parent : List!AddProcess(ns, pid, parent) = AddProcess(ns, pid, parent)
  BY <1>2, SameQueries DEF List!AddProcess, AddProcess
<1>4. \A ns, pid : List!CanAddFileStatus(ns, pid) = CanAddFileStatus(ns, pid)
  BY SameNodes, SameQueries DEF List!CanAddFileStatus, CanAddFileStatus
<1>5. \A ns, f, pid : List!FileAdmission(ns, f, pid) = FileAdmission(ns, f, pid)
  BY <1>4, SameDeletions DEF List!FileAdmission, FileAdmission
<1>6. \A ns, f, pid : List!AddFileStatus(ns, f, pid) = AddFileStatus(ns, f, pid)
  BY <1>5, SameDeletions, SameNodes, SameQueries DEF List!AddFileStatus, AddFileStatus
<1>7. \A ns, f, pid : List!AddFile(ns, f, pid) = AddFile(ns, f, pid)
  BY <1>5, <1>6, SameDeletions, SameQueries DEF List!AddFile, AddFile
<1>. QED
  BY <1>1, <1>3, <1>7

\* Each step on the list is one operation of it, or none: a process is added
\* only while it is being created, and then it is on no tree.
LEMMA HoldingStepFresh ==
  ASSUME HoldInv, [HoldingNext]_vars
  PROVE  [List!FreshNext]_nodes
<1>1. nodes \in Seq(ProcessNode)
  BY DEF HoldInv, TypeInv, TypeOK
<1>2. ASSUME NEW p \in Pids, CreationStep(p), nodes' # nodes
      PROVE  List!FreshNext
  <2>1. PICK parentPid \in Pids \cup {Outside} : \E s : AddUnder(p, parentPid, s)
    <3>1. origin[p].parent \in Pids \cup {Outside} /\ origin[p].creator \in Pids \cup {Outside}
      BY DEF HoldInv, TypeInv, TypeOK
    <3>. QED
      BY <1>2, <3>1 DEF CreationStep, CheckParent, CheckCreator, AddToParent, AddToCreator
  <2>2. nodes' = AddProcess(nodes, p, parentPid)
    BY <2>1 DEF AddUnder
  <2>3. parentPid \in Pids
    <3>1. ASSUME parentPid = Outside PROVE TreesOf(nodes, parentPid) = {}
      BY <1>1, <3>1, ArrayIndices, OutsideAssumption DEF TreesOf, RootedAt, Holding, ProcessNode
    <3>. QED
      BY <1>2, <2>1, <2>2, <3>1 DEF AddProcess, AddProcessStatus
  <2>4. proc[p] \in Creating
    BY <1>2 DEF CreationStep, CheckParent, CheckCreator, AddToParent, AddToCreator, Creating
  <2>5. ~ContainsProcess(nodes, p)
    BY <2>4 DEF HoldInv, Unwatched, Settled
  <2>6. ~List!ContainsProcess(nodes, p) /\ List!DoAddProcess(p)
    BY <2>2, <2>3, <2>5, SameQueries, SameAdditions DEF List!DoAddProcess
  <2>. QED
    BY <2>6 DEF List!FreshNext
<1>3. ASSUME NEW p \in Pids, Delete(p) PROVE List!FreshNext
  BY <1>3, SameDeletions DEF Delete, List!FreshNext, List!DoDeleteProcess
<1>4. ASSUME NEW p \in Pids, ExitStep(p) \/ Alerted(p), nodes' # nodes PROVE List!FreshNext
  BY <1>3, <1>4 DEF ExitStep, ExitCheck, ExitGoesTo, ExitReset, ExitWait, ExitDelete, Alerted
<1>5. ASSUME NEW c \in Clients, ClientStep(c), nodes' # nodes PROVE List!FreshNext
  <2>1. /\ client[c].pid \in Pids \cup {NoPid}
        /\ client[c].fileId \in Files \cup {NoFile}
        /\ client[c].noresp \in t_noresp
        /\ client[c].pc # "idle" => client[c].pid \in Pids
    BY DEF HoldInv, TypeInv, TypeOK, RequestNamesProcess
  <2>2. CASE AddNode(c)
    <3>1. List!DoAddProcessNode
      BY <2>1, <2>2, SameQueries, SameAdditions DEF AddNode, List!DoAddProcessNode
    <3>. QED
      BY <3>1 DEF List!FreshNext
  <2>3. CASE AddImage(c)
    <3>1. List!DoAddFile
      BY <2>1, <2>3, SameAdditions DEF AddImage, List!DoAddFile
    <3>. QED
      BY <3>1 DEF List!FreshNext
  <2>4. CASE Unwatch(c)
    BY <1>3, <2>1, <2>4 DEF Unwatch
  <2>. QED
    BY <1>5, <2>2, <2>3, <2>4 DEF ClientStep, Terminate, TerminateFails
<1>6. ASSUME NEW f \in Files, FileDeleted(f) PROVE List!FreshNext
  BY <1>6, SameDeletions DEF FileDeleted, List!FreshNext, List!DoDeleteFile
<1>7. CASE Internal
  BY <1>2, <1>4, <1>5, <1>6, <1>7 DEF Internal
<1>8. CASE HoldingNext /\ ~Internal
  BY <1>8 DEF HoldingNext, CreateProcess, BeginExit, Reap, RequestTerminate, RequestWatch
<1>. QED
  BY <1>7, <1>8 DEF vars

\* The callbacks and requests of clients that hold the processes they name
\* implement the watch list as FreshSpec specifies it, so that what is proved
\* of it there, the disjointness of trees above all, holds of the driver.
THEOREM ListUsedFreshly == HoldingSpec => UsesListFreshly
<1>1. Init => List!Init
  BY DEF Init, List!Init
<1>2. HoldInv /\ [HoldingNext]_vars => [List!FreshNext]_nodes
  BY HoldingStepFresh
<1>. QED
  BY <1>1, <1>2, HoldInvIsInvariant, PTL DEF HoldingSpec, UsesListFreshly, List!FreshSpec
=============================================================================
