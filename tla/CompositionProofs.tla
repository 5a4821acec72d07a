-------------------------- MODULE CompositionProofs --------------------------
(***************************************************************************)
(* Theorems about the two modules that compose ProcessWatch with the rest  *)
(* of the driver: DriverLifecycle and OpenFilters.  Each step of these is  *)
(* a step of the holding clients and the callbacks (HoldingNext), or one   *)
(* that the invariant HoldInv of ProcessWatchProofs survives.              *)
(***************************************************************************)
EXTENDS DriverLifecycle, OpenFilters, ProcessWatchProofs

-----------------------------------------------------------------------------
(* The driver's life: the invariant                                        *)

\* Requests are in progress only while the driver is loaded.
QuietUnlessLoaded == driver # Loaded => \A c \in Clients : client[c] = Idle

\* The notify routine is the last that DriverEntry registers.
NotifiedWhenLoaded ==
  /\ driver = Loaded => Notified
  /\ driver.at \in {"unloaded", "entry", "drain"} => ~Notified

\* The list is destroyed before the notify routine is removed, and nobody
\* can add to an empty list but a request.
EmptyUnlessWatching ==
  /\ ~Notified => nodes = << >>
  /\ driver.at = "unload" /\ driver.step > 1 => nodes = << >>

\* g_Settings is what is registered, but while a removal is waited for.
Remembered ==
  g_Settings = IF driver.at = "drain" THEN registered \cup {"notify"} ELSE registered

\* What MyDriverUnload has passed is registered no more.
UndoneSoFar ==
  /\ driver.at = "unloaded" => registered = {}
  /\ driver.at = "unload" => \A i \in 1 .. driver.step - 1 : UnloadSteps[i] \notin registered
  /\ driver.at = "drain" => driver.step = 2

\* No callback runs that the removal of the notify routine does not wait for.
CallbacksAwaited == \A p \in Pids : InCallback(p) => Notified \/ driver.at = "drain"

DriverInv ==
  /\ HoldInv
  /\ DriverTypeOK
  /\ QuietUnlessLoaded
  /\ NotifiedWhenLoaded
  /\ EmptyUnlessWatching
  /\ Remembered
  /\ UndoneSoFar
  /\ CallbacksAwaited

LEMMA StepNames ==
  /\ DOMAIN EntrySteps = 1 .. 7 /\ Len(EntrySteps) = 7
  /\ EntrySteps[7] = "notify" /\ \A i \in 1 .. 6 : EntrySteps[i] # "notify"
  /\ DOMAIN UnloadSteps = 1 .. 7 /\ Len(UnloadSteps) = 7
  /\ UnloadSteps[1] = "list" /\ UnloadSteps[2] = "notify"
  /\ \A i \in 1 .. 7 : UnloadSteps[i] = "list" <=> i = 1
  /\ \A i \in 1 .. 7 : UnloadSteps[i] = "notify" <=> i = 2
  /\ "notify" \in Registrations /\ "list" \notin Registrations
  /\ \A s \in Registrations : \E i \in 1 .. 7 : UnloadSteps[i] = s
<1>1. /\ DOMAIN EntrySteps = 1 .. 7 /\ Len(EntrySteps) = 7
      /\ EntrySteps[1] = "filter" /\ EntrySteps[2] = "filtering" /\ EntrySteps[3] = "processes"
      /\ EntrySteps[4] = "registry" /\ EntrySteps[5] = "device" /\ EntrySteps[6] = "link"
      /\ EntrySteps[7] = "notify"
  BY DEF EntrySteps
<1>2. /\ DOMAIN UnloadSteps = 1 .. 7 /\ Len(UnloadSteps) = 7
      /\ UnloadSteps[1] = "list" /\ UnloadSteps[2] = "notify" /\ UnloadSteps[3] = "processes"
      /\ UnloadSteps[4] = "registry" /\ UnloadSteps[5] = "filter" /\ UnloadSteps[6] = "link"
      /\ UnloadSteps[7] = "device"
  BY DEF UnloadSteps
<1>3. \A i \in 1 .. 7 : i = 1 \/ i = 2 \/ i = 3 \/ i = 4 \/ i = 5 \/ i = 6 \/ i = 7
  OBVIOUS
<1>4. Registrations = {"filter", "processes", "registry", "device", "link", "notify"}
  BY <1>1, <1>3 DEF Registrations
<1>5. /\ \A i \in 1 .. 7 : UnloadSteps[i] = "list" <=> i = 1
      /\ \A i \in 1 .. 7 : UnloadSteps[i] = "notify" <=> i = 2
      /\ \A i \in 1 .. 6 : EntrySteps[i] # "notify"
  BY <1>1, <1>2, <1>3
<1>6. \A s \in Registrations : \E i \in 1 .. 7 : UnloadSteps[i] = s
  BY <1>2, <1>4
<1>. QED
  BY <1>1, <1>2, <1>4, <1>5, <1>6

\* The thread that loads or unloads the driver, by the statement it is at.
LEMMA DriverAt ==
  ASSUME DriverTypeOK
  PROVE  /\ driver.at \in {"unloaded", "loaded", "entry", "unload", "drain"}
         /\ driver = [at |-> driver.at, step |-> driver.step]
         /\ driver.at = "unloaded" <=> driver = Unloaded
         /\ driver.at = "loaded" <=> driver = Loaded
         /\ driver.step \in 1 .. 7
BY StepNames DEF DriverTypeOK, Unloaded, Loaded

LEMMA DriverInitHolds == DriverInit => DriverInv
<1>. SUFFICES ASSUME DriverInit PROVE DriverInv
  OBVIOUS
<1>1. HoldInv
  BY InitHolds DEF DriverInit
<1>2. driver = Unloaded /\ driver.at = "unloaded" /\ registered = {} /\ g_Settings = {}
  BY DEF DriverInit, Unloaded
<1>3. /\ \A c \in Clients : client[c] = Idle
      /\ \A p \in Pids : proc[p] = "none"
      /\ nodes = << >>
  BY DEF DriverInit, Init
<1>4. DriverTypeOK
  BY <1>1, <1>2 DEF DriverTypeOK, HoldInv, TypeInv
<1>5. QuietUnlessLoaded /\ NotifiedWhenLoaded /\ EmptyUnlessWatching /\ Remembered /\ UndoneSoFar
  BY <1>2, <1>3 DEF QuietUnlessLoaded, NotifiedWhenLoaded, EmptyUnlessWatching, Remembered,
                    UndoneSoFar, Notified, Unloaded, Loaded
<1>6. CallbacksAwaited
  BY <1>3 DEF CallbacksAwaited, InCallback, Creating, Exiting
<1>. QED
  BY <1>1, <1>4, <1>5, <1>6 DEF DriverInv

-----------------------------------------------------------------------------
(* The driver's life: processes, callbacks and requests                    *)

LEMMA HoldingKeeps ==
  ASSUME HoldInv, [HoldingNext]_vars
  PROVE  HoldInv'
<1>1. TypeInv'
  BY HoldingIsNext, NextTyped DEF HoldInv
<1>. QED
  BY <1>1, HoldingStep DEF HoldInv, ListKept, Disjoint

LEMMA WatchingIsHolding == Watching => HoldingNext
BY DEF Watching, HoldingNext, Internal

\* Before a list is there to be filled nobody asks for it.
LEMMA QuietSteps ==
  ASSUME QuietUnlessLoaded, driver # Loaded, Watching
  PROVE  \/ \E p \in Pids : CreationStep(p) \/ ExitStep(p) \/ Alerted(p)
         \/ Notified /\ \E p \in Pids, parent, creator \in Pids \cup {Outside} :
                          CreateProcess(p, parent, creator)
         \/ Notified /\ \E p \in Pids : BeginExit(p)
         \/ \E p \in Pids : Reap(p)
<1>1. \A c \in Clients : client[c].pc = "idle"
  BY DEF QuietUnlessLoaded, Idle
<1>2. \A c \in Clients : ~ClientStep(c)
  BY <1>1 DEF ClientStep, AddNode, AddImage, Terminate, TerminateFails, Unwatch
<1>. QED
  BY <1>2 DEF Watching

\* No callback puts a process on an empty list.
LEMMA EmptyStaysEmpty ==
  ASSUME nodes = << >>,
         \/ \E p \in Pids : CreationStep(p) \/ ExitStep(p) \/ Alerted(p)
         \/ \E p \in Pids, parent, creator \in Pids \cup {Outside} :
               CreateProcess(p, parent, creator)
         \/ \E p \in Pids : BeginExit(p) \/ Reap(p)
  PROVE  nodes' = << >>
<1>1. /\ \A p : Holding(nodes, p) = {} /\ RootedAt(nodes, p) = {}
      /\ \A p : ~ContainsProcess(nodes, p)
  BY DEF Holding, RootedAt, ContainsProcess
<1>2. \A p, parent : AddProcess(nodes, p, parent) = nodes
  BY <1>1 DEF AddProcess, AddProcessStatus, TreesOf
<1>3. \A p : DeleteProcess(nodes, p) = nodes
  BY <1>1 DEF DeleteProcess
<1>4. ASSUME NEW p \in Pids, CreationStep(p) PROVE nodes' = nodes
  BY <1>2, <1>4 DEF CreationStep, CheckParent, CheckCreator, AddToParent, AddToCreator, AddUnder
<1>5. ASSUME NEW p \in Pids, ExitStep(p) \/ Alerted(p) PROVE nodes' = nodes
  BY <1>3, <1>5 DEF ExitStep, ExitCheck, ExitGoesTo, ExitReset, ExitWait, ExitDelete, Alerted, Delete
<1>6. ASSUME NEW p \in Pids, NEW parent, NEW creator, CreateProcess(p, parent, creator)
      PROVE  nodes' = nodes
  BY <1>6 DEF CreateProcess
<1>7. ASSUME NEW p \in Pids, BeginExit(p) \/ Reap(p) PROVE nodes' = nodes
  BY <1>7 DEF BeginExit, Reap
<1>. QED
  BY <1>4, <1>5, <1>6, <1>7

\* A callback in progress was one before, if it was not begun in this step.
LEMMA CallbacksBegin ==
  ASSUME TypeOK,
         \/ \E p \in Pids : CreationStep(p) \/ ExitStep(p) \/ Alerted(p)
         \/ \E p \in Pids : Reap(p),
         NEW q \in Pids, InCallback(q)'
  PROVE  InCallback(q)
<1>1. proc \in [Pids -> ProcState]
  BY DEF TypeOK
<1>2. ASSUME NEW p \in Pids, CreationStep(p)
      PROVE  proc[p] \in Creating /\ (q # p => proc'[q] = proc[q])
  BY <1>1, <1>2 DEF CreationStep, CheckParent, CheckCreator, AddToParent, AddToCreator, AddUnder,
                    CreationGoesTo, Creating
<1>3. ASSUME NEW p \in Pids, ExitStep(p) \/ Alerted(p)
      PROVE  proc[p] \in Exiting /\ (q # p => proc'[q] = proc[q] \/ proc[q] \in Exiting)
  BY <1>1, <1>3 DEF ExitStep, ExitCheck, ExitGoesTo, ExitReset, ExitWait, ExitDelete, Alerted,
                    AfterDelete, Exiting
<1>4. ASSUME NEW p \in Pids, Reap(p)
      PROVE  proc'[p] = "none" /\ (q # p => proc'[q] = proc[q])
  BY <1>1, <1>4 DEF Reap
<1>. QED
  BY <1>2, <1>3, <1>4 DEF InCallback, Creating, Exiting

LEMMA WatchingHolds ==
  ASSUME DriverInv, Watching
  PROVE  DriverInv'
<1>1. HoldInv'
  BY WatchingIsHolding, HoldingKeeps DEF DriverInv
<1>2. driver' = driver /\ registered' = registered /\ g_Settings' = g_Settings
  BY DEF Watching, driverVars
<1>3. DriverTypeOK'
  BY <1>1, <1>2 DEF DriverInv, DriverTypeOK, HoldInv, TypeInv
<1>4. Remembered' /\ UndoneSoFar' /\ NotifiedWhenLoaded'
  BY <1>2 DEF DriverInv, Remembered, UndoneSoFar, NotifiedWhenLoaded, Notified
<1>5. CASE driver = Loaded
  <2>1. Notified /\ driver.at = "loaded"
    BY <1>5 DEF DriverInv, NotifiedWhenLoaded, Loaded
  <2>2. QuietUnlessLoaded' /\ EmptyUnlessWatching' /\ CallbacksAwaited'
    BY <1>2, <1>5, <2>1 DEF QuietUnlessLoaded, EmptyUnlessWatching, CallbacksAwaited, Notified
  <2>. QED
    BY <1>1, <1>3, <1>4, <2>2 DEF DriverInv
<1>6. CASE driver # Loaded
  <2>1. \/ \E p \in Pids : CreationStep(p) \/ ExitStep(p) \/ Alerted(p)
        \/ Notified /\ \E p \in Pids, parent, creator \in Pids \cup {Outside} :
                         CreateProcess(p, parent, creator)
        \/ Notified /\ \E p \in Pids : BeginExit(p)
        \/ \E p \in Pids : Reap(p)
    BY <1>6, QuietSteps DEF DriverInv
  <2>2. client' = client
    BY <2>1 DEF CreationStep, CheckParent, CheckCreator, AddToParent, AddToCreator, AddUnder,
                ExitStep, ExitCheck, ExitGoesTo, ExitReset, ExitWait, ExitDelete, Alerted,
                CreateProcess, BeginExit, Reap
  <2>3. QuietUnlessLoaded'
    BY <1>2, <2>2 DEF DriverInv, QuietUnlessLoaded
  <2>4. nodes = << >> => nodes' = << >>
    BY <2>1, EmptyStaysEmpty
  <2>5. EmptyUnlessWatching'
    BY <1>2, <2>4 DEF DriverInv, EmptyUnlessWatching, Notified
  <2>6. CASE Notified
    BY <1>1, <1>2, <1>3, <1>4, <2>3, <2>5, <2>6 DEF DriverInv, CallbacksAwaited, Notified
  <2>7. CASE ~Notified
    <3>1. \A q \in Pids : InCallback(q)' => InCallback(q)
      BY <2>1, <2>7, CallbacksBegin DEF DriverInv, HoldInv, TypeInv
    <3>2. CallbacksAwaited'
      BY <1>2, <3>1 DEF DriverInv, CallbacksAwaited, Notified
    <3>. QED
      BY <1>1, <1>3, <1>4, <2>3, <2>5, <3>2 DEF DriverInv
  <2>. QED
    BY <2>6, <2>7
<1>. QED
  BY <1>5, <1>6

-----------------------------------------------------------------------------
(* The driver's life: what is not seen, loading and unloading              *)

\* A process that comes or goes unseen is on no list, as there is none.
LEMMA UnseenHolds ==
  ASSUME DriverInv, NEW p \in Pids, UnseenCreation(p) \/ UnseenExit(p)
  PROVE  DriverInv'
<1>1. /\ ~Notified /\ proc' = [proc EXCEPT ![p] = proc'[p]]
      /\ proc[p] \in {"none", "running"} /\ proc'[p] \in {"running", "zombie"}
      /\ nodes' = nodes /\ client' = client /\ deletionEvent' = deletionEvent
      /\ origin' = origin /\ doomed' = doomed
      /\ driver' = driver /\ registered' = registered /\ g_Settings' = g_Settings
      /\ proc \in [Pids -> ProcState]
  BY DEF UnseenCreation, UnseenExit, driverVars, DriverInv, HoldInv, TypeInv, TypeOK
<1>2. nodes = << >> /\ driver # Loaded
  BY <1>1 DEF DriverInv, EmptyUnlessWatching, NotifiedWhenLoaded
<1>3. \A q : ~ContainsProcess(nodes', q)
  BY <1>1, <1>2 DEF ContainsProcess, Holding
<1>4. Unwatched' /\ ExitsAsChild'
  BY <1>1, <1>2, <1>3 DEF Unwatched, ExitsAsChild, NotRoot
<1>5. Reserved'
  BY <1>1, <1>2 DEF DriverInv, QuietUnlessLoaded, Reserved, Idle
<1>6. TypeInv'
  BY <1>1 DEF DriverInv, HoldInv, TypeInv, TypeOK, RequestNamesProcess, ProcState
<1>7. HoldInv'
  BY <1>1, <1>4, <1>5, <1>6 DEF DriverInv, HoldInv
<1>8. CallbacksAwaited'
  BY <1>1 DEF DriverInv, CallbacksAwaited, InCallback, Notified, Creating, Exiting
<1>. QED
  BY <1>1, <1>6, <1>7, <1>8
     DEF DriverInv, DriverTypeOK, QuietUnlessLoaded, NotifiedWhenLoaded, EmptyUnlessWatching,
         Remembered, UndoneSoFar, Notified, TypeInv

\* A list that is empty satisfies what is asked of lists.
LEMMA ClearedHolds ==
  ASSUME HoldInv, nodes' = << >>, deletionEvent' \in BOOLEAN,
         \/ proc' = proc
         \/ proc' = [p \in Pids |-> IF proc[p] = "exitWait" THEN "exitCheck" ELSE proc[p]],
         client' = client, origin' = origin, doomed' = doomed
  PROVE  HoldInv'
<1>1. /\ proc \in [Pids -> ProcState] /\ proc' \in [Pids -> ProcState]
      /\ \A p \in Pids : proc[p] = "running" => proc'[p] = "running"
  BY DEF HoldInv, TypeInv, TypeOK, ProcState, Exiting
<1>2. /\ << >> \in Seq(ProcessNode) /\ DOMAIN nodes' = {} /\ Len(nodes') = 0
  BY EmptySeq
<1>3. Sound(nodes') /\ Disjoint(nodes')
  BY <1>2, LimitAssumption DEF Sound, Disjoint
<1>4. \A q : ~ContainsProcess(nodes', q)
  BY <1>2 DEF ContainsProcess, Holding
<1>5. Unwatched' /\ ExitsAsChild'
  BY <1>2, <1>4 DEF Unwatched, ExitsAsChild, NotRoot
<1>6. Reserved'
  BY <1>1 DEF HoldInv, Reserved, TypeInv, RequestNamesProcess
<1>7. TypeInv'
  BY <1>1, <1>2, <1>3 DEF HoldInv, TypeInv, TypeOK, RequestNamesProcess
<1>. QED
  BY <1>3, <1>5, <1>6, <1>7 DEF HoldInv

\* Steps that leave the list, the processes and the requests alone.
LEMMA HeldStill ==
  ASSUME HoldInv, UNCHANGED vars
  PROVE  HoldInv'
BY HoldingKeeps

\* DriverEntry begins, and each of its steps succeeds or fails.
LEMMA EntryHolds ==
  ASSUME DriverInv, BeginEntry \/ EntryStepSucceeds \/ EntryStepFails
  PROVE  DriverInv'
<1>. USE DriverAt, StepNames DEF DriverInv
<1>1. CASE BeginEntry
  <2>1. /\ driver = Unloaded /\ driver' = [at |-> "entry", step |-> 1]
        /\ g_Settings' = {} /\ nodes' = << >> /\ deletionEvent' = FALSE
        /\ proc' = proc /\ origin' = origin /\ doomed' = doomed /\ client' = client
        /\ registered' = registered
    BY <1>1 DEF BeginEntry
  <2>2. HoldInv'
    BY <2>1, ClearedHolds
  <2>3. /\ driver # Loaded /\ driver.at = "unloaded" /\ registered = {}
        /\ driver'.at = "entry" /\ driver'.step = 1 /\ driver' # Loaded
    BY <2>1 DEF UndoneSoFar, Loaded, Unloaded
  <2>4. DriverTypeOK'
    BY <2>1, <2>2, <2>3 DEF DriverTypeOK, HoldInv, TypeInv
  <2>5. /\ QuietUnlessLoaded' /\ NotifiedWhenLoaded' /\ EmptyUnlessWatching'
        /\ Remembered' /\ UndoneSoFar'
    BY <2>1, <2>3 DEF QuietUnlessLoaded, NotifiedWhenLoaded, EmptyUnlessWatching, Remembered,
                      UndoneSoFar, Notified
  <2>6. CallbacksAwaited'
    BY <2>1, <2>3 DEF CallbacksAwaited, Notified, InCallback
  <2>. QED
    BY <2>2, <2>4, <2>5, <2>6
<1>2. CASE EntryStepFails
  <2>1. /\ driver.at = "entry" /\ driver' = [at |-> "unload", step |-> 1]
        /\ UNCHANGED vars /\ registered' = registered /\ g_Settings' = g_Settings
    BY <1>2 DEF EntryStepFails
  <2>2. HoldInv'
    BY <2>1, HeldStill
  <2>3. ~Notified /\ driver # Loaded /\ driver' # Loaded /\ driver'.at = "unload" /\ driver'.step = 1
    BY <2>1 DEF NotifiedWhenLoaded, Loaded
  <2>4. DriverTypeOK'
    BY <2>1, <2>2, <2>3 DEF DriverTypeOK, HoldInv, TypeInv
  <2>5. /\ QuietUnlessLoaded' /\ NotifiedWhenLoaded' /\ EmptyUnlessWatching'
        /\ Remembered' /\ UndoneSoFar'
    BY <2>1, <2>3 DEF QuietUnlessLoaded, NotifiedWhenLoaded, EmptyUnlessWatching, Remembered,
                      UndoneSoFar, Notified, vars
  <2>6. CallbacksAwaited'
    BY <2>1, <2>3 DEF CallbacksAwaited, Notified, InCallback, vars
  <2>. QED
    BY <2>2, <2>4, <2>5, <2>6
<1>3. CASE EntryStepSucceeds
  <2>. DEFINE s == EntrySteps[driver.step]
  <2>1. /\ driver.at = "entry" /\ UNCHANGED vars
        /\ registered' = registered \cup ({s} \cap Registrations)
        /\ g_Settings' = g_Settings \cup ({s} \cap Registrations)
        /\ driver' = IF driver.step = 7 THEN Loaded ELSE [at |-> "entry", step |-> driver.step + 1]
    BY <1>3 DEF EntryStepSucceeds
  <2>2. HoldInv'
    BY <2>1, HeldStill
  <2>3. /\ ~Notified /\ driver # Loaded /\ nodes = << >> /\ g_Settings = registered
        /\ \A p \in Pids : ~InCallback(p)
    BY <2>1 DEF NotifiedWhenLoaded, Loaded, EmptyUnlessWatching, Remembered, CallbacksAwaited
  <2>4. \A c \in Clients : client'[c] = Idle
    BY <2>1, <2>3 DEF QuietUnlessLoaded, vars
  <2>5. driver.step = 7 <=> "notify" \in registered'
    BY <2>1, <2>3 DEF Notified
  <2>. HIDE DEF s
  <2>6. \/ driver' = Loaded /\ driver'.at = "loaded" /\ "notify" \in registered'
        \/ /\ driver' = [at |-> "entry", step |-> driver.step + 1] /\ driver.step + 1 \in 1 .. 7
           /\ driver'.at = "entry" /\ driver' # Loaded /\ "notify" \notin registered'
    BY <2>1, <2>5 DEF Loaded
  <2>7. DriverTypeOK'
    BY <2>1, <2>2, <2>6 DEF DriverTypeOK, HoldInv, TypeInv
  <2>8. /\ QuietUnlessLoaded' /\ NotifiedWhenLoaded' /\ EmptyUnlessWatching'
        /\ Remembered' /\ UndoneSoFar'
    BY <2>1, <2>3, <2>4, <2>6
       DEF QuietUnlessLoaded, NotifiedWhenLoaded, EmptyUnlessWatching, Remembered,
           UndoneSoFar, Notified, vars
  <2>9. CallbacksAwaited'
    BY <2>1, <2>3 DEF CallbacksAwaited, InCallback, vars
  <2>. QED
    BY <2>2, <2>7, <2>8, <2>9
<1>. QED
  BY <1>1, <1>2, <1>3

\* A step of MyDriverUnload passes on to the next, or is the last.
LEMMA Passed ==
  ASSUME DriverTypeOK, driver.at \in {"unload", "drain"}, UndoneNext
  PROVE  \/ /\ driver.step = 7 /\ driver' = Unloaded /\ driver'.at = "unloaded"
         \/ /\ driver.step + 1 \in 1 .. 7
            /\ driver' = [at |-> "unload", step |-> driver.step + 1]
            /\ driver'.at = "unload" /\ driver'.step = driver.step + 1
BY DriverAt, StepNames DEF UndoneNext, Unloaded

\* What is undone, or was not there, is passed for good.
LEMMA PassedHolds ==
  ASSUME DriverInv, DriverTypeOK', HoldInv', driver.at \in {"unload", "drain"}, UndoneNext,
         registered' \subseteq registered, UnloadSteps[driver.step] \notin registered',
         g_Settings' = registered',
         nodes' = << >>,
         \A p \in Pids : InCallback(p)' => Notified' \/ (driver.at = "unload" /\ InCallback(p)),
         driver.at = "unload" => (Notified' <=> Notified),
         client' = client
  PROVE  DriverInv'
<1>. USE DriverAt, StepNames DEF DriverInv
<1>1. driver # Loaded /\ \A c \in Clients : client'[c] = Idle
  BY DEF QuietUnlessLoaded, Loaded
<1>2. \A i \in 1 .. driver.step : UnloadSteps[i] \notin registered'
  <2>1. \A i \in 1 .. driver.step - 1 : UnloadSteps[i] \notin registered
    <3>1. CASE driver.at = "unload"
      BY <3>1 DEF UndoneSoFar
    <3>2. CASE driver.at = "drain"
      <4>1. driver.step = 2
        BY <3>2 DEF UndoneSoFar
      <4>2. registered \subseteq Registrations
        BY DEF DriverTypeOK
      <4>. QED
        BY <4>1, <4>2
    <3>. QED
      BY <3>1, <3>2
  <2>2. \A i \in 1 .. driver.step : i \in 1 .. driver.step - 1 \/ i = driver.step
    OBVIOUS
  <2>. QED
    BY <2>1, <2>2
<1>3. driver.step = 7 => registered' = {}
  BY <1>2 DEF DriverTypeOK
<1>4. UndoneSoFar'
  BY <1>2, <1>3, Passed DEF UndoneSoFar
<1>5. Remembered' /\ QuietUnlessLoaded' /\ EmptyUnlessWatching' /\ NotifiedWhenLoaded'
  BY <1>1, <1>3, Passed DEF Remembered, QuietUnlessLoaded, EmptyUnlessWatching,
                            NotifiedWhenLoaded, Notified, Loaded, Unloaded
<1>6. CallbacksAwaited'
  BY DEF CallbacksAwaited, Notified
<1>. QED
  BY <1>1, <1>4, <1>5, <1>6

\* The filter is unloaded, or the driver begins to be.
LEMMA UnloadBegins ==
  ASSUME DriverInv, MyFilterUnload \/ BeginUnload
  PROVE  DriverInv'
<1>. USE DriverAt, StepNames DEF DriverInv
<1>1. HoldInv'
  BY HeldStill DEF MyFilterUnload, BeginUnload
<1>2. /\ UNCHANGED vars /\ driver = Loaded /\ driver.at = "loaded" /\ Notified
      /\ g_Settings = registered
  BY DEF MyFilterUnload, BeginUnload, Loaded, NotifiedWhenLoaded, Remembered
<1>3. Notified' /\ registered' \subseteq registered /\ g_Settings' = registered'
  BY <1>2 DEF MyFilterUnload, BeginUnload, Notified
<1>4. CallbacksAwaited'
  BY <1>3 DEF CallbacksAwaited
<1>5. CASE MyFilterUnload
  <2>1. driver' = driver
    BY <1>5 DEF MyFilterUnload
  <2>2. DriverTypeOK'
    BY <1>1, <1>3, <2>1 DEF DriverTypeOK, HoldInv, TypeInv
  <2>3. /\ QuietUnlessLoaded' /\ NotifiedWhenLoaded' /\ EmptyUnlessWatching'
        /\ Remembered' /\ UndoneSoFar'
    BY <1>2, <1>3, <2>1 DEF QuietUnlessLoaded, NotifiedWhenLoaded, EmptyUnlessWatching, Remembered,
                            UndoneSoFar, Loaded
  <2>. QED
    BY <1>1, <1>4, <2>2, <2>3
<1>6. CASE BeginUnload
  <2>1. /\ driver' = [at |-> "unload", step |-> 1] /\ driver'.at = "unload" /\ driver'.step = 1
        /\ \A c \in Clients : client'[c] = Idle
    BY <1>2, <1>6 DEF BeginUnload, vars
  <2>2. DriverTypeOK'
    BY <1>1, <1>3, <2>1 DEF DriverTypeOK, HoldInv, TypeInv
  <2>3. /\ QuietUnlessLoaded' /\ NotifiedWhenLoaded' /\ EmptyUnlessWatching'
        /\ Remembered' /\ UndoneSoFar'
    BY <1>2, <1>3, <2>1 DEF QuietUnlessLoaded, NotifiedWhenLoaded, EmptyUnlessWatching, Remembered,
                            UndoneSoFar, Loaded
  <2>. QED
    BY <1>1, <1>4, <2>2, <2>3
<1>. QED
  BY <1>5, <1>6

LEMMA UnloadHolds ==
  ASSUME DriverInv,
         \/ FreeGlobals \/ RemoveNotify \/ NotifyRemoved
         \/ \E s \in Registrations : Unregister(s) \/ Skip(s)
  PROVE  DriverInv'
<1>. USE DriverAt, StepNames DEF DriverInv
<1>1. CASE FreeGlobals
  <2>1. /\ driver.at = "unload" /\ driver.step = 1 /\ UndoneNext
        /\ nodes' = << >> /\ deletionEvent' = TRUE
        /\ proc' = [p \in Pids |-> IF proc[p] = "exitWait" THEN "exitCheck" ELSE proc[p]]
        /\ origin' = origin /\ doomed' = doomed /\ client' = client
        /\ registered' = registered /\ g_Settings' = g_Settings
    BY <1>1 DEF FreeGlobals, Undoing
  <2>2. HoldInv'
    BY <2>1, ClearedHolds
  <2>3. DriverTypeOK'
    BY <2>1, <2>2, Passed DEF DriverTypeOK, HoldInv, TypeInv
  <2>4. registered \subseteq Registrations /\ g_Settings = registered
    BY <2>1 DEF DriverTypeOK, Remembered
  <2>5. \A p \in Pids : InCallback(p)' => InCallback(p)
    BY <2>1 DEF InCallback, Exiting, Creating
  <2>. QED
    BY <2>1, <2>2, <2>3, <2>4, <2>5, PassedHolds DEF Notified
<1>2. CASE RemoveNotify
  <2>1. /\ driver.at = "unload" /\ driver.step = 2 /\ UNCHANGED vars
        /\ registered' = registered \ {"notify"} /\ driver' = [at |-> "drain", step |-> 2]
        /\ g_Settings' = g_Settings /\ "notify" \in g_Settings
    BY <1>2 DEF RemoveNotify, Undoing
  <2>2. HoldInv'
    BY <2>1, HeldStill
  <2>3. DriverTypeOK'
    BY <2>1, <2>2 DEF DriverTypeOK, HoldInv, TypeInv
  <2>4. /\ driver # Loaded /\ driver'.at = "drain" /\ driver'.step = 2 /\ driver' # Loaded
        /\ nodes' = << >> /\ g_Settings' = registered' \cup {"notify"} /\ ~Notified'
    BY <2>1 DEF Loaded, EmptyUnlessWatching, Remembered, Notified, vars
  <2>5. QuietUnlessLoaded' /\ NotifiedWhenLoaded' /\ EmptyUnlessWatching' /\ Remembered' /\ UndoneSoFar'
    BY <2>1, <2>4 DEF QuietUnlessLoaded, NotifiedWhenLoaded, EmptyUnlessWatching, Remembered,
                      UndoneSoFar, vars
  <2>6. CallbacksAwaited'
    BY <2>4 DEF CallbacksAwaited
  <2>. QED
    BY <2>2, <2>3, <2>5, <2>6
<1>3. CASE NotifyRemoved
  <2>1. /\ driver.at = "drain" /\ driver.step = 2 /\ UndoneNext /\ UNCHANGED vars
        /\ registered' = registered /\ g_Settings' = g_Settings \ {"notify"}
        /\ \A p \in Pids : ~InCallback(p)
    BY <1>3 DEF NotifyRemoved, UndoneSoFar
  <2>2. HoldInv'
    BY <2>1, HeldStill
  <2>3. DriverTypeOK'
    BY <2>1, <2>2, Passed DEF DriverTypeOK, HoldInv, TypeInv
  <2>4. g_Settings' = registered /\ "notify" \notin registered /\ nodes' = << >>
    BY <2>1 DEF Remembered, NotifiedWhenLoaded, EmptyUnlessWatching, Notified, vars
  <2>5. \A p \in Pids : ~InCallback(p)'
    BY <2>1 DEF InCallback, vars
  <2>. QED
    BY <2>1, <2>2, <2>3, <2>4, <2>5, PassedHolds DEF vars
<1>4. ASSUME NEW s \in Registrations, Unregister(s) \/ Skip(s) PROVE DriverInv'
  <2>1. /\ driver.at = "unload" /\ UnloadSteps[driver.step] = s /\ UndoneNext /\ UNCHANGED vars
        /\ g_Settings = registered
    BY <1>4 DEF Unregister, Skip, Undoing, Remembered
  <2>2. HoldInv'
    BY <2>1, HeldStill
  <2>3. /\ registered' \subseteq registered /\ s \notin registered' /\ g_Settings' = registered'
        /\ Notified' <=> Notified
    BY <1>4, <2>1 DEF Unregister, Skip, Notified
  <2>4. DriverTypeOK'
    BY <2>1, <2>2, <2>3, Passed DEF DriverTypeOK, HoldInv, TypeInv
  <2>5. driver.step > 1 /\ nodes' = << >>
    BY <2>1 DEF EmptyUnlessWatching, vars
  <2>6. \A p \in Pids : InCallback(p)' => InCallback(p)
    BY <2>1 DEF InCallback, vars
  <2>. QED
    BY <2>1, <2>2, <2>3, <2>4, <2>5, <2>6, PassedHolds DEF vars
<1>. QED
  BY <1>1, <1>2, <1>3, <1>4

-----------------------------------------------------------------------------
(* The driver's life: the theorems                                         *)

LEMMA DriverStepHolds ==
  ASSUME DriverInv, [DriverNext]_allVars
  PROVE  DriverInv'
<1>1. CASE UNCHANGED allVars
  <2>1. UNCHANGED vars /\ UNCHANGED driverVars
    BY <1>1 DEF allVars
  <2>2. HoldInv'
    BY <2>1, HeldStill DEF DriverInv
  <2>. QED
    BY <2>1, <2>2
       DEF driverVars, vars, DriverInv, DriverTypeOK, HoldInv, TypeInv, QuietUnlessLoaded,
           NotifiedWhenLoaded, EmptyUnlessWatching, Remembered, UndoneSoFar, CallbacksAwaited,
           InCallback, Notified
<1>2. CASE DriverStep
  BY <1>2, EntryHolds, UnloadHolds DEF DriverStep
<1>. QED
  BY <1>1, <1>2, WatchingHolds, UnseenHolds, EntryHolds, UnloadBegins DEF DriverNext

LEMMA DriverInvIsInvariant == DriverSpec => []DriverInv
<1>1. DriverInv /\ [DriverNext]_allVars => DriverInv'
  BY DriverStepHolds
<1>. QED
  BY <1>1, DriverInitHolds, PTL DEF DriverSpec

\* Loading and unloading, however they are interrupted, leave every variable
\* with a value that the code can put there.
THEOREM DriverTyped == DriverSpec => []DriverTypeOK
<1>1. DriverInv => DriverTypeOK
  BY DEF DriverInv
<1>. QED
  BY <1>1, DriverInvIsInvariant, PTL

\* A driver that is not loaded can be called by nobody, whatever DriverEntry
\* had registered when it failed and whatever was running when the unload
\* began: MyDriverUnload undoes all that is registered, and is back only when
\* the callbacks in progress are over.
THEOREM UnloadIsComplete == DriverSpec => []NothingLeftBehind
<1>1. ASSUME DriverInv, driver = Unloaded
      PROVE  /\ registered = {}
             /\ \A p \in Pids : ~InCallback(p)
             /\ \A c \in Clients : client[c] = Idle
  <2>1. driver.at = "unloaded" /\ driver # Loaded
    BY <1>1 DEF Unloaded, Loaded
  <2>2. registered = {} /\ ~Notified
    BY <1>1, <2>1 DEF DriverInv, UndoneSoFar, NotifiedWhenLoaded
  <2>. QED
    BY <1>1, <2>1, <2>2 DEF DriverInv, CallbacksAwaited, QuietUnlessLoaded
<1>2. DriverInv => NothingLeftBehind
  BY <1>1 DEF NothingLeftBehind
<1>. QED
  BY <1>2, DriverInvIsInvariant, PTL

\* Nothing is unregistered twice, although the filter manager and the unload
\* of the driver both unregister the filter, and a failed DriverEntry calls
\* the unload with only some of it done.
THEOREM RegistrationsUndoneOnce == DriverSpec => []UndoesOnce
<1>1. ASSUME DriverInv, NEW s \in Registrations, Undoing(s), s \in g_Settings
      PROVE  s \in registered
  <2>1. driver.at = "unload"
    BY <1>1 DEF Undoing
  <2>. QED
    BY <1>1, <2>1 DEF DriverInv, Remembered
<1>2. DriverInv => UndoesOnce
  BY <1>1 DEF UndoesOnce
<1>. QED
  BY <1>2, DriverInvIsInvariant, PTL

\* While nobody reports the ends of processes the list is empty: callbacks in
\* progress after it was destroyed do not fill it again.
THEOREM UnseenIsUnwatched == DriverSpec => []WatchedWhileNotified
<1>1. DriverInv => WatchedWhileNotified
  BY DEF DriverInv, EmptyUnlessWatching, WatchedWhileNotified
<1>. QED
  BY <1>1, DriverInvIsInvariant, PTL

\* Also when the driver is unloaded and loaded again between a process's
\* creation and its end, a process that is gone is on no tree.
THEOREM GoneStaysUnwatched == DriverSpec => []GoneIsUnwatched
<1>1. DriverInv => GoneIsUnwatched
  BY DEF DriverInv, HoldInv, Unwatched, GoneIsUnwatched, Settled
<1>. QED
  BY <1>1, DriverInvIsInvariant, PTL

-----------------------------------------------------------------------------
(* The handle filter: what the steps of ProcessWatch do to processes       *)

\* The processes that a creation in progress names are there.
CreatorsRun ==
  \A p \in Pids : proc[p] \in Creating =>
    /\ origin[p].creator # Outside => proc[origin[p].creator] = "running"
    /\ origin[p].parent \notin {Outside, origin[p].creator} =>
         proc[origin[p].parent] \in {"running", "zombie"} \cup Exiting

\* Nobody terminates, or has terminated, a process that is being registered;
\* one that is taken off the list on request has been terminated before.
RequestsExclusive ==
  \A c \in Clients :
    /\ client[c].pc = "delete" => client[c].pid \in doomed
    /\ client[c].pc = "addNode" =>
         /\ client[c].pid \notin doomed
         /\ \A d \in Clients : d # c => client[d].pid # client[c].pid

Named(p) == \E q \in Pids : proc[q] \in Creating /\ p \in {origin[q].parent, origin[q].creator}

\* Where a step may take the process q.
Begun(q) ==
  LET o == origin'[q]
  IN  /\ proc[q] = "none" /\ proc'[q] = "parentCheck"
      /\ o.creator # Outside => proc[o.creator] = "running"
      /\ o.parent \notin {Outside, o.creator} => proc[o.parent] \in {"running"} \cup Exiting
      /\ \A x \in Pids : x # q => proc'[x] = proc[x]

Moves(q) ==
  \/ Begun(q)
  \/ proc[q] \in Creating /\ proc'[q] = "running"
  \/ /\ origin'[q] = origin[q]
     /\ \/ proc'[q] = proc[q]
        \/ proc[q] \in Creating /\ proc'[q] \in Creating
        \/ proc[q] = "running" /\ proc'[q] = "exitCheck" /\ ~CreatesProcess(q)
        \/ proc[q] \in Exiting /\ proc'[q] \in Exiting \cup {"zombie"}
        \/ proc[q] = "zombie" /\ proc'[q] = "none" /\ ~Named(q)

LEMMA StepMoves ==
  ASSUME TypeOK, [Next]_vars, NEW q \in Pids
  PROVE  /\ Moves(q)
         /\ q \in doomed => q \in doomed' \/ proc[q] = "zombie"
<1>1. proc \in [Pids -> ProcState] /\ origin \in [Pids -> [parent : Pids \cup {Outside}, creator : Pids \cup {Outside}]]
  BY DEF TypeOK
<1>2. ASSUME NEW p \in Pids, CreationStep(p)
      PROVE  Moves(q) /\ (q \in doomed => q \in doomed')
  <2>1. /\ proc[p] \in Creating /\ proc'[p] \in Creating \cup {"running"}
        /\ proc'[p] # "running" => origin'[p] = origin[p]
        /\ q # p => proc'[q] = proc[q] /\ origin'[q] = origin[q]
        /\ q \in doomed => q \in doomed'
    BY <1>1, <1>2 DEF CreationStep, CheckParent, CheckCreator, AddToParent, AddToCreator, AddUnder,
                      CreationGoesTo, AfterParent, Creating
  <2>. QED
    BY <2>1 DEF Moves
<1>3. ASSUME NEW p \in Pids, ExitStep(p) \/ Alerted(p)
      PROVE  Moves(q) /\ doomed' = doomed
  <2>1. /\ proc[p] \in Exiting /\ proc'[p] \in Exiting \cup {"zombie"}
        /\ origin' = origin /\ doomed' = doomed
        /\ q # p => proc'[q] = proc[q] \/ (proc[q] = "exitWait" /\ proc'[q] = "exitCheck")
    BY <1>1, <1>3 DEF ExitStep, ExitCheck, ExitGoesTo, ExitReset, ExitWait, ExitDelete, Alerted,
                      AfterDelete, Exiting
  <2>. QED
    BY <2>1 DEF Moves, Exiting
<1>4. ASSUME NEW c \in Clients, ClientStep(c)
      PROVE  Moves(q) /\ (q \in doomed => q \in doomed')
  <2>1. /\ origin' = origin /\ (q \in doomed => q \in doomed')
        /\ proc'[q] = proc[q] \/ (proc[q] = "exitWait" /\ proc'[q] = "exitCheck")
    BY <1>1, <1>4 DEF ClientStep, AddNode, AddImage, Terminate, TerminateFails, Unwatch, AfterDelete
  <2>. QED
    BY <2>1 DEF Moves, Exiting
<1>5. ASSUME NEW f, FileDeleted(f) PROVE Moves(q) /\ doomed' = doomed
  BY <1>5 DEF FileDeleted, Moves
<1>6. ASSUME NEW p \in Pids, NEW parent \in Pids \cup {Outside}, NEW creator \in Pids \cup {Outside},
             CreateProcess(p, parent, creator)
      PROVE  Moves(q) /\ doomed' = doomed
  <2>1. CASE q = p
    <3>1. /\ proc[q] = "none" /\ proc'[q] = "parentCheck"
          /\ origin'[q] = [parent |-> parent, creator |-> creator]
          /\ \A x \in Pids : x # q => proc'[x] = proc[x]
          /\ doomed' = doomed
      BY <1>1, <1>6, <2>1 DEF CreateProcess
    <3>2. Begun(q)
      BY <1>6, <3>1 DEF CreateProcess, Begun
    <3>. QED
      BY <3>1, <3>2 DEF Moves
  <2>2. CASE q # p
    BY <1>1, <1>6, <2>2 DEF CreateProcess, Moves
  <2>. QED
    BY <2>1, <2>2
<1>7. ASSUME NEW p \in Pids, BeginExit(p) PROVE Moves(q) /\ doomed' = doomed
  BY <1>1, <1>7 DEF BeginExit, Moves
<1>8. ASSUME NEW p \in Pids, Reap(p)
      PROVE  Moves(q) /\ (q \in doomed => q \in doomed' \/ proc[q] = "zombie")
  <2>1. CASE q = p
    <3>1. proc[q] = "zombie" /\ proc'[q] = "none" /\ origin' = origin
      BY <1>1, <1>8, <2>1 DEF Reap
    <3>2. ~Named(q)
      BY <1>8, <2>1 DEF Reap, Named
    <3>. QED
      BY <3>1, <3>2 DEF Moves
  <2>2. CASE q # p
    BY <1>1, <1>8, <2>2 DEF Reap, Moves
  <2>. QED
    BY <2>1, <2>2
<1>9. ASSUME NEW c \in Clients, NEW p \in Pids,
             \/ RequestTerminate(c, p)
             \/ \E f \in Files \cup {NoFile}, noresp \in Levels : RequestWatch(c, p, f, noresp)
      PROVE  Moves(q) /\ doomed' = doomed
  BY <1>9 DEF RequestTerminate, RequestWatch, Moves
<1>10. CASE UNCHANGED vars
  BY <1>10 DEF vars, Moves
<1>. QED
  BY <1>2, <1>3, <1>4, <1>5, <1>6, <1>7, <1>8, <1>9, <1>10 DEF Next, Internal

\* A creator does not end, and a parent is not forgotten, before the callback.
LEMMA CreatorsRunKept ==
  ASSUME TypeInv, CreatorsRun, [Next]_vars
  PROVE  CreatorsRun'
<1>. SUFFICES ASSUME NEW p \in Pids, proc'[p] \in Creating
              PROVE  /\ origin'[p].creator # Outside => proc'[origin'[p].creator] = "running"
                     /\ origin'[p].parent \notin {Outside, origin'[p].creator} =>
                          proc'[origin'[p].parent] \in {"running", "zombie"} \cup Exiting
  BY DEF CreatorsRun
<1>1. \A x \in Pids : Moves(x)
  BY StepMoves DEF TypeInv
<1>2. /\ origin \in [Pids -> [parent : Pids \cup {Outside}, creator : Pids \cup {Outside}]]
      /\ origin'[p].parent \in Pids \cup {Outside} /\ origin'[p].creator \in Pids \cup {Outside}
  BY NextTyped DEF TypeInv, TypeOK
<1>3. CASE Begun(p)
  <2>1. \A x \in Pids : proc[x] # "none" => proc'[x] = proc[x]
    BY <1>3 DEF Begun
  <2>. QED
    BY <1>2, <1>3, <2>1 DEF Begun, Exiting
<1>4. CASE ~Begun(p)
  <2>1. proc[p] \in Creating /\ origin'[p] = origin[p]
    BY <1>1, <1>4 DEF Moves, Creating, Exiting
  <2>2. ASSUME NEW x \in Pids, proc[x] = "running", x = origin[p].creator PROVE proc'[x] = "running"
    <3>1. CreatesProcess(x)
      BY <2>1, <2>2 DEF CreatesProcess
    <3>. QED
      BY <1>1, <2>2, <3>1 DEF Moves, Begun, Creating, Exiting
  <2>3. ASSUME NEW x \in Pids, proc[x] \in {"running", "zombie"} \cup Exiting, x = origin[p].parent
        PROVE  proc'[x] \in {"running", "zombie"} \cup Exiting
    <3>1. Named(x)
      BY <2>1, <2>3 DEF Named
    <3>. QED
      BY <1>1, <2>3, <3>1 DEF Moves, Begun, Creating, Exiting
  <2>. QED
    BY <1>2, <2>1, <2>2, <2>3 DEF CreatorsRun
<1>. QED
  BY <1>3, <1>4

-----------------------------------------------------------------------------
(* The handle filter: what the steps of ProcessWatch do to requests and to *)
(* the list                                                                *)

LEMMA RequestsKept ==
  ASSUME HoldInv, RequestsExclusive, [HoldingNext]_vars
  PROVE  RequestsExclusive'
<1>1. /\ \A c \in Clients : client[c].pc # "idle" => client[c].pid \in Pids
      /\ \A c \in Clients : client[c].pc = "addNode" => proc[client[c].pid] = "running"
      /\ client \in [Clients -> [ pc : {"idle", "addNode", "addFile", "terminate", "delete"},
                                  pid : Pids \cup {NoPid}, fileId : Files \cup {NoFile},
                                  noresp : t_noresp,
                                  status : {"ADD_OK", "ADD_FORBIDDEN", "ADD_LIMIT_EXHAUSTED"} ]]
      /\ proc \in [Pids -> ProcState] /\ NoPid \notin Pids
      /\ Idle.pc = "idle" /\ Idle.pid = NoPid
  BY SentinelAssumption DEF HoldInv, TypeInv, TypeOK, RequestNamesProcess, Reserved, Idle
<1>2. ASSUME client' = client, \A x \in Pids : x \in doomed => x \in doomed' \/ ~InUse(x),
             \A x \in Pids : x \in doomed' => x \in doomed \/ proc[x] # "running"
      PROVE  RequestsExclusive'
  BY <1>1, <1>2 DEF RequestsExclusive, InUse
<1>3. ASSUME NEW p \in Pids, CreationStep(p) PROVE RequestsExclusive'
  <2>1. /\ client' = client /\ doomed \subseteq doomed' /\ doomed' \subseteq doomed \cup {p}
        /\ proc[p] # "running"
    BY <1>1, <1>3 DEF CreationStep, CheckParent, CheckCreator, AddToParent, AddToCreator, AddUnder,
                      CreationGoesTo
  <2>. QED
    BY <1>2, <2>1
<1>4. ASSUME NEW p \in Pids, ExitStep(p) \/ Alerted(p) PROVE RequestsExclusive'
  <2>1. client' = client /\ doomed' = doomed
    BY <1>4 DEF ExitStep, ExitCheck, ExitGoesTo, ExitReset, ExitWait, ExitDelete, Alerted
  <2>. QED
    BY <1>2, <2>1
<1>5. ASSUME NEW c \in Clients, ClientStep(c) PROVE RequestsExclusive'
  <2>1. /\ \A d \in Clients : d # c => client'[d] = client[d]
        /\ \/ client[c].pc = "addNode" /\ client'[c].pc \in {"idle", "addFile"}
              /\ client'[c].pid \in {client[c].pid, NoPid}
              /\ doomed' \in {doomed, doomed \cup {client[c].pid}}
           \/ client'[c] = Idle /\ doomed' = doomed
           \/ client[c].pc = "terminate" /\ client'[c].pc = "delete"
              /\ client'[c].pid = client[c].pid /\ doomed' = doomed \cup {client[c].pid}
    <3>1. CASE AddNode(c)
      BY <1>1, <3>1 DEF AddNode
    <3>2. CASE AddImage(c) \/ TerminateFails(c) \/ Unwatch(c)
      BY <1>1, <3>2 DEF AddImage, TerminateFails, Unwatch
    <3>3. CASE Terminate(c)
      BY <1>1, <3>3 DEF Terminate
    <3>. QED
      BY <1>5, <3>1, <3>2, <3>3 DEF ClientStep
  <2>. QED
    BY <1>1, <2>1 DEF RequestsExclusive
<1>6. ASSUME NEW f, FileDeleted(f) PROVE RequestsExclusive'
  BY <1>2, <1>6 DEF FileDeleted
<1>7. ASSUME NEW p \in Pids, NEW parent, NEW creator, CreateProcess(p, parent, creator)
      PROVE  RequestsExclusive'
  BY <1>2, <1>7 DEF CreateProcess
<1>8. ASSUME NEW p \in Pids, BeginExit(p) \/ (~InUse(p) /\ Reap(p)) PROVE RequestsExclusive'
  BY <1>2, <1>8 DEF BeginExit, Reap
<1>9. ASSUME NEW c \in Clients, NEW p \in Pids, ~Suspended(p), RequestTerminate(c, p)
      PROVE  RequestsExclusive'
  <2>1. /\ \A d \in Clients : d # c => client'[d] = client[d]
        /\ client'[c].pc = "terminate" /\ client'[c].pid = p /\ doomed' = doomed
    BY <1>1, <1>9 DEF RequestTerminate
  <2>. QED
    BY <1>1, <1>9, <2>1 DEF RequestsExclusive, Suspended
<1>10. ASSUME NEW c \in Clients, NEW p \in Pids, p \notin doomed, ~InUse(p), NEW f, NEW noresp,
              RequestWatch(c, p, f, noresp)
       PROVE  RequestsExclusive'
  <2>1. /\ \A d \in Clients : d # c => client'[d] = client[d]
        /\ client'[c].pc = "addNode" /\ client'[c].pid = p /\ doomed' = doomed
    BY <1>1, <1>10 DEF RequestWatch
  <2>. QED
    BY <1>1, <1>10, <2>1 DEF RequestsExclusive, InUse
<1>11. CASE UNCHANGED vars
  BY <1>2, <1>11 DEF vars
<1>. QED
  BY <1>3, <1>4, <1>5, <1>6, <1>7, <1>8, <1>9, <1>10, <1>11 DEF HoldingNext, Internal

\* What a step puts on the list was being created or registered, and what
\* stays on the list stays on one tree with what it was with.
ListMoves ==
  /\ \A q \in Pids : ContainsProcess(nodes', q) =>
       \/ ContainsProcess(nodes, q) \/ proc[q] \in Creating
       \/ \E c \in Clients : client[c].pc = "addNode" /\ client[c].pid = q
  /\ \A x, y \in Pids :
       /\ SameTree(nodes, x, y) /\ ContainsProcess(nodes', x) /\ ContainsProcess(nodes', y)
       => SameTree(nodes', x, y)

LEMMA ListMovesBy ==
  ASSUME NEW S, NEW T, NothingNewBut(nodes', nodes, S), TreesKeptBut(nodes', nodes, T),
         \A q \in S : \/ proc[q] \in Creating
                     \/ \E c \in Clients : client[c].pc = "addNode" /\ client[c].pid = q,
         \A q \in T : ~ContainsProcess(nodes', q)
  PROVE  ListMoves
<1>1. \A q \in Pids \ S : ContainsProcess(nodes', q) => ContainsProcess(nodes, q)
  BY NothingNewMeans
<1>2. ASSUME NEW x \in Pids, NEW y \in Pids, SameTree(nodes, x, y),
             ContainsProcess(nodes', x), ContainsProcess(nodes', y)
      PROVE  SameTree(nodes', x, y)
  <2>1. x \notin T /\ y \notin T
    BY <1>2
  <2>. QED
    BY <1>2, <2>1, TreesKeptMeans
<1>. QED
  BY <1>1, <1>2 DEF ListMoves

LEMMA StepListMoves ==
  ASSUME HoldInv, [HoldingNext]_vars
  PROVE  ListMoves
<1>1. nodes \in Seq(ProcessNode) /\ proc \in [Pids -> ProcState]
  BY DEF HoldInv, TypeInv, TypeOK
<1>2. ASSUME nodes' = nodes PROVE ListMoves
  BY <1>2 DEF ListMoves
<1>3. ASSUME NEW p \in Pids, CreationStep(p) PROVE ListMoves
  <2>1. ASSUME NEW parent, proc[p] \in Creating, nodes' = AddProcess(nodes, p, parent)
        PROVE  ListMoves
    <3>1. NothingNewBut(nodes', nodes, {p}) /\ TreesKeptBut(nodes', nodes, {})
      BY <1>1, <2>1, AddProcessKeeps, AddProcessKeepsTrees
    <3>. QED
      BY <2>1, <3>1, ListMovesBy
  <2>2. \/ nodes' = nodes
        \/ proc[p] \in Creating /\ \E parent : nodes' = AddProcess(nodes, p, parent)
    BY <1>3 DEF CreationStep, CheckParent, CheckCreator, AddToParent, AddToCreator, AddUnder, Creating
  <2>. QED
    BY <1>2, <2>1, <2>2
<1>4. ASSUME NEW p, Delete(p) PROVE ListMoves
  <2>1. NothingNewBut(nodes', nodes, {}) /\ ~ContainsProcess(nodes', p)
    BY <1>4, DeleteHolds
  <2>2. TreesKeptBut(nodes', nodes, {p})
    BY <1>1, <1>4, DeleteProcessKeepsTrees DEF Delete
  <2>. QED
    BY <2>1, <2>2, ListMovesBy
<1>5. ASSUME NEW p \in Pids, ExitStep(p) \/ Alerted(p) PROVE ListMoves
  BY <1>2, <1>4, <1>5 DEF ExitStep, ExitCheck, ExitGoesTo, ExitReset, ExitWait, ExitDelete, Alerted
<1>6. ASSUME NEW c \in Clients, AddNode(c) PROVE ListMoves
  <2>1. /\ client[c].pc = "addNode" /\ client[c].pid \in Pids
        /\ client[c].fileId \in Files \cup {NoFile} /\ client[c].noresp \in t_noresp
        /\ nodes' = AddProcessNode(nodes, client[c].pid, client[c].fileId, client[c].noresp)
    BY <1>6 DEF AddNode, HoldInv, TypeInv, TypeOK, RequestNamesProcess
  <2>2. NothingNewBut(nodes', nodes, {client[c].pid}) /\ TreesKeptBut(nodes', nodes, {})
    BY <1>1, <2>1, AddProcessNodeKeeps, AddProcessNodeKeepsTrees
  <2>. QED
    BY <2>1, <2>2, ListMovesBy
<1>7. ASSUME NEW c \in Clients, AddImage(c) PROVE ListMoves
  <2>1. nodes' = AddFile(nodes, client[c].fileId, client[c].pid)
    BY <1>7 DEF AddImage
  <2>2. NothingNewBut(nodes', nodes, {}) /\ TreesKeptBut(nodes', nodes, {})
    BY <1>1, <2>1, AddFileKeeps, AddFileKeepsTrees
  <2>. QED
    BY <2>2, ListMovesBy
<1>8. ASSUME NEW c \in Clients, ClientStep(c) PROVE ListMoves
  BY <1>2, <1>4, <1>6, <1>7, <1>8 DEF ClientStep, Terminate, TerminateFails, Unwatch
<1>9. ASSUME NEW f, FileDeleted(f) PROVE ListMoves
  <2>1. nodes' = DeleteFile(nodes, f)
    BY <1>9 DEF FileDeleted
  <2>2. NothingNewBut(nodes', nodes, {}) /\ TreesKeptBut(nodes', nodes, {})
    BY <1>1, <2>1, DeleteFileKeeps, DeleteFileKeepsTrees
  <2>. QED
    BY <2>2, ListMovesBy
<1>10. CASE UNCHANGED vars
  BY <1>2, <1>10 DEF vars
<1>. QED
  BY <1>2, <1>3, <1>5, <1>8, <1>9, <1>10
     DEF HoldingNext, Internal, CreateProcess, BeginExit, Reap, RequestTerminate, RequestWatch

-----------------------------------------------------------------------------
(* The handle filter: the invariant                                        *)

\* A process that is not on the list any more, or that is ending, does not
\* come back to it: it is on the list, or is terminated, or on its way out.
Fixed(p) ==
  \/ proc[p] \in Exiting \cup {"zombie"}
  \/ proc[p] = "running" /\ (p \in doomed \/ ContainsProcess(nodes, p))

\* Two processes are on one tree as long as both are on the list.
Together(p, q) ==
  ContainsProcess(nodes, p) /\ ContainsProcess(nodes, q) => SameTree(nodes, p, q)

\* While the creator's handle is opened the callback has not begun.
OpenInv ==
  /\ open.pc = "idle" => open = NoOpen
  /\ open.pc # "idle" => open.source \in Pids /\ open.target \in Pids
  /\ open.pc # "idle" /\ open.creation =>
       /\ proc[open.target] = "parentCheck"
       /\ origin[open.target].creator = open.source
       /\ open.pc # "stripped" => origin[open.target].parent = open.parent
       /\ open.pc \in {"target", "parent"} => Fixed(open.source)

\* A whole handle is there because the parent was of the creator's family,
\* and it is until one of the two leaves the list.
Justified(creator, p) ==
  /\ proc[p] \in Creating
  /\ origin[p].creator = creator
  /\ origin[p].parent \in Pids
  /\ Fixed(creator) /\ Fixed(origin[p].parent)
  /\ Together(creator, origin[p].parent)

HandlesInv == \A h \in handles : Justified(h[1], h[2])

OwnInv ==
  /\ open.pc \in {"parent", "stripped"} => open.source # open.target
  /\ open.pc = "stripped" => open.source # open.parent

FilterInv ==
  /\ HoldInv
  /\ FilterTypeOK
  /\ CreatorsRun
  /\ RequestsExclusive
  /\ OpenInv
  /\ HandlesInv
  /\ OwnInv

LEMMA FilterInitHolds == FilterInit => FilterInv
<1>. SUFFICES ASSUME FilterInit PROVE FilterInv
  OBVIOUS
<1>1. HoldInv
  BY InitHolds DEF FilterInit
<1>2. open = NoOpen /\ handles = {}
  BY DEF FilterInit
<1>3. FilterTypeOK
  BY <1>1, <1>2 DEF FilterTypeOK, NoOpen, HoldInv, TypeInv
<1>4. \A p \in Pids : proc[p] \notin Creating
  BY DEF FilterInit, Init, Creating
<1>5. \A c \in Clients : client[c].pc = "idle"
  BY DEF FilterInit, Init, Idle
<1>6. CreatorsRun /\ RequestsExclusive
  BY <1>4, <1>5 DEF CreatorsRun, RequestsExclusive
<1>7. OpenInv /\ HandlesInv /\ OwnInv
  BY <1>2 DEF OpenInv, HandlesInv, OwnInv, NoOpen
<1>. QED
  BY <1>1, <1>3, <1>6, <1>7 DEF FilterInv

\* A creation keeps the PIDs of parent and creator from being used again.
LEMMA FixedKept ==
  ASSUME HoldInv, RequestsExclusive, [HoldingNext]_vars, NEW p \in Pids, Fixed(p), Named(p)
  PROVE  Fixed(p)'
<1>1. Moves(p) /\ (p \in doomed => p \in doomed' \/ proc[p] = "zombie")
  BY HoldingIsNext, StepMoves DEF HoldInv, TypeInv
<1>2. CASE proc[p] \in Exiting \cup {"zombie"}
  BY <1>1, <1>2 DEF Moves, Begun, Fixed, Exiting, Creating
<1>3. CASE proc[p] = "running"
  <2>1. proc'[p] \in {"running", "exitCheck"}
    BY <1>1, <1>3 DEF Moves, Begun, Exiting, Creating
  <2>2. ASSUME p \notin doomed, p \notin doomed' PROVE ContainsProcess(nodes', p)
    <3>1. ContainsProcess(nodes, p)
      BY <1>3, <2>2 DEF Fixed, Exiting
    <3>2. StepTakesOffReleased
      BY HoldingStep
    <3>3. ASSUME NEW S, TakesOff(S), p \notin S PROVE ContainsProcess(nodes', p)
      BY <3>1, <3>3 DEF TakesOff, AllKeptBut
    <3>. QED
      BY <1>3, <2>2, <3>2, <3>3 DEF StepTakesOffReleased, RequestsExclusive
  <2>. QED
    BY <1>1, <1>3, <2>1, <2>2 DEF Fixed, Exiting
<1>. QED
  BY <1>2, <1>3 DEF Fixed

LEMMA HeldBefore ==
  ASSUME HoldInv, RequestsExclusive, [HoldingNext]_vars, NEW p \in Pids, Fixed(p),
         ContainsProcess(nodes', p)
  PROVE  ContainsProcess(nodes, p)
<1>1. \/ ContainsProcess(nodes, p) \/ proc[p] \in Creating
      \/ \E c \in Clients : client[c].pc = "addNode" /\ client[c].pid = p
  BY StepListMoves DEF ListMoves
<1>2. proc[p] \notin Creating
  BY DEF Fixed, Creating, Exiting
<1>3. ASSUME NEW c \in Clients, client[c].pc = "addNode", client[c].pid = p
      PROVE  ContainsProcess(nodes, p)
  <2>1. proc[p] = "running" /\ p \notin doomed
    BY <1>3 DEF HoldInv, Reserved, RequestsExclusive
  <2>. QED
    BY <2>1 DEF Fixed, Exiting
<1>. QED
  BY <1>1, <1>2, <1>3

LEMMA TogetherKept ==
  ASSUME HoldInv, RequestsExclusive, [HoldingNext]_vars, NEW p \in Pids, NEW q \in Pids,
         Fixed(p), Fixed(q), Together(p, q)
  PROVE  Together(p, q)'
<1>1. ASSUME ContainsProcess(nodes', p), ContainsProcess(nodes', q) PROVE SameTree(nodes', p, q)
  <2>1. SameTree(nodes, p, q)
    BY <1>1, HeldBefore DEF Together
  <2>. QED
    BY <1>1, <2>1, StepListMoves DEF ListMoves
<1>. QED
  BY <1>1 DEF Together, ContainsProcess, Holding, SameTree

LEMMA JustifiedKept ==
  ASSUME FilterInv, [HoldingNext]_vars, NEW h \in handles, proc'[h[2]] \in Creating
  PROVE  Justified(h[1], h[2])'
<1>1. Justified(h[1], h[2]) /\ h \in Pids \X Pids
  BY DEF FilterInv, FilterTypeOK, HandlesInv
<1>2. PICK creator \in Pids, p \in Pids : creator = h[1] /\ p = h[2]
  BY <1>1
<1>3. PICK parent \in Pids : parent = origin[p].parent
  BY <1>1, <1>2 DEF Justified
<1>4. origin'[p] = origin[p]
  <2>1. Moves(p)
    BY HoldingIsNext, StepMoves DEF FilterInv, HoldInv, TypeInv
  <2>. QED
    BY <1>1, <1>2, <2>1 DEF Moves, Begun, Justified, Creating
<1>5. Named(creator) /\ Named(parent)
  BY <1>1, <1>2, <1>3 DEF Named, Justified
<1>6. Fixed(creator)' /\ Fixed(parent)'
  BY <1>1, <1>2, <1>3, <1>5, FixedKept DEF FilterInv, Justified
<1>7. Together(creator, parent)'
  <2>1. Fixed(creator) /\ Fixed(parent) /\ Together(creator, parent)
    BY <1>1, <1>2, <1>3 DEF Justified
  <2>. QED
    BY <2>1, TogetherKept DEF FilterInv
<1>. QED
  BY <1>1, <1>2, <1>3, <1>4, <1>6, <1>7 DEF Justified, Fixed, Together

-----------------------------------------------------------------------------
(* The handle filter: steps beside the filter                              *)

LEMMA FilterIsHolding == [FilterNext]_handleVars => [HoldingNext]_vars
<1>1. ASSUME NEW p \in Pids, NEW parent \in Pids \cup {Outside}, NEW creator \in Pids \cup {Outside},
             ~Suspended(creator), CreateAndOpen(p, parent, creator)
      PROVE  HoldingNext
  BY <1>1 DEF CreateAndOpen, HoldingNext
<1>2. ASSUME NEW p \in Pids, ~Suspended(p), End(p) PROVE HoldingNext
  BY <1>2 DEF End, HoldingNext
<1>3. ASSUME NEW p \in Pids, ~InUse(p), ReapUnreferenced(p) PROVE HoldingNext
  BY <1>3 DEF ReapUnreferenced, HoldingNext
<1>4. ASSUME NEW p \in Pids, CreationStep(p) \/ ExitStep(p) \/ Alerted(p) PROVE HoldingNext
  BY <1>4 DEF HoldingNext, Internal
<1>5. ASSUME NEW c \in Clients, ClientStep(c) PROVE HoldingNext
  BY <1>5 DEF HoldingNext, Internal
<1>6. ASSUME NEW c \in Clients, NEW p \in Pids,
             \/ ~Suspended(p) /\ RequestTerminate(c, p)
             \/ /\ proc[p] = "running" /\ ~CreatesProcess(p)
                /\ p \notin doomed /\ ~InUse(p)
                /\ \E f \in Files \cup {NoFile}, noresp \in Levels : RequestWatch(c, p, f, noresp)
      PROVE  HoldingNext
  BY <1>6 DEF HoldingNext
<1>7. ASSUME FilterStep \/ \E source, target \in Pids : OpenProcess(source, target)
      PROVE  UNCHANGED vars
  BY <1>7 DEF FilterStep, CheckSource, CheckTarget, CheckParentPID, OpenedStripped, GoesOn,
              OpenedWhole, OpenProcess
<1>8. (UNCHANGED handleVars) => UNCHANGED vars
  BY DEF handleVars
<1>. QED
  BY <1>1, <1>2, <1>3, <1>4, <1>5, <1>6, <1>7, <1>8 DEF FilterNext

\* No step but its own moves a creation.
CreationsStand ==
  \A q \in Pids : proc[q] \in Creating => proc'[q] = proc[q] /\ origin'[q] = origin[q]

LEMMA OthersLetCreationsStand ==
  ASSUME TypeOK,
         \/ \E p \in Pids : ExitStep(p) \/ Alerted(p) \/ BeginExit(p) \/ Reap(p)
         \/ \E c \in Clients : ClientStep(c)
         \/ \E c \in Clients, p \in Pids :
              \/ RequestTerminate(c, p)
              \/ \E f \in Files \cup {NoFile}, noresp \in Levels : RequestWatch(c, p, f, noresp)
         \/ \E p \in Pids, parent, creator \in Pids \cup {Outside} :
              CreateProcess(p, parent, creator)
  PROVE  CreationsStand
<1>1. proc \in [Pids -> ProcState] /\ origin \in [Pids -> [parent : Pids \cup {Outside}, creator : Pids \cup {Outside}]]
  BY DEF TypeOK
<1>2. ASSUME NEW p \in Pids, ExitStep(p) \/ Alerted(p) \/ BeginExit(p) \/ Reap(p)
      PROVE  CreationsStand
  BY <1>1, <1>2 DEF ExitStep, ExitCheck, ExitGoesTo, ExitReset, ExitWait, ExitDelete, Alerted,
                    BeginExit, Reap, AfterDelete, CreationsStand, Creating
<1>3. ASSUME NEW c \in Clients, ClientStep(c) PROVE CreationsStand
  BY <1>1, <1>3 DEF ClientStep, AddNode, AddImage, Terminate, TerminateFails, Unwatch, AfterDelete,
                    CreationsStand, Creating
<1>4. ASSUME NEW c \in Clients, NEW p \in Pids,
             \/ RequestTerminate(c, p)
             \/ \E f \in Files \cup {NoFile}, noresp \in Levels : RequestWatch(c, p, f, noresp)
      PROVE  CreationsStand
  BY <1>4 DEF RequestTerminate, RequestWatch, CreationsStand
<1>5. ASSUME NEW p \in Pids, NEW parent, NEW creator, CreateProcess(p, parent, creator)
      PROVE  CreationsStand
  BY <1>1, <1>5 DEF CreateProcess, CreationsStand, Creating
<1>. QED
  BY <1>2, <1>3, <1>4, <1>5

\* What a step of processes, callbacks and requests does not touch.
LEMMA RestHolds ==
  ASSUME FilterInv, [HoldingNext]_vars
  PROVE  HoldInv' /\ CreatorsRun' /\ RequestsExclusive' /\ TypeOK'
<1>1. HoldInv'
  BY HoldingKeeps DEF FilterInv
<1>. QED
  BY <1>1, HoldingIsNext, CreatorsRunKept, RequestsKept DEF FilterInv, HoldInv, TypeInv

LEMMA OpenKept ==
  ASSUME FilterInv, [HoldingNext]_vars, open' = open,
         open.creation => \/ CreationsStand
                          \/ \E p \in Pids : /\ p # open.target
                                             /\ \A q \in Pids \ {p} : /\ proc'[q] = proc[q]
                                                                      /\ origin'[q] = origin[q]
  PROVE  OpenInv' /\ OwnInv'
<1>1. OwnInv'
  BY DEF FilterInv, OwnInv
<1>2. ASSUME open.pc # "idle", open.creation
      PROVE  /\ proc'[open.target] = "parentCheck"
             /\ origin'[open.target].creator = open.source
             /\ open.pc # "stripped" => origin'[open.target].parent = open.parent
             /\ open.pc \in {"target", "parent"} => Fixed(open.source)'
  <2>1. PICK source \in Pids, target \in Pids : source = open.source /\ target = open.target
    BY <1>2 DEF FilterInv, OpenInv
  <2>2. /\ proc[target] = "parentCheck"
        /\ origin[target].creator = source
        /\ open.pc # "stripped" => origin[target].parent = open.parent
        /\ open.pc \in {"target", "parent"} => Fixed(source)
    BY <1>2, <2>1 DEF FilterInv, OpenInv
  <2>3. proc'[target] = proc[target] /\ origin'[target] = origin[target]
    BY <1>2, <2>1, <2>2 DEF CreationsStand, Creating
  <2>4. Named(source)
    BY <2>2 DEF Named, Creating
  <2>5. open.pc \in {"target", "parent"} => Fixed(source)'
    BY <2>2, <2>4, FixedKept DEF FilterInv
  <2>. QED
    BY <2>1, <2>2, <2>3, <2>5 DEF Fixed
<1>3. OpenInv'
  BY <1>2 DEF FilterInv, OpenInv, Fixed
<1>. QED
  BY <1>1, <1>3

\* The handles that are left after a step are as good as before.
LEMMA HandlesKept ==
  ASSUME FilterInv, [HoldingNext]_vars, handles' \subseteq handles,
         \A h \in handles' : proc'[h[2]] \in Creating
  PROVE  HandlesInv'
<1>1. \A h \in handles' : Justified(h[1], h[2])'
  BY JustifiedKept
<1>. QED
  BY <1>1 DEF HandlesInv, Justified, Fixed, Together

LEMMA BesideHolds ==
  ASSUME FilterInv, [HoldingNext]_vars, open' = open, handles' \subseteq handles, CreationsStand
  PROVE  FilterInv'
<1>1. \A h \in handles' : proc'[h[2]] \in Creating
  BY DEF FilterInv, FilterTypeOK, HandlesInv, Justified, CreationsStand
<1>2. HandlesInv'
  BY <1>1, HandlesKept
<1>3. FilterTypeOK'
  BY RestHolds DEF FilterInv, FilterTypeOK
<1>. QED
  BY <1>2, <1>3, OpenKept, RestHolds DEF FilterInv

LEMMA CallbackHolds ==
  ASSUME FilterInv, NEW p \in Pids, Created(p), CreationStep(p), CreationGoesOn
  PROVE  FilterInv'
<1>1. [HoldingNext]_vars
  BY DEF HoldingNext, Internal
<1>2. open' = open /\ handles' \subseteq handles /\ \A h \in handles' : proc'[h[2]] \in Creating
  BY DEF CreationGoesOn
<1>3. \A q \in Pids \ {p} : proc'[q] = proc[q] /\ origin'[q] = origin[q]
  BY DEF CreationStep, CheckParent, CheckCreator, AddToParent, AddToCreator, AddUnder,
         CreationGoesTo, FilterInv, HoldInv, TypeInv, TypeOK
<1>4. OpenInv' /\ OwnInv'
  BY <1>1, <1>2, <1>3, OpenKept DEF Created
<1>5. HandlesInv'
  BY <1>1, <1>2, HandlesKept
<1>6. FilterTypeOK'
  BY <1>1, <1>2, RestHolds DEF FilterInv, FilterTypeOK
<1>. QED
  BY <1>1, <1>4, <1>5, <1>6, RestHolds DEF FilterInv

-----------------------------------------------------------------------------
(* The handle filter: its own steps                                        *)

LEMMA CreateAndOpenHolds ==
  ASSUME FilterInv, NEW p \in Pids,
         NEW parent \in Pids \cup {Outside}, NEW creator \in Pids \cup {Outside},
         ~Suspended(creator), CreateAndOpen(p, parent, creator)
  PROVE  FilterInv'
<1>1. [HoldingNext]_vars /\ CreateProcess(p, parent, creator) /\ handles' = handles
  BY DEF CreateAndOpen, HoldingNext
<1>2. CreationsStand
  BY <1>1, OthersLetCreationsStand DEF FilterInv, HoldInv, TypeInv
<1>3. CASE creator = Outside
  BY <1>1, <1>2, <1>3, BesideHolds DEF CreateAndOpen
<1>4. CASE creator # Outside
  <2>1. /\ open' = [pc |-> "source", source |-> creator, target |-> p,
                    parent |-> parent, creation |-> TRUE]
        /\ creator \in Pids
    BY <1>4 DEF CreateAndOpen
  <2>2. proc'[p] = "parentCheck" /\ origin'[p] = [parent |-> parent, creator |-> creator]
    BY <1>1 DEF CreateProcess, FilterInv, HoldInv, TypeInv, TypeOK
  <2>3. OpenInv' /\ OwnInv'
    BY <2>1, <2>2 DEF OpenInv, OwnInv
  <2>4. \A h \in handles' : proc'[h[2]] \in Creating
    BY <1>1, <1>2 DEF FilterInv, FilterTypeOK, HandlesInv, Justified, CreationsStand
  <2>5. HandlesInv'
    BY <1>1, <2>4, HandlesKept
  <2>6. FilterTypeOK'
    BY <1>1, <2>1, RestHolds DEF FilterInv, FilterTypeOK
  <2>. QED
    BY <1>1, <2>3, <2>5, <2>6, RestHolds DEF FilterInv
<1>. QED
  BY <1>3, <1>4

\* Steps of the filter alone: the handles and what is asked of the next one
\* are all there is to show.
LEMMA FilterAlone ==
  ASSUME FilterInv, UNCHANGED vars, OpenInv', OwnInv', HandlesInv',
         open' \in [ pc : {"idle", "source", "target", "parent", "stripped"},
                     source : Pids \cup {NoPid}, target : Pids \cup {NoPid},
                     parent : Pids \cup {Outside}, creation : BOOLEAN ],
         handles' \subseteq Pids \X Pids
  PROVE  FilterInv'
<1>1. FilterTypeOK'
  BY RestHolds DEF FilterTypeOK
<1>. QED
  BY <1>1, RestHolds DEF FilterInv

LEMMA SameHandles ==
  ASSUME FilterInv, UNCHANGED vars, handles' = handles
  PROVE  HandlesInv'
BY DEF FilterInv, HandlesInv, Justified, Fixed, Together, vars

LEMMA OpenProcessHolds ==
  ASSUME FilterInv, NEW source \in Pids, NEW target \in Pids, OpenProcess(source, target)
  PROVE  FilterInv'
<1>1. /\ UNCHANGED vars /\ handles' = handles
      /\ open' = [pc |-> "source", source |-> source, target |-> target,
                  parent |-> source, creation |-> FALSE]
  BY DEF OpenProcess
<1>2. OpenInv' /\ OwnInv'
  BY <1>1 DEF OpenInv, OwnInv
<1>. QED
  BY <1>1, <1>2, SameHandles, FilterAlone DEF FilterInv, FilterTypeOK

\* The filter goes on with the same open.
LEMMA GoesOnHolds ==
  ASSUME FilterInv, NEW pc \in {"source", "target"}, NEW s \in {"target", "parent"},
         GoesOn(pc, s), open.creation => Fixed(open.source),
         s = "parent" => open.source # open.target
  PROVE  FilterInv'
<1>1. UNCHANGED vars /\ handles' = handles /\ open' = [open EXCEPT !.pc = s]
      /\ open.pc \notin {"idle", "stripped"}
  BY DEF GoesOn
<1>2. open \in [ pc : {"idle", "source", "target", "parent", "stripped"},
                 source : Pids \cup {NoPid}, target : Pids \cup {NoPid},
                 parent : Pids \cup {Outside}, creation : BOOLEAN ]
  BY DEF FilterInv, FilterTypeOK
<1>3. /\ open'.pc = s /\ open'.source = open.source /\ open'.target = open.target
      /\ open'.parent = open.parent /\ open'.creation = open.creation
  BY <1>1, <1>2
<1>4. OwnInv'
  BY <1>3 DEF OwnInv
<1>5. OpenInv'
  BY <1>1, <1>3 DEF FilterInv, OpenInv, Fixed, vars
<1>. QED
  BY <1>1, <1>2, <1>4, <1>5, SameHandles, FilterAlone DEF FilterInv, FilterTypeOK

\* The open is over.
LEMMA OpenedHolds ==
  ASSUME FilterInv, UNCHANGED vars, open' = NoOpen, HandlesInv', handles' \subseteq Pids \X Pids
  PROVE  FilterInv'
<1>1. OpenInv' /\ OwnInv'
  BY DEF OpenInv, OwnInv, NoOpen
<1>. QED
  BY <1>1, FilterAlone DEF NoOpen

LEMMA CheckSourceHolds ==
  ASSUME FilterInv, CheckSource
  PROVE  FilterInv'
<1>1. CASE ContainsProcess(nodes, open.source)
  <2>1. GoesOn("source", "target") /\ open.pc = "source"
    BY <1>1 DEF CheckSource, GoesOn
  <2>2. open.creation => Fixed(open.source)
    <3>. SUFFICES ASSUME open.creation PROVE Fixed(open.source)
      OBVIOUS
    <3>1. /\ open.source \in Pids /\ open.target \in Pids
          /\ proc[open.target] \in Creating /\ origin[open.target].creator = open.source
      BY <2>1 DEF FilterInv, OpenInv, Creating
    <3>2. proc[open.source] = "running"
      BY <3>1, OutsideAssumption DEF FilterInv, CreatorsRun
    <3>. QED
      BY <1>1, <3>2 DEF Fixed
  <2>. QED
    BY <2>1, <2>2, GoesOnHolds
<1>2. CASE ~ContainsProcess(nodes, open.source)
  <2>1. UNCHANGED vars /\ open' = NoOpen /\ handles' = handles
    BY <1>2 DEF CheckSource, OpenedWhole
  <2>. QED
    BY <2>1, OpenedHolds, SameHandles DEF FilterInv, FilterTypeOK
<1>. QED
  BY <1>1, <1>2

\* The process that is created is on no tree, and is not its creator.
LEMMA CheckTargetHolds ==
  ASSUME FilterInv, CheckTarget
  PROVE  FilterInv'
<1>1. CASE AreSameFamily(nodes, open.target, open.source)
  <2>1. UNCHANGED vars /\ open' = NoOpen /\ open.pc = "target"
        /\ handles' = IF open.creation THEN handles \cup {<<open.source, open.target>>} ELSE handles
    BY <1>1 DEF CheckTarget, OpenedWhole
  <2>2. ~open.creation
    <3>. SUFFICES ASSUME open.creation PROVE FALSE
      OBVIOUS
    <3>1. /\ open.target \in Pids /\ proc[open.target] = "parentCheck" /\ Fixed(open.source)
      BY <2>1 DEF FilterInv, OpenInv
    <3>2. ~ContainsProcess(nodes, open.target)
      BY <3>1 DEF FilterInv, HoldInv, Unwatched, Settled, Creating
    <3>3. open.target # open.source
      BY <3>1 DEF Fixed, Exiting
    <3>. QED
      BY <1>1, <3>2, <3>3 DEF AreSameFamily
  <2>. QED
    BY <2>1, <2>2, OpenedHolds, SameHandles DEF FilterInv, FilterTypeOK
<1>2. CASE ~AreSameFamily(nodes, open.target, open.source)
  <2>1. GoesOn("target", "parent") /\ open.pc = "target" /\ open.source # open.target
    BY <1>2 DEF CheckTarget, GoesOn, AreSameFamily
  <2>2. open.creation => Fixed(open.source)
    BY <2>1 DEF FilterInv, OpenInv
  <2>. QED
    BY <2>1, <2>2, GoesOnHolds
<1>. QED
  BY <1>1, <1>2

\* On a list without overlaps a process is looked up on the one tree it is on.
LEMMA FamilyIsSameTree ==
  ASSUME NEW ns \in Seq(ProcessNode), Disjoint(ns), NEW p, NEW q
  PROVE  /\ SameTree(ns, p, q) => AreSameFamily(ns, p, q)
         /\ AreSameFamily(ns, p, q) => p = q \/ SameTree(ns, p, q)
<1>1. ASSUME SameTree(ns, p, q) PROVE AreSameFamily(ns, p, q)
  <2>1. PICK i \in DOMAIN ns : {p, q} \subseteq ns[i].processList
    BY <1>1 DEF SameTree
  <2>2. Holding(ns, p) # {}
    BY <2>1 DEF Holding
  <2>3. /\ First(Holding(ns, p)) \in DOMAIN ns
        /\ p \in ns[First(Holding(ns, p))].processList
    BY <2>2, FirstMatch
  <2>4. First(Holding(ns, p)) = i
    BY <2>1, <2>3 DEF Disjoint
  <2>. QED
    BY <2>1, <2>2, <2>4 DEF AreSameFamily, ContainsProcess
<1>2. ASSUME AreSameFamily(ns, p, q), p # q PROVE SameTree(ns, p, q)
  <2>1. Holding(ns, p) # {} /\ q \in ns[First(Holding(ns, p))].processList
    BY <1>2 DEF AreSameFamily, ContainsProcess
  <2>2. /\ First(Holding(ns, p)) \in DOMAIN ns
        /\ p \in ns[First(Holding(ns, p))].processList
    BY <2>1, FirstMatch
  <2>. QED
    BY <2>1, <2>2 DEF SameTree
<1>. QED
  BY <1>1, <1>2

LEMMA TreesHoldPids ==
  ASSUME NEW ns \in Seq(ProcessNode), NEW p, NEW q, SameTree(ns, p, q)
  PROVE  /\ p \in Pids /\ q \in Pids
         /\ ContainsProcess(ns, p) /\ ContainsProcess(ns, q)
         /\ SameTree(ns, q, p)
<1>1. PICK i \in DOMAIN ns : {p, q} \subseteq ns[i].processList
  BY DEF SameTree
<1>2. ns[i].processList \subseteq Pids
  BY ArrayIndices DEF ProcessNode
<1>3. SameTree(ns, q, p)
  BY <1>1 DEF SameTree
<1>. QED
  BY <1>1, <1>2, <1>3, ContainedIffHeld

\* The creator that passes for a parent of its own family is justified.
LEMMA ParentJustifies ==
  ASSUME FilterInv, open.pc = "parent", open.creation,
         AreSameFamily(nodes, open.parent, open.source)
  PROVE  Justified(open.source, open.target)
<1>1. /\ open.source \in Pids /\ open.target \in Pids /\ proc[open.target] \in Creating
      /\ origin[open.target].parent = open.parent /\ origin[open.target].creator = open.source
      /\ Fixed(open.source)
  BY DEF FilterInv, OpenInv, Creating
<1>2. nodes \in Seq(ProcessNode) /\ Disjoint(nodes)
  BY DEF FilterInv, HoldInv, TypeInv, TypeOK
<1>3. CASE open.parent = open.source
  <2>1. Together(open.source, open.source)
    BY ContainedIffHeld DEF Together, SameTree
  <2>. QED
    BY <1>1, <1>3, <2>1 DEF Justified
<1>4. CASE open.parent # open.source
  <2>1. SameTree(nodes, open.parent, open.source)
    BY <1>2, <1>4, FamilyIsSameTree
  <2>2. /\ open.parent \in Pids /\ ContainsProcess(nodes, open.parent)
        /\ SameTree(nodes, open.source, open.parent)
    BY <1>2, <2>1, TreesHoldPids
  <2>3. proc[open.parent] \in {"running", "zombie"} \cup Exiting
    BY <1>1, <1>4, <2>2, OutsideAssumption DEF FilterInv, CreatorsRun
  <2>4. Fixed(open.parent)
    BY <2>2, <2>3 DEF Fixed
  <2>. QED
    BY <1>1, <2>2, <2>4 DEF Justified, Together
<1>. QED
  BY <1>3, <1>4

\* The outside is on no tree.
LEMMA OutsiderIsNoFamily ==
  ASSUME FilterInv, NEW pid \in Pids
  PROVE  ~AreSameFamily(nodes, Outside, pid)
<1>1. nodes \in Seq(ProcessNode)
  BY DEF FilterInv, HoldInv, TypeInv, TypeOK
<1>2. Outside # pid /\ Outside \notin Pids
  BY OutsideAssumption
<1>3. ~ContainsProcess(nodes, Outside)
  BY <1>1, <1>2, ArrayIndices DEF ContainsProcess, Holding, ProcessNode
<1>. QED
  BY <1>2, <1>3 DEF AreSameFamily

LEMMA CheckParentPIDHolds ==
  ASSUME FilterInv, CheckParentPID
  PROVE  FilterInv'
<1>0. PICK parent \in GetProcessParentPID :
        IF AreSameFamily(nodes, parent, open.source)
        THEN OpenedWhole("parent", TRUE)
        ELSE /\ open.pc = "parent"
             /\ open' = [open EXCEPT !.pc = "stripped", !.parent = parent]
             /\ UNCHANGED <<vars, handles>>
  BY DEF CheckParentPID
<1>1. /\ open.pc = "parent" /\ open.source \in Pids /\ open.target \in Pids
      /\ parent \in {open.parent, Outside}
  BY <1>0 DEF OpenedWhole, GetProcessParentPID, FilterInv, OpenInv
<1>2. CASE AreSameFamily(nodes, parent, open.source)
  <2>1. UNCHANGED vars /\ open' = NoOpen
        /\ handles' = IF open.creation THEN handles \cup {<<open.source, open.target>>} ELSE handles
    BY <1>0, <1>2 DEF OpenedWhole
  <2>2. parent = open.parent
    BY <1>1, <1>2, OutsiderIsNoFamily
  <2>3. \A h \in handles' : Justified(h[1], h[2])
    BY <1>1, <1>2, <2>1, <2>2, ParentJustifies DEF FilterInv, HandlesInv
  <2>4. HandlesInv'
    BY <2>1, <2>3 DEF HandlesInv, Justified, Fixed, Together, vars
  <2>5. handles' \subseteq Pids \X Pids
    BY <1>1, <2>1 DEF FilterInv, FilterTypeOK
  <2>. QED
    BY <2>1, <2>4, <2>5, OpenedHolds
<1>3. CASE ~AreSameFamily(nodes, parent, open.source)
  <2>1. /\ UNCHANGED vars /\ handles' = handles
        /\ open' = [open EXCEPT !.pc = "stripped", !.parent = parent]
    BY <1>0, <1>3
  <2>2. open.source # parent /\ open.source # open.target
    BY <1>1, <1>3 DEF AreSameFamily, FilterInv, OwnInv
  <2>3. open \in [ pc : {"idle", "source", "target", "parent", "stripped"},
                   source : Pids \cup {NoPid}, target : Pids \cup {NoPid},
                   parent : Pids \cup {Outside}, creation : BOOLEAN ]
    BY DEF FilterInv, FilterTypeOK
  <2>4. /\ open'.pc = "stripped" /\ open'.source = open.source /\ open'.target = open.target
        /\ open'.parent = parent /\ open'.creation = open.creation
        /\ open' \in [ pc : {"idle", "source", "target", "parent", "stripped"},
                        source : Pids \cup {NoPid}, target : Pids \cup {NoPid},
                        parent : Pids \cup {Outside}, creation : BOOLEAN ]
    BY <1>1, <2>1, <2>3
  <2>5. OwnInv'
    BY <2>2, <2>4 DEF OwnInv
  <2>6. OpenInv'
    BY <1>1, <2>1, <2>4 DEF FilterInv, OpenInv, vars
  <2>7. handles' \subseteq Pids \X Pids
    BY <2>1 DEF FilterInv, FilterTypeOK
  <2>. QED
    BY <2>1, <2>4, <2>5, <2>6, <2>7, SameHandles, FilterAlone
<1>. QED
  BY <1>2, <1>3

LEMMA FilterInvHolds ==
  ASSUME FilterInv, [FilterNext]_handleVars
  PROVE  FilterInv'
<1>0. [HoldingNext]_vars /\ TypeOK
  BY FilterIsHolding DEF FilterInv, HoldInv, TypeInv
<1>1. ASSUME NEW p \in Pids, Created(p), CreationStep(p), CreationGoesOn PROVE FilterInv'
  BY <1>1, CallbackHolds
<1>2. ASSUME UNCHANGED filterVars,
             \/ \E p \in Pids : ExitStep(p) \/ Alerted(p) \/ BeginExit(p) \/ Reap(p)
             \/ \E c \in Clients : ClientStep(c)
             \/ \E c \in Clients, p \in Pids :
                  \/ RequestTerminate(c, p)
                  \/ \E f \in Files \cup {NoFile}, noresp \in Levels : RequestWatch(c, p, f, noresp)
      PROVE  FilterInv'
  BY <1>0, <1>2, OthersLetCreationsStand, BesideHolds DEF filterVars
<1>3. ASSUME NEW p \in Pids, ReapUnreferenced(p) PROVE FilterInv'
  BY <1>2, <1>3 DEF ReapUnreferenced
<1>4. ASSUME NEW p \in Pids, End(p) PROVE FilterInv'
  <2>1. CreationsStand
    BY <1>0, <1>4, OthersLetCreationsStand DEF End
  <2>2. open' = open /\ handles' \subseteq handles
    BY <1>4 DEF End, Forget
  <2>. QED
    BY <1>0, <2>1, <2>2, BesideHolds
<1>5. ASSUME NEW p \in Pids, NEW parent \in Pids \cup {Outside}, NEW creator \in Pids \cup {Outside},
             ~Suspended(creator), CreateAndOpen(p, parent, creator)
      PROVE  FilterInv'
  BY <1>5, CreateAndOpenHolds
<1>6. ASSUME NEW source \in Pids, NEW target \in Pids, OpenProcess(source, target) PROVE FilterInv'
  BY <1>6, OpenProcessHolds
<1>7. ASSUME FilterStep PROVE FilterInv'
  <2>1. CASE OpenedStripped
    BY <2>1, OpenedHolds, SameHandles DEF OpenedStripped, FilterInv, FilterTypeOK
  <2>. QED
    BY <1>7, <2>1, CheckSourceHolds, CheckTargetHolds, CheckParentPIDHolds DEF FilterStep
<1>8. CASE UNCHANGED handleVars
  <2>1. UNCHANGED vars /\ open' = open /\ handles' = handles
    BY <1>8 DEF handleVars, filterVars
  <2>2. CreationsStand
    BY <2>1 DEF CreationsStand, vars
  <2>. QED
    BY <1>0, <2>1, <2>2, BesideHolds
<1>. QED
  BY <1>1, <1>2, <1>3, <1>4, <1>5, <1>6, <1>7, <1>8 DEF FilterNext

LEMMA FilterInvIsInvariant == FilterSpec => []FilterInv
<1>1. FilterInv /\ [FilterNext]_handleVars => FilterInv'
  BY FilterInvHolds
<1>. QED
  BY <1>1, FilterInitHolds, PTL DEF FilterSpec

-----------------------------------------------------------------------------
(* The handle filter: the theorems                                         *)

\* The variables of OnPreOpenProcess and of what runs beside it hold what
\* the code can put there.
THEOREM FilterTyped == FilterSpec => []FilterTypeOK
<1>1. FilterInv => FilterTypeOK
  BY DEF FilterInv
<1>. QED
  BY <1>1, FilterInvIsInvariant, PTL

\* OnPreOpenProcess takes no rights from a watched process on itself or on a
\* process that records it as its parent.
THEOREM OwnHandlesAreWhole == FilterSpec => []OwnNotStripped
<1>1. FilterInv => OwnNotStripped
  BY DEF FilterInv, OwnInv, OwnNotStripped
<1>. QED
  BY <1>1, FilterInvIsInvariant, PTL

\* AddProcess puts the new process beside the parent, ends it, or finds no
\* tree of the parent: no tree can hold the new process yet.
LEMMA AddedToFamily ==
  ASSUME FilterInv, NEW p \in Pids, NEW parentPid \in Pids, NEW s, AddUnder(p, parentPid, s),
         proc[p] \in Creating, parentPid # p
  PROVE  \/ SameTree(nodes', p, parentPid)
         \/ p \in doomed'
         \/ nodes' = nodes /\ ~ContainsProcess(nodes, parentPid) /\ proc'[p] = s
<1>1. nodes \in Seq(ProcessNode) /\ proc \in [Pids -> ProcState] /\ parentPid # NoPid
      /\ ~ContainsProcess(nodes, p)
  BY SentinelAssumption DEF FilterInv, HoldInv, TypeInv, TypeOK, Unwatched, Settled
<1>. DEFINE status == AddProcessStatus(nodes, p, parentPid)
<1>2. /\ nodes' = AddProcess(nodes, p, parentPid)
      /\ status = "ADD_LIMIT_EXHAUSTED" => p \in doomed'
      /\ status \notin {"ADD_OK", "ADD_ALREADY_EXIST"} => proc'[p] = s
  BY <1>1 DEF AddUnder, CreationGoesTo
<1>3. /\ status \in {"ADD_OK", "ADD_ALREADY_EXIST", "ADD_LIMIT_EXHAUSTED", "ADD_NO_PARENT"}
      /\ status # "ADD_OK" => nodes' = nodes
      /\ status \in {"ADD_OK", "ADD_ALREADY_EXIST"} => ContainsProcess(nodes', p)
      /\ status = "ADD_NO_PARENT" => ~ContainsProcess(nodes, parentPid)
  BY <1>1, <1>2, AddProcessAnswers
<1>4. status = "ADD_OK" => SameTree(nodes', p, parentPid)
  BY <1>1, <1>2, AddProcessKeepsTrees
<1>. QED
  BY <1>1, <1>2, <1>3, <1>4

\* One tree with the parent is one tree with the creator.
LEMMA ParentBringsCreator ==
  ASSUME FilterInv, [HoldingNext]_vars, NEW p \in Pids, NEW creator \in Pids, NEW parent \in Pids,
         Fixed(creator), Fixed(parent), Together(creator, parent),
         SameTree(nodes', p, parent), ContainsProcess(nodes', creator)
  PROVE  SameTree(nodes', p, creator)
<1>1. nodes' \in Seq(ProcessNode) /\ Disjoint(nodes')
  BY RestHolds DEF HoldInv, TypeOK
<1>2. ContainsProcess(nodes', parent)
  BY <1>1, TreesHoldPids
<1>3. SameTree(nodes', creator, parent)
  <2>1. SameTree(nodes, creator, parent)
    BY <1>2, HeldBefore DEF FilterInv, Together
  <2>. QED
    BY <1>2, <2>1, StepListMoves DEF FilterInv, ListMoves
<1>4. PICK i \in DOMAIN nodes' : {p, parent} \subseteq nodes'[i].processList
  BY DEF SameTree
<1>5. PICK j \in DOMAIN nodes' : {creator, parent} \subseteq nodes'[j].processList
  BY <1>3 DEF SameTree
<1>6. i = j
  BY <1>1, <1>4, <1>5 DEF Disjoint
<1>. QED
  BY <1>4, <1>5, <1>6 DEF SameTree

LEMMA CallbackMakesFamily ==
  ASSUME FilterInv, NEW h \in handles, CreationStep(h[2]), proc'[h[2]] = "running",
         ContainsProcess(nodes', h[1])
  PROVE  AreSameFamily(nodes', h[2], h[1]) \/ h[2] \in doomed'
<1>1. Justified(h[1], h[2]) /\ h \in Pids \X Pids
  BY DEF FilterInv, FilterTypeOK, HandlesInv
<1>2. PICK creator \in Pids, p \in Pids : creator = h[1] /\ p = h[2]
  BY <1>1
<1>3. PICK parent \in Pids : parent = origin[p].parent
  BY <1>1, <1>2 DEF Justified
<1>4. /\ proc[p] \in Creating /\ origin[p].creator = creator
      /\ Fixed(creator) /\ Fixed(parent) /\ Together(creator, parent)
  BY <1>1, <1>2, <1>3 DEF Justified
<1>5. creator # p /\ parent # p
  BY <1>4 DEF Fixed, Creating, Exiting
<1>6. [HoldingNext]_vars
  BY <1>2 DEF HoldingNext, Internal
<1>7. nodes' \in Seq(ProcessNode) /\ Disjoint(nodes') /\ proc \in [Pids -> ProcState]
  BY <1>6, RestHolds DEF HoldInv, TypeOK, FilterInv, TypeInv
<1>8. SUFFICES SameTree(nodes', p, creator) \/ p \in doomed'
  BY <1>2, <1>7, FamilyIsSameTree
<1>9. CASE CheckParent(p) \/ CheckCreator(p)
  <2>1. nodes' = nodes /\ ~ContainsProcess(nodes, creator)
    BY <1>2, <1>3, <1>4, <1>7, <1>9 DEF CheckParent, CheckCreator, CreationGoesTo, AfterParent
  <2>. QED
    BY <1>2, <2>1
<1>10. CASE AddToParent(p)
  <2>1. AddUnder(p, parent, AfterParent(p))
    BY <1>3, <1>10 DEF AddToParent
  <2>2. CASE SameTree(nodes', p, parent)
    BY <1>2, <1>4, <1>6, <2>2, ParentBringsCreator
  <2>3. ASSUME nodes' = nodes, ~ContainsProcess(nodes, parent), proc'[p] = AfterParent(p)
        PROVE  FALSE
    <3>1. parent = creator
      BY <1>2, <1>3, <1>4, <2>3 DEF AfterParent
    <3>. QED
      BY <1>2, <2>3, <3>1
  <2>. QED
    BY <1>4, <1>5, <2>1, <2>2, <2>3, AddedToFamily
<1>11. CASE AddToCreator(p)
  <2>1. AddUnder(p, creator, "running")
    BY <1>4, <1>11 DEF AddToCreator
  <2>. QED
    BY <1>2, <1>4, <1>5, <2>1, AddedToFamily
<1>. QED
  BY <1>2, <1>9, <1>10, <1>11 DEF CreationStep

\* Only its own callback ends a creation.
LEMMA CreationEndsByCallback ==
  ASSUME FilterInv, [FilterNext]_handleVars, NEW p \in Pids, proc[p] \in Creating,
         proc'[p] = "running"
  PROVE  CreationStep(p)
<1>1. ~CreationsStand
  BY DEF CreationsStand, Creating
<1>2. proc \in [Pids -> ProcState] /\ TypeOK
  BY DEF FilterInv, HoldInv, TypeInv, TypeOK
<1>3. ~UNCHANGED vars
  BY DEF vars, Creating
<1>4. ASSUME NEW q \in Pids, CreationStep(q), q # p PROVE FALSE
  <2>1. proc'[p] = proc[p]
    BY <1>2, <1>4 DEF CreationStep, CheckParent, CheckCreator, AddToParent, AddToCreator, AddUnder,
                      CreationGoesTo
  <2>. QED
    BY <2>1 DEF Creating
<1>5. \/ \E q \in Pids : CreationStep(q)
      \/ \E q \in Pids : ExitStep(q) \/ Alerted(q) \/ BeginExit(q) \/ Reap(q)
      \/ \E c \in Clients : ClientStep(c)
      \/ \E c \in Clients, q \in Pids :
           \/ RequestTerminate(c, q)
           \/ \E f \in Files \cup {NoFile}, noresp \in Levels : RequestWatch(c, q, f, noresp)
      \/ \E q \in Pids, parent, creator \in Pids \cup {Outside} : CreateProcess(q, parent, creator)
      \/ UNCHANGED vars
  BY DEF FilterNext, CreateAndOpen, End, ReapUnreferenced, OpenProcess, FilterStep, CheckSource,
         CheckTarget, CheckParentPID, OpenedStripped, GoesOn, OpenedWhole, handleVars
<1>. QED
  BY <1>1, <1>2, <1>3, <1>4, <1>5, OthersLetCreationsStand

\* The handle filter and the process-notify callback agree: a process to
\* which its watched creator got a whole handle ends up on the creator's
\* tree, or is terminated, if the creator is still on the list.
THEOREM WholeHandlesAreToFamily == FilterSpec => WholeHandleToFamily
<1>1. ASSUME FilterInv, [FilterNext]_handleVars, NEW h \in handles,
             proc[h[2]] \in Creating, proc'[h[2]] = "running", ContainsProcess(nodes', h[1])
      PROVE  AreSameFamily(nodes', h[2], h[1]) \/ h[2] \in doomed'
  <2>1. h[2] \in Pids
    BY <1>1 DEF FilterInv, FilterTypeOK
  <2>. QED
    BY <1>1, <2>1, CreationEndsByCallback, CallbackMakesFamily
<1>2. FilterInv /\ [FilterNext]_handleVars =>
        [ \A h \in handles :
            /\ proc[h[2]] \in Creating /\ proc'[h[2]] = "running"
            /\ ContainsProcess(nodes', h[1])
            => AreSameFamily(nodes', h[2], h[1]) \/ h[2] \in doomed' ]_handleVars
  BY <1>1
<1>. QED
  BY <1>2, FilterInvIsInvariant, PTL DEF FilterSpec, WholeHandleToFamily

\* The same of its children: none of a watched creator runs unwatched.
THEOREM FilterTracksChildren == FilterSpec => CreatorTracksChild
<1>1. FilterInv /\ [FilterNext]_handleVars =>
        [ \A p \in Pids :
            /\ proc[p] \in Creating /\ proc'[p] = "running"
            /\ ContainsProcess(nodes', origin[p].creator)
            => ContainsProcess(nodes', p) \/ p \in doomed' ]_vars
  BY FilterIsHolding, HoldingIsNext, StepTracksChild DEF FilterInv, HoldInv
<1>. QED
  BY <1>1, FilterInvIsInvariant, PTL DEF FilterSpec, CreatorTracksChild
=============================================================================
