--------------------------- MODULE DriverLifecycle ---------------------------
(***************************************************************************)
(* DriverEntry and MyDriverUnload around the callbacks and requests of     *)
(* ProcessWatch: the driver is loaded, fails to load half-way, is unloaded *)
(* while callbacks run, and is loaded again.  Processes that are created   *)
(* or end while the notify routine is not registered are not seen.         *)
(*                                                                         *)
(* External: the I/O manager lets nobody open the device before            *)
(* DriverEntry has returned, and calls DriverUnload when no handle to it   *)
(* is open; removing the notify routine waits for its calls in progress.   *)
(***************************************************************************)
EXTENDS ProcessWatch

VARIABLES
  driver,      \* what the thread that loads or unloads the driver is at
  registered,  \* what the system has registered for the driver
  g_Settings   \* what the driver remembers to have registered

driverVars == <<driver, registered, g_Settings>>
allVars    == <<vars, driverVars>>

\* "filtering" starts what "filter" has registered and leaves nothing to undo.
EntrySteps == <<"filter", "filtering", "processes", "registry", "device", "link", "notify">>

Registrations == {EntrySteps[i] : i \in DOMAIN EntrySteps} \ {"filtering"}

\* Fault: the list is destroyed when the notify routine is gone already.
UnloadStepsNotifyFirst ==
  <<"notify", "list", "processes", "registry", "filter", "link", "device">>

UnloadSteps == <<"list", "notify", "processes", "registry", "filter", "link", "device">>

Unloaded == [at |-> "unloaded", step |-> 1]
Loaded   == [at |-> "loaded", step |-> 1]

DriverInit ==
  /\ Init
  /\ driver = Unloaded
  /\ registered = {} /\ g_Settings = {}

InCallback(p) == proc[p] \in Creating \cup Exiting

-----------------------------------------------------------------------------
(* DriverEntry                                                             *)

\* g_Settings.init and Data::AllocGlobals
BeginEntry ==
  /\ driver = Unloaded
  /\ driver' = [at |-> "entry", step |-> 1]
  /\ g_Settings' = {}
  /\ nodes' = << >>
  /\ deletionEvent' = FALSE
  /\ UNCHANGED <<proc, origin, doomed, client, registered>>

EntryStepSucceeds ==
  LET s == EntrySteps[driver.step]
  IN  /\ driver.at = "entry"
      /\ registered' = registered \cup ({s} \cap Registrations)
      /\ g_Settings' = g_Settings \cup ({s} \cap Registrations)
      /\ driver' = IF driver.step = Len(EntrySteps) THEN Loaded
                   ELSE [driver EXCEPT !.step = @ + 1]
      /\ UNCHANGED vars

\* Fault: what did not fail is left as it is.
EntryStepFailsOnly ==
  /\ driver.at = "entry"
  /\ driver' = Unloaded
  /\ UNCHANGED <<vars, registered, g_Settings>>

\* Each failure is answered with a call of MyDriverUnload.
EntryStepFails ==
  /\ driver.at = "entry"
  /\ driver' = [at |-> "unload", step |-> 1]
  /\ UNCHANGED <<vars, registered, g_Settings>>

-----------------------------------------------------------------------------
(* MyFilterUnload and MyDriverUnload                                       *)

\* Fault: the handle is not forgotten.
FilterUnloadKeepingHandle ==
  /\ driver = Loaded /\ "filter" \in registered
  /\ registered' = registered \ {"filter"}
  /\ UNCHANGED <<vars, driver, g_Settings>>

\* The filter manager is asked to unload the filter.
MyFilterUnload ==
  /\ driver = Loaded /\ "filter" \in registered
  /\ registered' = registered \ {"filter"}
  /\ g_Settings' = g_Settings \ {"filter"}
  /\ UNCHANGED <<vars, driver>>

BeginUnload ==
  /\ driver = Loaded
  /\ \A c \in Clients : client[c] = Idle
  /\ driver' = [at |-> "unload", step |-> 1]
  /\ UNCHANGED <<vars, registered, g_Settings>>

\* MyDriverUnload is about to undo s.
Undoing(s) == driver.at = "unload" /\ UnloadSteps[driver.step] = s

\* Fault: the unload goes on behind what it has to undo.
UndoneNextAndOn == driver' = [at |-> "unload", step |-> driver.step + 1]

UndoneNext ==
  driver' = IF driver.step = Len(UnloadSteps) THEN Unloaded
            ELSE [at |-> "unload", step |-> driver.step + 1]

\* Fault: whoever waits is not told.
FreeGlobalsSilently ==
  /\ Undoing("list")
  /\ nodes' = << >>
  /\ UndoneNext
  /\ UNCHANGED <<deletionEvent, proc, origin, doomed, client, registered, g_Settings>>

\* ProcessNodesList::destroy sets the event, which ends every wait.
FreeGlobals ==
  /\ Undoing("list")
  /\ nodes' = << >>
  /\ deletionEvent' = TRUE
  /\ proc' = [p \in Pids |-> IF proc[p] = "exitWait" THEN "exitCheck" ELSE proc[p]]
  /\ UndoneNext
  /\ UNCHANGED <<origin, doomed, client, registered, g_Settings>>

\* What g_Settings does not remember is skipped.
Skip(s) ==
  /\ Undoing(s) /\ s # "list"
  /\ s \notin g_Settings
  /\ UndoneNext
  /\ UNCHANGED <<vars, registered, g_Settings>>

Unregister(s) ==
  /\ Undoing(s)
  /\ s \in g_Settings \ {"notify"}
  /\ registered' = registered \ {s}
  /\ g_Settings' = g_Settings \ {s}
  /\ UndoneNext
  /\ UNCHANGED vars

\* PsSetCreateProcessNotifyRoutineEx(.., TRUE): no more calls, ...
RemoveNotify ==
  /\ Undoing("notify") /\ "notify" \in g_Settings
  /\ registered' = registered \ {"notify"}
  /\ driver' = [driver EXCEPT !.at = "drain"]
  /\ UNCHANGED <<vars, g_Settings>>

\* ... and back when those in progress are over.
NotifyRemoved ==
  /\ driver.at = "drain"
  /\ \A p \in Pids : ~InCallback(p)
  /\ g_Settings' = g_Settings \ {"notify"}
  /\ UndoneNext
  /\ UNCHANGED <<vars, registered>>

DriverStep ==
  \/ EntryStepSucceeds \/ EntryStepFails
  \/ FreeGlobals \/ RemoveNotify \/ NotifyRemoved
  \/ \E s \in Registrations : Unregister(s) \/ Skip(s)

-----------------------------------------------------------------------------
(* Processes and requests, as the state of the driver lets them            *)

Notified == "notify" \in registered

UnseenCreation(p) ==
  /\ ~Notified /\ proc[p] = "none"
  /\ proc' = [proc EXCEPT ![p] = "running"]
  /\ UNCHANGED <<nodes, deletionEvent, origin, doomed, client, driverVars>>

UnseenExit(p) ==
  /\ ~Notified /\ proc[p] = "running" /\ ~CreatesProcess(p)
  /\ proc' = [proc EXCEPT ![p] = "zombie"]
  /\ UNCHANGED <<nodes, deletionEvent, origin, doomed, client, driverVars>>

\* The steps of ProcessWatch, requests as in HoldingNext; the minifilter's
\* are left to FileWatch.
Watching ==
  /\ \/ \E p \in Pids : CreationStep(p) \/ ExitStep(p) \/ Alerted(p)
     \/ \E c \in Clients : ClientStep(c)
     \/ \E p \in Pids, parent, creator \in Pids \cup {Outside} :
          Notified /\ ~Suspended(creator) /\ CreateProcess(p, parent, creator)
     \/ \E p \in Pids : Notified /\ ~Suspended(p) /\ BeginExit(p)
     \/ \E p \in Pids : ~InUse(p) /\ Reap(p)
     \/ driver = Loaded /\ \E c \in Clients, p \in Pids :
          \/ ~Suspended(p) /\ RequestTerminate(c, p)
          \/ /\ proc[p] = "running" /\ ~CreatesProcess(p)
             /\ p \notin doomed /\ ~InUse(p)
             /\ \E f \in Files \cup {NoFile}, noresp \in Levels : RequestWatch(c, p, f, noresp)
  /\ UNCHANGED driverVars

DriverNext ==
  \/ Watching
  \/ \E p \in Pids : UnseenCreation(p) \/ UnseenExit(p)
  \/ BeginEntry \/ MyFilterUnload \/ BeginUnload
  \/ DriverStep

DriverSpec == DriverInit /\ [][DriverNext]_allVars

(* As in ProcessWatch; and the thread that loads or unloads the driver     *)
(* goes on.  Nobody has to load or to unload it.                           *)
DriverFairness ==
  /\ \A p \in Pids :
       /\ WF_allVars(CreationStep(p) /\ UNCHANGED driverVars)
       /\ WF_allVars(ExitStep(p) /\ UNCHANGED driverVars)
       /\ SF_allVars(/\ p \in doomed /\ ~Suspended(p)
                     /\ (Notified /\ BeginExit(p) /\ UNCHANGED driverVars) \/ UnseenExit(p))
  /\ \A c \in Clients : WF_allVars(ClientStep(c) /\ UNCHANGED driverVars)
  /\ WF_allVars(DriverStep)

FairDriverSpec == DriverSpec /\ DriverFairness

-----------------------------------------------------------------------------
\* The variables of ProcessWatch hold what they hold there; the driver's
\* thread is at a step of DriverEntry or of MyDriverUnload, or at none.
DriverTypeOK ==
  /\ TypeOK
  /\ driver \in {Unloaded, Loaded}
       \cup [at : {"entry"}, step : DOMAIN EntrySteps]
       \cup [at : {"unload", "drain"}, step : DOMAIN UnloadSteps]
  /\ registered \subseteq Registrations
  /\ g_Settings \subseteq Registrations

\* A driver that is not loaded has left nothing that could call into it:
\* no registration, no callback or request in progress, however far
\* DriverEntry had got and whatever ran when it was unloaded.
NothingLeftBehind ==
  driver = Unloaded =>
    /\ registered = {}
    /\ \A p \in Pids : ~InCallback(p)
    /\ \A c \in Clients : client[c] = Idle

\* MyDriverUnload undoes what is registered, never what has been undone
\* already, although two routines unregister the filter.
UndoesOnce ==
  \A s \in Registrations : Undoing(s) /\ s \in g_Settings => s \in registered

\* Whatever is on the list while nobody reports the ends of processes could
\* stay there: the list is empty before the notify routine is removed, and
\* no request or callback fills it again.
WatchedWhileNotified == ~Notified => nodes = << >>

\* An unload comes to its end, although it waits for exit callbacks in which
\* roots are held: destroying the list lets them go.  Excepted is an unload
\* during which an exit callback resets the event, which may erase the signal
\* (see ReleasedRootExits); the unload then waits as long as the callback.
UnloadEnds ==
  driver = [at |-> "unload", step |-> 1] ~>
    driver = Unloaded \/ \E p \in Pids : proc[p] = "exitReset"
=============================================================================
