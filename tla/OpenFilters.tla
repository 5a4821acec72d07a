----------------------------- MODULE OpenFilters -----------------------------
(***************************************************************************)
(* OnPreOpenProcess, which takes the rights to write and to create threads *)
(* away from the handles that a watched process opens, beside the          *)
(* callbacks and requests of ProcessWatch.  It takes the mutex of the list *)
(* up to three times for one handle.                                       *)
(*                                                                         *)
(* The creator of a process gets its handle from the kernel before the     *)
(* notify routine is called, so that the filter decides on a process that  *)
(* is on no tree yet; the creation waits for the handle.                   *)
(***************************************************************************)
EXTENDS ProcessWatch

CONSTANT MaxBusy  \* bound: creations, exits, other opens and requests in progress

ASSUME BusyAssumption == MaxBusy \in Nat \ {0}

VARIABLES
  open,    \* the handle that is being opened
  handles  \* whole handles of watched processes to those they are creating

filterVars == <<open, handles>>
handleVars == <<vars, filterVars>>

NoOpen == [pc |-> "idle", source |-> NoPid, target |-> NoPid, parent |-> Outside, creation |-> FALSE]

FilterInit ==
  /\ Init
  /\ open = NoOpen
  /\ handles = {}

-----------------------------------------------------------------------------
(* The list                                                                *)

\* Fault: a process is not told to be of its own family.
AreSameFamilyOnList(ns, pid1, pid2) ==
  /\ ContainsProcess(ns, pid1)
  /\ pid2 \in ns[First(Holding(ns, pid1))].processList

\* Equal identifiers are family, also when they are on no tree.
AreSameFamily(ns, pid1, pid2) ==
  \/ pid1 = pid2
  \/ /\ ContainsProcess(ns, pid1)
     /\ pid2 \in ns[First(Holding(ns, pid1))].processList

-----------------------------------------------------------------------------
(* The kernel                                                              *)

\* A handle goes with the process that has it or with its target.
Forget(p) == handles' = {h \in handles : p \notin {h[1], h[2]}}

\* An exit that waits for its root to be released does not count.
Busy == Cardinality({q \in Pids : proc[q] \in (Creating \cup Exiting) \ {"exitWait"}})
          + Cardinality({c \in Clients : client[c] # Idle})
          + (IF open # NoOpen /\ ~open.creation THEN 1 ELSE 0)

CreateAndOpen(p, parent, creator) ==
  /\ Busy < MaxBusy
  /\ CreateProcess(p, parent, creator)
  /\ IF creator = Outside THEN UNCHANGED open
     ELSE /\ open = NoOpen
          /\ open' = [pc |-> "source", source |-> creator, target |-> p,
                      parent |-> parent, creation |-> TRUE]
  /\ UNCHANGED handles

\* A running process opens one that records it as its parent, as any other
\* may: the creator chooses the parent.  With any other target the filter
\* takes the same steps, and no property is about it.
OpenProcess(source, target) ==
  /\ open = NoOpen /\ Busy < MaxBusy
  /\ proc[source] = "running" /\ proc[target] # "none"
  /\ open' = [pc |-> "source", source |-> source, target |-> target,
              parent |-> source, creation |-> FALSE]
  /\ UNCHANGED <<vars, handles>>

\* The creator's handle is of no further interest when the creation ends.
CreationGoesOn ==
  /\ handles' = {h \in handles : proc'[h[2]] \in Creating}
  /\ UNCHANGED open

Referenced(p) == p \in {open.source, open.target}

End(p) ==
  /\ p # open.source /\ Busy < MaxBusy
  /\ BeginExit(p)
  /\ Forget(p)
  /\ UNCHANGED open

ReapUnreferenced(p) ==
  /\ ~Referenced(p)
  /\ Reap(p)
  /\ UNCHANGED filterVars

-----------------------------------------------------------------------------
(* OnPreOpenProcess                                                        *)

GoesOn(pc, s) ==
  /\ open.pc = pc
  /\ open' = [open EXCEPT !.pc = s]
  /\ UNCHANGED <<vars, handles>>

\* The handle is there, with all the access that was asked for.
OpenedWhole(pc, watched) ==
  /\ open.pc = pc
  /\ open' = NoOpen
  /\ handles' = IF watched /\ open.creation
                THEN handles \cup {<<open.source, open.target>>} ELSE handles
  /\ UNCHANGED vars

\* Only what a watched process opens is looked at.
CheckSource ==
  IF ContainsProcess(nodes, open.source) THEN GoesOn("source", "target")
                                         ELSE OpenedWhole("source", FALSE)

CheckTarget ==
  IF AreSameFamily(nodes, open.target, open.source) THEN OpenedWhole("target", TRUE)
                                                    ELSE GoesOn("target", "parent")

\* Fault: the PID of the parent takes the place of the target's.
CheckParentPIDInPlace ==
  /\ open.pc = "parent"
  /\ open' = [open EXCEPT !.pc = "stripped", !.target = open.parent]
  /\ UNCHANGED <<vars, handles>>

\* What ProcessUtil::GetProcessParentPID may return: 0, which is nobody's PID,
\* when the target cannot be opened or queried.
GetProcessParentPID == {open.parent, Outside}

CheckParentPID ==
  \E parent \in GetProcessParentPID :
    IF AreSameFamily(nodes, parent, open.source)
    THEN OpenedWhole("parent", TRUE)
    ELSE /\ open.pc = "parent"
         /\ open' = [open EXCEPT !.pc = "stripped", !.parent = parent]
         /\ UNCHANGED <<vars, handles>>

\* The handle is there, without the rights.
OpenedStripped ==
  /\ open.pc = "stripped"
  /\ open' = NoOpen
  /\ UNCHANGED <<vars, handles>>

FilterStep == CheckSource \/ CheckTarget \/ CheckParentPID \/ OpenedStripped

-----------------------------------------------------------------------------
\* The notify routine is called when the creator's handle is there.
Created(p) == ~(open.creation /\ open.target = p)

FilterNext ==
  \/ \E p \in Pids : Created(p) /\ CreationStep(p) /\ CreationGoesOn
  \/ /\ \/ \E p \in Pids : ExitStep(p) \/ Alerted(p)
        \/ \E c \in Clients : ClientStep(c)
        \/ Busy < MaxBusy /\ \E c \in Clients, p \in Pids :
              \/ ~Suspended(p) /\ RequestTerminate(c, p)
              \/ /\ proc[p] = "running" /\ ~CreatesProcess(p) /\ open.source # p
                 /\ p \notin doomed /\ ~InUse(p)
                 /\ \E f \in Files \cup {NoFile}, noresp \in Levels : RequestWatch(c, p, f, noresp)
     /\ UNCHANGED filterVars
  \/ \E p \in Pids, parent, creator \in Pids \cup {Outside} :
        ~Suspended(creator) /\ CreateAndOpen(p, parent, creator)
  \/ \E p \in Pids : ~Suspended(p) /\ End(p)
  \/ \E p \in Pids : ~InUse(p) /\ ReapUnreferenced(p)
  \/ \E source, target \in Pids :
        /\ ~Suspended(source) /\ ~CreatesProcess(source)
        /\ OpenProcess(source, target)
  \/ FilterStep

FilterSpec == FilterInit /\ [][FilterNext]_handleVars

-----------------------------------------------------------------------------
FilterTypeOK ==
  /\ TypeOK
  /\ open \in [ pc : {"idle", "source", "target", "parent", "stripped"},
                source : Pids \cup {NoPid}, target : Pids \cup {NoPid},
                parent : Pids \cup {Outside}, creation : BOOLEAN ]
  /\ handles \subseteq Pids \X Pids

\* A watched process keeps every right to itself, and to its own children when
\* their parent can be told, whatever leaves the list between the three tests.
OwnNotStripped ==
  open.pc = "stripped" => open.source \notin {open.target, open.parent}

\* The filter and the notify routine agree, although the one looks at the
\* parent before the other has put the child on a tree: if a watched process
\* has got a whole handle to a process by creating it, then at the end of the
\* creation the two are on one tree, or the new one is being terminated,
\* or the creator has left the list.
WholeHandleToFamily ==
  [][ \A h \in handles :
        /\ proc[h[2]] \in Creating /\ proc'[h[2]] = "running"
        /\ ContainsProcess(nodes', h[1])
        => AreSameFamily(nodes', h[2], h[1]) \/ h[2] \in doomed' ]_handleVars
=============================================================================
