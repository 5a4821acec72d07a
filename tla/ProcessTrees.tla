---------------------------- MODULE ProcessTrees ----------------------------
(***************************************************************************)
(* What the watch list promises to the callbacks that use it: a set of     *)
(* trees, each a root, the processes and the files that came from it, and  *)
(* a level of respawn protection.  There are no slots, no order and no     *)
(* capacity here; any operation may be refused.                            *)
(*                                                                         *)
(* WatchList, with its array of nodes, its first-match loops and its       *)
(* swap-with-last deletion, implements this specification.                 *)
(***************************************************************************)
EXTENDS ProcessNodes

VARIABLE trees

Init == trees = {}

OnNoTree(pid) == \A t \in trees : pid \notin t.processList

NoTreeOwns(fileId) == \A t \in trees : fileId \notin t.filesList

\* The files of a tree that must not be opened for execution any more once
\* its processes have ended.
ProtectedFiles(t) ==
  CASE t.respawnProtect = "NORESP_NO_RESTRICTION" -> {}
    [] t.respawnProtect = "NORESP_DROPPED_FILES"  -> t.filesList \ {t.imgFile}
    [] t.respawnProtect = "NORESP_ALL_FILES"      -> t.filesList

Finished(t) == t.processList = {} /\ ProtectedFiles(t) = {}

\* A tree that has nothing left to watch is gone.
Kept(t) == IF Finished(t) THEN {} ELSE {t}

Becomes(t, u) == trees' = (trees \ {t}) \cup Kept(u)

Register(pid, imgFile, noresp) ==
  /\ OnNoTree(pid)
  /\ trees' = trees \cup {[ rootPid |-> pid, imgFile |-> imgFile, processList |-> {pid},
                            filesList |-> {}, respawnProtect |-> noresp ]}

\* A tree whose root has ended takes no process, but for one with its PID.
Spawn(pid, t) ==
  /\ OnNoTree(pid)
  /\ t.rootPid \in t.processList \cup {pid}
  /\ Becomes(t, [t EXCEPT !.processList = @ \cup {pid}])

Exit(pid, t) ==
  /\ pid \in t.processList
  /\ Becomes(t, [t EXCEPT !.processList = @ \ {pid}])

Take(fileId, t) ==
  /\ NoTreeOwns(fileId)
  /\ t.rootPid \in t.processList
  /\ Becomes(t, [t EXCEPT !.filesList = @ \cup {fileId}])

Release(fileId, t) ==
  /\ fileId \in t.filesList
  /\ Becomes(t, [t EXCEPT !.filesList = @ \ {fileId}])

\* A living tree takes a file over from one that has no process left.
TakeOver(fileId, dead, t) ==
  /\ fileId \in dead.filesList
  /\ dead.processList = {}
  /\ t.rootPid \in t.processList
  /\ trees' = (trees \ {dead, t})
                \cup Kept([dead EXCEPT !.filesList = @ \ {fileId}])
                \cup {[t EXCEPT !.filesList = @ \cup {fileId}]}

\* The driver is unloaded, and nothing is watched any more.
Unwatch == trees' = {}

Next ==
  \/ Unwatch
  \/ \E pid \in Pids, imgFile \in Files \cup {NoFile}, noresp \in t_noresp :
        Register(pid, imgFile, noresp)
  \/ \E t \in trees :
        \/ \E pid \in Pids : Spawn(pid, t) \/ Exit(pid, t)
        \/ \E fileId \in Files :
              \/ Take(fileId, t)
              \/ Release(fileId, t)
              \/ \E dead \in trees : TakeOver(fileId, dead, t)

Spec == Init /\ [][Next]_trees
=============================================================================
