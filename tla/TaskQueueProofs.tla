-------------------------- MODULE TaskQueueProofs --------------------------
(***************************************************************************)
(* The task file under any number of requests: no task is forgotten or run *)
(* twice, and an answer "ok" keeps what it promises.                       *)
(***************************************************************************)
EXTENDS TaskQueue, TLAPS

(* Who is at a label of the lock has it.                                   *)
Holding == \A p \in Procs : pc[p] \in FlockLabels => flock = p

(* The file as its writers leave it.                                       *)
FileKept ==
  /\ file # "json" => queue = {}
  /\ file = "missing" => added = {}
  /\ \A p \in Procs : pc[p] \in WriteLabels => queue = {}

(* What a process has read, and what it has left of it.                    *)
ListsKept ==
  \A p \in Procs :
    /\ pc[p] = "add_cut" => list[p] = queue \cup {p}
    /\ pc[p] = "add_write" => list[p] \subseteq added \cup {p} /\ p \in list[p]
    /\ pc[p] = "exec_run" => /\ list[p] \subseteq queue
                             /\ queue \ list[p] \subseteq Done
    /\ pc[p] = "exec_write" => list[p] \subseteq added

(* What has been added.                                                    *)
AddedKept ==
  /\ queue \subseteq added
  /\ Done \subseteq added
  /\ \A p \in Procs :
       /\ pc[p] \in {"add_open", "add_lock", "add_cut", "add_write"}
            => op[p] # "apply" /\ p \notin added
       /\ op[p] = "umount" => \/ p \in added
                              \/ pc[p] \in {"add_open", "add_lock", "add_cut",
                                            "add_write", "dead"}
       /\ due[p] \subseteq added

(* A task that has been run and can be run again was run by a process that *)
(* died, or is just being taken from the list.                             *)
RerunKept ==
  /\ \A t \in queue : \/ ran[t] = 0
                      \/ t \in again
                      \/ \E p \in Procs : pc[p] = "exec_run" /\ t \notin list[p]
  /\ \A p \in Procs : pc[p] \in {"exec_run"} \cup WriteLabels =>
       \A t \in list[p] : ran[t] = 0 \/ t \in again

(* What a process that will answer "ok" has done.                          *)
ResultKept ==
  \A p \in Procs :
    /\ result[p] = "ok" => pc[p] = "end" /\ Kept(p)
    /\ pc[p] = "end" => result[p] # "none"
    /\ pc[p] = "exec_write" /\ result[p] # "error" => list[p] = {}
    /\ pc[p] = "deploy" => op[p] # "delete" /\ Kept(p)
    /\ pc[p] \in {"exec_mutex", "exec_exists", "exec_lock", "exec_run",
                  "exec_write"} => op[p] # "delete"

QueueInv == /\ QueueTypeOK /\ Holding /\ FileKept /\ ListsKept /\ AddedKept
            /\ RerunKept /\ ResultKept /\ NothingForgotten /\ RunOnce

-----------------------------------------------------------------------------
LEMMA QueueInitInv == QueueInit => QueueInv
<1> SUFFICES ASSUME QueueInit PROVE QueueInv
  OBVIOUS
<1>1. QueueTypeOK
  BY MixesAssumption DEF QueueInit, QueueTypeOK, Labels, Results
<1>2. Holding /\ FileKept /\ ListsKept /\ RerunKept
  BY DEF QueueInit, Holding, FileKept, ListsKept, RerunKept, FlockLabels,
         WriteLabels
<1>3. AddedKept /\ ResultKept
  BY <1>1 DEF QueueInit, QueueTypeOK, OpKinds, AddedKept, ResultKept, Kept, Done
<1>4. NothingForgotten /\ RunOnce
  BY DEF QueueInit, NothingForgotten, RunOnce
<1> QED
  BY <1>1, <1>2, <1>3, <1>4 DEF QueueInv

(* Every step of a process keeps the invariant.  The lock makes the steps  *)
(* on the file exclusive (Holding); what a process still holds in memory   *)
(* while the file is empty counts as waiting; what it has already run      *)
(* counts as done (ListsKept), or as lost or to be run again if it dies.   *)
LEMMA QueueStepInv ==
  ASSUME QueueInv, NEW p \in Procs, QueueStep(p) \/ Die(p)
  PROVE  QueueInv'
<1> USE NoneAssumption
    DEF QueueInv, QueueTypeOK, Holding, FileKept, ListsKept, AddedKept,
        RerunKept, ResultKept, NothingForgotten, RunOnce, Waiting, Done, Kept,
        FlockLabels, WriteLabels, Labels, Results, Goto, Truncate, store, aux
<1>1. CASE AddOpen(p)
  BY <1>1 DEF AddOpen
<1>2. CASE AddLock(p)
  BY <1>2 DEF AddLock
<1>3. CASE AddCut(p)
  BY <1>3 DEF AddCut
<1>4. CASE AddWrite(p)
  BY <1>4 DEF AddWrite
<1>5. CASE ExecMutex(p)
  BY <1>5 DEF ExecMutex
<1>6. CASE ExecExists(p)
  BY <1>6 DEF ExecExists
<1>7. CASE ExecLock(p)
  BY <1>7 DEF ExecLock
<1>8. CASE ExecEmpty(p)
  BY <1>8 DEF ExecEmpty
<1>9. CASE ExecTask(p)
  BY <1>9 DEF ExecTask
<1>10. CASE ExecFails(p)
  BY <1>10 DEF ExecFails
<1>11. CASE ExecAll(p)
  BY <1>11 DEF ExecAll
<1>12. CASE ExecWrite(p)
  BY <1>12 DEF ExecWrite
<1>13. CASE Deploy(p)
  BY <1>13 DEF Deploy
<1>14. CASE Die(p)
  BY <1>14 DEF Die
<1> QED
  BY <1>1, <1>2, <1>3, <1>4, <1>5, <1>6, <1>7, <1>8,
     <1>9, <1>10, <1>11, <1>12, <1>13, <1>14
  DEF QueueStep, AddStep, ExecStep

LEMMA QueueStutterInv == QueueInv /\ UNCHANGED queueVars => QueueInv'
  BY DEF queueVars, QueueInv, QueueTypeOK, Holding, FileKept, ListsKept,
         AddedKept, RerunKept, ResultKept, NothingForgotten, RunOnce, Waiting,
         Done, Kept, FlockLabels, WriteLabels, Labels, Results

THEOREM QueueInvariant == QueueSpec => []QueueInv
<1>1. QueueInv /\ [QueueNext]_queueVars => QueueInv'
  BY QueueStepInv, QueueStutterInv DEF QueueNext
<1> QED
  BY QueueInitInv, <1>1, PTL DEF QueueSpec

(* The invariant of types of the task file and of the requests.            *)
THEOREM QueueTypeCorrect == QueueSpec => []QueueTypeOK
<1>1. QueueInv => QueueTypeOK
  BY DEF QueueInv
<1> QED
  BY QueueInvariant, <1>1, PTL

(* addTask and execTasks forget no task that has been added, unless a      *)
(* process dies while it rewrites the file.                                *)
THEOREM NothingForgottenCorrect == QueueSpec => []NothingForgotten
<1>1. QueueInv => NothingForgotten
  BY DEF QueueInv
<1> QED
  BY QueueInvariant, <1>1, PTL

(* execTasks runs no task twice, unless the process that ran it died.      *)
THEOREM RunOnceCorrect == QueueSpec => []RunOnce
<1>1. QueueInv => RunOnce
  BY DEF QueueInv
<1> QED
  BY QueueInvariant, <1>1, PTL

(* A request that ends with "ok" has done what it promises.                *)
THEOREM OkIsKept ==
  QueueSpec => [](\A p \in Procs : result[p] = "ok" => Kept(p))
<1>1. QueueInv => \A p \in Procs : result[p] = "ok" => Kept(p)
  BY DEF QueueInv, ResultKept
<1> QED
  BY QueueInvariant, <1>1, PTL
=============================================================================
