----------------------------- MODULE TaskQueue -----------------------------
(***************************************************************************)
(* The tasks a module puts off until it is deployed: addTask and execTasks *)
(* of ModuleAbstract, as the fstab module uses them.                       *)
(*                                                                         *)
(* A mount point that is removed from the configuration is to be unmounted *)
(* and its directory unlinked by the next deployment of fstab.  Until then *)
(* the task waits in fstab_tasks.json, a file that is locked while it is   *)
(* read and rewritten.  A rewrite truncates the file first; creating it    *)
(* comes before locking it.  The requests are                              *)
(*   - delete: FsTab::delete, which adds a task;                           *)
(*   - apply: Config::applyChanges that deploys fstab, under the database  *)
(*     semaphore, which runs the tasks;                                    *)
(*   - umount: FileSystemMgmt::umountByDir or umountByFsName, both of them *)
(*     in this order.                                                      *)
(* A process may die at any step; the kernel then frees what it holds.     *)
(*                                                                         *)
(* A task is named after the process that adds it.  All tasks of fstab     *)
(* have the same identifier.  The order of the list is left out: tasks are *)
(* run in an arbitrary order.                                              *)
(***************************************************************************)
EXTENDS Naturals

CONSTANTS
  Procs,  \* the worker processes, one request each
  Mixes,  \* what the requests may be, each an assignment of kinds to Procs
  None    \* nobody holds the lock

OpKinds == {"delete", "apply", "umount"}

ASSUME NoneAssumption == None \notin Procs

ASSUME MixesAssumption == Mixes \subseteq [Procs -> OpKinds]

VARIABLES
  op,      \* op[p]: what the request of p does
  file,    \* the task file: missing, empty (of no bytes) or filled with JSON
  queue,   \* the tasks in it
  flock,   \* the holder of the lock on it
  mutex,   \* the holder of the database semaphore
  pc,      \* where each process is in its request
  list,    \* its $tasks
  result,  \* what it will answer
  added,   \* auxiliary: the tasks that have been written to the file
  ran,     \* auxiliary: how often each task has been run successfully
  lost,    \* auxiliary: the tasks that died with a process rewriting the file
  again,   \* auxiliary: the tasks run by a process that died before it said so
  due      \* auxiliary: the tasks an apply has to run

queueVars == <<op, file, queue, flock, mutex, pc, list, result,
               added, ran, lost, again, due>>
store == <<file, queue>>
aux == <<added, ran, lost, again, due>>

Labels == {"add_open", "add_lock", "add_cut", "add_write", "exec_mutex",
           "exec_exists", "exec_lock", "exec_run", "exec_write", "deploy",
           "end", "dead"}
Results == {"none", "ok", "error"}

(* Where a process holds the lock on the task file ...                     *)
FlockLabels == {"add_cut", "add_write", "exec_run", "exec_write"}

(* ... and where the tasks are nowhere but in its memory.                  *)
WriteLabels == {"add_write", "exec_write"}

Done == {t \in Procs : ran[t] > 0}

QueueInit ==
  /\ op \in Mixes
  /\ file = "missing" /\ queue = {}
  /\ flock = None /\ mutex = None
  /\ pc = [p \in Procs |->
            IF op[p] = "apply" THEN "exec_mutex" ELSE "add_open"]
  /\ list = [p \in Procs |-> {}]
  /\ result = [p \in Procs |-> "none"]
  /\ added = {}
  /\ ran = [t \in Procs |-> 0]
  /\ lost = {} /\ again = {}
  /\ due = [p \in Procs |-> {}]

Goto(p, from, to) == pc[p] = from /\ pc' = [pc EXCEPT ![p] = to]

-----------------------------------------------------------------------------
(* addTask.                                                                *)

(* fopen creates the file, before anybody has the lock.                    *)
AddOpen(p) ==
  /\ Goto(p, "add_open", "add_lock")
  /\ file' = IF file = "missing" THEN "empty" ELSE file
  /\ UNCHANGED <<op, queue, flock, mutex, list, result, aux>>

(* Mutant: the file is read without a lock.                                *)
AddLock_Shared(p) ==
  /\ Goto(p, "add_lock", "add_cut")
  /\ flock' = p
  /\ file' = "json"
  /\ list' = [list EXCEPT ![p] = queue \cup {p}]
  /\ UNCHANGED <<op, queue, mutex, result, aux>>

(* The lock is taken, an empty file filled with an empty list, the list    *)
(* read and the task appended.                                             *)
AddLock(p) ==
  /\ Goto(p, "add_lock", "add_cut")
  /\ flock = None
  /\ flock' = p
  /\ file' = "json"
  /\ list' = [list EXCEPT ![p] = queue \cup {p}]
  /\ UNCHANGED <<op, queue, mutex, result, aux>>

Truncate(p, from, to) ==
  /\ Goto(p, from, to)
  /\ file' = "empty" /\ queue' = {}

AddCut(p) ==
  /\ Truncate(p, "add_cut", "add_write")
  /\ UNCHANGED <<op, flock, mutex, list, result, aux>>

(* The list is written and the file closed.  A delete is done with that,   *)
(* an umount goes on to apply.                                             *)
AddWrite(p) ==
  /\ Goto(p, "add_write", IF op[p] = "umount" THEN "exec_mutex" ELSE "end")
  /\ file' = "json" /\ queue' = list[p]
  /\ flock' = None
  /\ result' = [result EXCEPT ![p] =
                  IF op[p] = "umount" THEN "none" ELSE "ok"]
  /\ added' = added \cup {p}
  /\ UNCHANGED <<op, mutex, list, ran, lost, again, due>>

-----------------------------------------------------------------------------
(* applyChanges as far as it concerns the tasks, with execTasks.           *)

ExecMutex(p) ==
  /\ Goto(p, "exec_mutex", "exec_exists")
  /\ mutex = None
  /\ mutex' = p
  /\ UNCHANGED <<op, store, flock, list, result, aux>>

ExecExists(p) ==
  /\ Goto(p, "exec_exists",
          IF file = "missing" THEN "deploy" ELSE "exec_lock")
  /\ due' = [due EXCEPT ![p] = added]
  /\ UNCHANGED <<op, store, flock, mutex, list, result,
                 added, ran, lost, again>>

ExecLock(p) ==
  /\ Goto(p, "exec_lock", "exec_run")
  /\ flock = None /\ file = "json"
  /\ flock' = p
  /\ list' = [list EXCEPT ![p] = queue]
  /\ UNCHANGED <<op, store, mutex, result, aux>>

(* A file of no bytes is an error: it was just created, or its writer died *)
(* between truncating and writing it.                                      *)
ExecEmpty(p) ==
  /\ Goto(p, "exec_lock", "end")
  /\ flock = None /\ file # "json"
  /\ mutex' = None
  /\ result' = [result EXCEPT ![p] = "error"]
  /\ UNCHANGED <<op, store, flock, list, aux>>

(* Mutant: a task stays in the list that has been run.                     *)
ExecTask_Kept(p) ==
  /\ pc[p] = "exec_run"
  /\ \E t \in list[p] : ran' = [ran EXCEPT ![t] = @ + 1]
  /\ UNCHANGED <<op, store, flock, mutex, pc, list, result,
                 added, lost, again, due>>

(* deleteEntry unmounts and unlinks the mount point.                       *)
ExecTask(p) ==
  /\ pc[p] = "exec_run"
  /\ \E t \in list[p] : /\ ran' = [ran EXCEPT ![t] = @ + 1]
                        /\ list' = [list EXCEPT ![p] = @ \ {t}]
  /\ UNCHANGED <<op, store, flock, mutex, pc, result, added, lost, again, due>>

(* The mount point is busy: the task stays, the rest is left alone.  The   *)
(* finally block empties the file ...                                      *)
ExecFails(p) ==
  /\ list[p] # {}
  /\ Truncate(p, "exec_run", "exec_write")
  /\ result' = [result EXCEPT ![p] = "error"]
  /\ UNCHANGED <<op, flock, mutex, list, aux>>

(* ... as it does when all tasks have been run ...                         *)
ExecAll(p) ==
  /\ list[p] = {}
  /\ Truncate(p, "exec_run", "exec_write")
  /\ UNCHANGED <<op, flock, mutex, list, result, aux>>

(* ... and writes back what is left, before an exception goes on.          *)
ExecWrite(p) ==
  /\ Goto(p, "exec_write", IF result[p] = "error" THEN "end" ELSE "deploy")
  /\ file' = "json" /\ queue' = list[p]
  /\ flock' = None
  /\ mutex' = IF result[p] = "error" THEN None ELSE mutex
  /\ UNCHANGED <<op, list, result, aux>>

(* The rest of the deployment, which may throw.                            *)
Deploy(p) ==
  /\ Goto(p, "deploy", "end")
  /\ mutex' = None
  /\ \E answer \in {"ok", "error"} : result' = [result EXCEPT ![p] = answer]
  /\ UNCHANGED <<op, store, flock, list, aux>>

-----------------------------------------------------------------------------
(* A process is killed, by a signal or by a fatal error.                   *)
Die(p) ==
  /\ pc[p] \notin {"end", "dead"}
  /\ pc' = [pc EXCEPT ![p] = "dead"]
  /\ flock' = IF flock = p THEN None ELSE flock
  /\ mutex' = IF mutex = p THEN None ELSE mutex
  /\ lost' = IF pc[p] \in WriteLabels
             THEN lost \cup (list[p] \cap added) ELSE lost
  /\ again' = IF pc[p] = "exec_run"
              THEN again \cup (queue \ list[p]) ELSE again
  /\ UNCHANGED <<op, store, list, result, added, ran, due>>

AddStep(p) == AddOpen(p) \/ AddLock(p) \/ AddCut(p) \/ AddWrite(p)

ExecStep(p) ==
  \/ ExecMutex(p) \/ ExecExists(p) \/ ExecLock(p) \/ ExecEmpty(p)
  \/ ExecTask(p) \/ ExecFails(p) \/ ExecAll(p) \/ ExecWrite(p) \/ Deploy(p)

QueueStep(p) == AddStep(p) \/ ExecStep(p)

QueueNext == \E p \in Procs : QueueStep(p) \/ Die(p)

QueueSpec == QueueInit /\ [][QueueNext]_queueVars

-----------------------------------------------------------------------------
QueueTypeOK ==
  /\ op \in [Procs -> OpKinds]
  /\ file \in {"missing", "empty", "json"}
  /\ queue \subseteq Procs
  /\ flock \in Procs \cup {None}
  /\ mutex \in Procs \cup {None}
  /\ pc \in [Procs -> Labels]
  /\ list \in [Procs -> SUBSET Procs]
  /\ result \in [Procs -> Results]
  /\ added \subseteq Procs
  /\ ran \in [Procs -> Nat]
  /\ lost \subseteq Procs /\ again \subseteq Procs
  /\ due \in [Procs -> SUBSET Procs]

(* The tasks that still wait: in the file, or with who is rewriting it.    *)
Waiting == queue \cup UNION {list[p] : p \in {q \in Procs :
                                                pc[q] \in WriteLabels}}

(* A task that has been added is run or still waits, whatever order the    *)
(* requests come in and whichever tasks fail; it is gone only if a process *)
(* died while the file was truncated (File::write, moduleabstract.inc:     *)
(* addTask and execTasks).                                                 *)
NothingForgotten == added \subseteq Done \cup Waiting \cup lost

(* What an answer "ok" of p promises: the task of a delete is in the list, *)
(* that of an umount has been run, and so have all that an apply found.    *)
Kept(p) ==
  /\ op[p] = "delete" => p \in added
  /\ op[p] = "umount" => p \in Done \cup lost
  /\ op[p] = "apply" => due[p] \subseteq Done \cup lost

(* No mount point is unmounted and unlinked twice for one deletion, unless *)
(* the process that did it died before it rewrote the file.                *)
RunOnce == \A t \in Procs : ran[t] <= 1 \/ t \in again
=============================================================================
