---------------------------- MODULE ConfigApply ----------------------------
(***************************************************************************)
(* How openmediavault stores a change of its configuration, deploys it to  *)
(* the services and takes it back.                                         *)
(*                                                                         *)
(* Every RPC request runs in a process of its own, forked by omv-engined,  *)
(* and ends with it.  The requests modelled here are                       *)
(*   - set: Database::set, delete or deleteByFilter of one configuration   *)
(*     object, then the notification that marks modules dirty;             *)
(*   - apply: Config::applyChanges, which deploys dirty modules;           *)
(*   - revert: Config::revertChanges, which goes back to a revision.       *)
(* They share config.xml with its revision files, guarded by a System V    *)
(* semaphore (mutex), and the list of dirty modules, guarded by a file     *)
(* lock (flock).  The kernel frees both locks when a process dies.         *)
(*                                                                         *)
(* The parameters of a request are chosen where the code first uses them:  *)
(* nothing before that step depends on them.                               *)
(***************************************************************************)
EXTENDS Naturals, Sequences

CONSTANTS
  Procs,      \* the worker processes, one request each
  Objects,    \* the configuration objects in config.xml
  Modules,    \* the registered service modules
  Removed,    \* modules of uninstalled plugins the dirty list may still name
  Listeners,  \* Listeners[o]: the modules a change of object o marks dirty
  Backups,    \* contents of the backup files an administrator may restore
  Ops,        \* the kinds of request that occur
  Mortal,     \* the kinds of request whose process may be killed
  Throwers,   \* modules whose listeners may throw when they are notified
  Unsortable, \* selections whose declared order is circular (DeployOrder)
  None        \* nobody holds the lock; the initial value of an object

OpKinds == {"set", "apply", "revert"}

Names == Modules \cup Removed

(* A value of an object is named after the process that stored it.         *)
Values == Procs \cup {None}

Config == [Objects -> Values]

ASSUME NoneAssumption == None \notin Procs

ASSUME RemovedAssumption == Modules \cap Removed = {}

ASSUME ListenersAssumption == Listeners \in [Objects -> SUBSET Modules]

ASSUME BackupsAssumption == Backups \subseteq Config

ASSUME OpsAssumption == Ops \subseteq OpKinds /\ Mortal \subseteq Ops

ASSUME FailuresAssumption ==
  Throwers \subseteq Modules /\ Unsortable \subseteq SUBSET Modules

VARIABLES
  conf,       \* the contents of config.xml
  revs,       \* the revision files config.xml.0001, .0002, ..., oldest first
  deployed,   \* deployed[m]: the configuration module m was last deployed from
  dirty,      \* the contents of the dirty modules file
  mutex,      \* the holder of the database semaphore
  flock,      \* the holder of the lock on the dirty modules file
  pc,         \* where each process is in its request
  todo,       \* the modules it has still to mark dirty (set) or deploy (apply)
  keep,       \* what an apply will leave in the dirty modules file
  baseline    \* auxiliary: conf when the revisions were last all unlinked

vars == <<conf, revs, deployed, dirty, mutex, flock, pc, todo, keep, baseline>>
store == <<conf, revs, baseline>>
locals == <<todo, keep>>

SetLabels == {"set_lock", "set_copy", "set_save", "set_unlock", "set_notify"}
ApplyLabels == {"apply_lock", "apply_open", "apply_select", "apply_deploy",
                "apply_unlink", "apply_return", "apply_unwind"}
RevertLabels == {"revert_open", "revert_lock", "revert_copy", "revert_unlink",
                 "revert_unlock", "revert_write", "revert_unwind"}
Labels == {"idle", "done"} \cup SetLabels \cup ApplyLabels \cup RevertLabels

Kind(label) == CASE label \in SetLabels    -> "set"
                 [] label \in ApplyLabels  -> "apply"
                 [] label \in RevertLabels -> "revert"
                 [] OTHER                  -> "none"

(* The labels at which a process holds the database semaphore ...          *)
MutexLabels == {"set_copy", "set_save", "set_unlock",
                "apply_open", "apply_select", "apply_deploy", "apply_unlink",
                "apply_return",
                "revert_copy", "revert_unlink", "revert_unlock"}

(* ... and at which it holds the lock on the dirty modules file.           *)
FlockLabels == {"apply_select", "apply_deploy", "apply_unwind",
                "revert_lock", "revert_copy", "revert_unlink",
                "revert_unlock", "revert_write", "revert_unwind"}

Init ==
  /\ conf = [o \in Objects |-> None]
  /\ revs = <<>>
  /\ deployed = [m \in Modules |-> conf]
  /\ dirty \in SUBSET Removed
  /\ mutex = None
  /\ flock = None
  /\ pc = [p \in Procs |-> "idle"]
  /\ todo = [p \in Procs |-> {}]
  /\ keep = [p \in Procs |-> {}]
  /\ baseline = conf

Goto(p, from, to) == pc[p] = from /\ pc' = [pc EXCEPT ![p] = to]

(* The local variables of a process that dies or throws are gone.          *)
Forget(p) == /\ todo' = [todo EXCEPT ![p] = {}]
             /\ keep' = [keep EXCEPT ![p] = {}]

StartSet(p) ==
  /\ "set" \in Ops
  /\ Goto(p, "idle", "set_lock")
  /\ UNCHANGED <<store, deployed, dirty, mutex, flock, locals>>

StartApply(p) ==
  /\ "apply" \in Ops
  /\ Goto(p, "idle", "apply_lock")
  /\ UNCHANGED <<store, deployed, dirty, mutex, flock, locals>>

StartRevert(p) ==
  /\ "revert" \in Ops
  /\ Goto(p, "idle", "revert_open")
  /\ UNCHANGED <<store, deployed, dirty, mutex, flock, locals>>

-----------------------------------------------------------------------------
(* Set: DatabaseBackend::set, replace and delete are one critical section. *)

(* Mutant: the semaphore is not waited for.                                *)
SetLock_NoWait(p) ==
  /\ Goto(p, "set_lock", "set_copy")
  /\ mutex' = p
  /\ UNCHANGED <<store, deployed, dirty, flock, locals>>

SetLock(p) ==
  /\ Goto(p, "set_lock", "set_copy")
  /\ mutex = None
  /\ mutex' = p
  /\ UNCHANGED <<store, deployed, dirty, flock, locals>>

(* The object is gone, or a copy or the save fails: the request throws     *)
(* before it notifies anyone, and the Mutex destructor frees the lock.     *)
(* What throws after the commit is NotifyThrow.                            *)
SetThrow(p) ==
  /\ \/ Goto(p, "set_copy", "done")
     \/ Goto(p, "set_save", "done")
  /\ mutex' = None
  /\ UNCHANGED <<store, deployed, dirty, flock, locals>>

(* Mutant: the document is saved before it is copied.                      *)
CommitCopy_AfterSave(p) ==
  /\ Goto(p, "set_copy", "set_save")
  /\ \E o \in Objects : revs' = Append(revs, [conf EXCEPT ![o] = p])
  /\ UNCHANGED <<conf, baseline, deployed, dirty, mutex, flock, locals>>

(* commit: the revision file is a copy of config.xml as it is ...          *)
CommitCopy(p) ==
  /\ Goto(p, "set_copy", "set_save")
  /\ revs' = Append(revs, conf)
  /\ UNCHANGED <<conf, baseline, deployed, dirty, mutex, flock, locals>>

(* ... before the document is saved over it.                               *)
CommitSave(p) ==
  /\ Goto(p, "set_save", "set_unlock")
  /\ \E o \in Objects : /\ conf' = [conf EXCEPT ![o] = p]
                        /\ todo' = [todo EXCEPT ![p] = Listeners[o]]
  /\ UNCHANGED <<revs, baseline, deployed, dirty, mutex, flock, keep>>

SetUnlock(p) ==
  /\ Goto(p, "set_unlock", "set_notify")
  /\ mutex' = None
  /\ UNCHANGED <<store, deployed, dirty, flock, locals>>

(* Dispatcher::notify calls the listeners one after the other; each opens, *)
(* locks, rewrites and closes the dirty modules file.                      *)
MarkDirty(p) ==
  /\ pc[p] = "set_notify"
  /\ flock = None
  /\ \E m \in todo[p] : /\ dirty' = dirty \cup {m}
                        /\ todo' = [todo EXCEPT ![p] = @ \ {m}]
  /\ UNCHANGED <<store, deployed, mutex, flock, pc, keep>>

(* Nothing catches what a listener throws: the change stays committed, the *)
(* request fails, and the modules that were not reached stay unmarked.     *)
(* The listener may have marked its module before, as that of fstab does.  *)
NotifyThrow(p) ==
  /\ Goto(p, "set_notify", "done")
  /\ \E m \in todo[p] \cap Throwers :
       \/ UNCHANGED dirty
       \/ flock = None /\ dirty' = dirty \cup {m}
  /\ Forget(p)
  /\ UNCHANGED <<store, deployed, mutex, flock>>

SetReturn(p) ==
  /\ Goto(p, "set_notify", "done")
  /\ todo[p] = {}
  /\ UNCHANGED <<store, deployed, dirty, mutex, flock, locals>>

-----------------------------------------------------------------------------
(* Apply: Config::applyChanges.                                            *)

ApplyLock(p) ==
  /\ Goto(p, "apply_lock", "apply_open")
  /\ mutex = None
  /\ mutex' = p
  /\ UNCHANGED <<store, deployed, dirty, flock, locals>>

ApplyOpen(p) ==
  /\ Goto(p, "apply_open", "apply_select")
  /\ flock = None
  /\ flock' = p
  /\ UNCHANGED <<store, deployed, dirty, mutex, locals>>

(* No module named means all registered ones; without force only those     *)
(* that are dirty are processed.                                           *)
Selected(wanted, force) ==
  LET asked == IF wanted = {} THEN Modules ELSE wanted
  IN  IF force THEN asked ELSE asked \cap dirty \cap Modules

(* When the order of the selected modules is circular, sort returns FALSE, *)
(* and the loop over its result deploys none of them.                      *)
ToDeploy(selected) == IF selected \in Unsortable THEN {} ELSE selected

(* Mutant: names of uninstalled plugins stay in the list.                  *)
ApplySelect_KeepsUnknown(p) ==
  /\ Goto(p, "apply_select", "apply_deploy")
  /\ \E wanted \in SUBSET Modules, force \in BOOLEAN :
       LET selected == Selected(wanted, force)
       IN  /\ todo' = [todo EXCEPT ![p] = ToDeploy(selected)]
           /\ keep' = [keep EXCEPT ![p] = dirty \ selected]
  /\ UNCHANGED <<store, deployed, dirty, mutex, flock>>

(* Names of uninstalled plugins are dropped from the list first, so only   *)
(* with force can an unknown module be selected: then the request throws.  *)
(* A selected module leaves the list, whether it will be deployed or not.  *)
ApplySelect(p) ==
  /\ Goto(p, "apply_select", "apply_deploy")
  /\ \E wanted \in SUBSET Names, force \in BOOLEAN :
       LET selected == Selected(wanted, force)
       IN  /\ selected \subseteq Modules
           /\ todo' = [todo EXCEPT ![p] = ToDeploy(selected)]
           /\ keep' = [keep EXCEPT ![p] = (dirty \cap Modules) \ selected]
  /\ UNCHANGED <<store, deployed, dirty, mutex, flock>>

(* omv-salt renders the module from config.xml as it is now.               *)
Deploy(p) ==
  /\ pc[p] = "apply_deploy"
  /\ \E m \in todo[p] : /\ deployed' = [deployed EXCEPT ![m] = conf]
                        /\ todo' = [todo EXCEPT ![p] = @ \ {m}]
  /\ UNCHANGED <<store, dirty, mutex, flock, pc, keep>>

(* A module fails before or after it was deployed, or an unknown one was   *)
(* asked for: the dirty modules file and the revisions stay as they are.   *)
(* The semaphore is freed first, then the file.                            *)
ApplyThrow(p) ==
  /\ \/ /\ Goto(p, "apply_select", "apply_unwind")
        /\ UNCHANGED deployed
     \/ /\ Goto(p, "apply_deploy", "apply_unwind")
        /\ \E m \in todo[p] : \/ deployed' = [deployed EXCEPT ![m] = conf]
                              \/ UNCHANGED deployed
  /\ mutex' = None
  /\ Forget(p)
  /\ UNCHANGED <<store, dirty, flock>>

(* Mutant: the whole list is emptied, whatever was processed.              *)
ApplyWrite_Empty(p) ==
  /\ Goto(p, "apply_deploy", "apply_unlink")
  /\ todo[p] = {}
  /\ dirty' = {}
  /\ flock' = None
  /\ keep' = [keep EXCEPT ![p] = {}]
  /\ UNCHANGED <<store, deployed, mutex, todo>>

(* The list read under the lock is written back and the file closed.       *)
ApplyWrite(p) ==
  /\ Goto(p, "apply_deploy", "apply_unlink")
  /\ todo[p] = {}
  /\ dirty' = keep[p]
  /\ flock' = None
  /\ keep' = [keep EXCEPT ![p] = {}]
  /\ UNCHANGED <<store, deployed, mutex, todo>>

(* Mutant: the mutex was created without $auto and is not released.        *)
ApplyReturn_KeepsLock(p) ==
  /\ Goto(p, "apply_return", "done")
  /\ UNCHANGED <<store, deployed, dirty, mutex, flock, locals>>

ApplyReturn(p) ==
  /\ Goto(p, "apply_return", "done")
  /\ mutex' = None
  /\ UNCHANGED <<store, deployed, dirty, flock, locals>>

ApplyUnwind(p) ==
  /\ Goto(p, "apply_unwind", "done")
  /\ flock' = None
  /\ UNCHANGED <<store, deployed, dirty, mutex, locals>>

-----------------------------------------------------------------------------
(* unlinkRevisions, called by both: glob returns the names sorted.         *)

Unlink(p) ==
  /\ pc[p] \in {"apply_unlink", "revert_unlink"}
  /\ revs # <<>>
  /\ revs' = Tail(revs)
  /\ UNCHANGED <<conf, baseline, deployed, dirty, mutex, flock, pc, locals>>

UnlinkDone(p) ==
  /\ \/ Goto(p, "apply_unlink", "apply_return")
     \/ Goto(p, "revert_unlink", "revert_unlock")
  /\ revs = <<>>
  /\ baseline' = conf
  /\ UNCHANGED <<conf, revs, deployed, dirty, mutex, flock, locals>>

-----------------------------------------------------------------------------
(* Revert: Config::revertChanges takes the two locks the other way round.  *)

RevertOpen(p) ==
  /\ Goto(p, "revert_open", "revert_lock")
  /\ flock = None
  /\ flock' = p
  /\ UNCHANGED <<store, deployed, dirty, mutex, locals>>

RevertLock(p) ==
  /\ Goto(p, "revert_lock", "revert_copy")
  /\ mutex = None
  /\ mutex' = p
  /\ UNCHANGED <<store, deployed, dirty, flock, locals>>

(* Mutant: the newest revision is restored instead of the oldest.          *)
RevertCopy_Newest(p) ==
  /\ Goto(p, "revert_copy", "revert_unlink")
  /\ \/ conf' \in Backups
     \/ revs # <<>> /\ conf' = revs[Len(revs)]
  /\ UNCHANGED <<revs, baseline, deployed, dirty, mutex, flock, locals>>

(* The named backup, or the revision with the lowest number.               *)
RevertCopy(p) ==
  /\ Goto(p, "revert_copy", "revert_unlink")
  /\ \/ conf' \in Backups
     \/ revs # <<>> /\ conf' = Head(revs)
  /\ UNCHANGED <<revs, baseline, deployed, dirty, mutex, flock, locals>>

(* Without a revision there is nothing to copy and revert just returns.    *)
RevertNothing(p) ==
  /\ Goto(p, "revert_copy", "revert_unlock")
  /\ revs = <<>>
  /\ UNCHANGED <<store, deployed, dirty, mutex, flock, locals>>

(* The copy fails: the dirty modules file stays as it is.                  *)
RevertThrow(p) ==
  /\ Goto(p, "revert_copy", "revert_unwind")
  /\ mutex' = None
  /\ UNCHANGED <<store, deployed, dirty, flock, locals>>

(* Mutant: the exception leaves the file locked.                           *)
RevertUnwind_KeepsLock(p) ==
  /\ Goto(p, "revert_unwind", "done")
  /\ UNCHANGED <<store, deployed, dirty, mutex, flock, locals>>

RevertUnwind(p) ==
  /\ Goto(p, "revert_unwind", "done")
  /\ flock' = None
  /\ UNCHANGED <<store, deployed, dirty, mutex, locals>>

RevertUnlock(p) ==
  /\ Goto(p, "revert_unlock", "revert_write")
  /\ mutex' = None
  /\ UNCHANGED <<store, deployed, dirty, flock, locals>>

RevertWrite(p) ==
  /\ Goto(p, "revert_write", "done")
  /\ dirty' = {}
  /\ flock' = None
  /\ UNCHANGED <<store, deployed, mutex, locals>>

-----------------------------------------------------------------------------
(* Exec::stop or the shutdown of omv-engined kills a worker; the kernel    *)
(* takes its locks away.                                                   *)
Freed(lock, p) == IF lock = p THEN None ELSE lock

Kill(p) ==
  /\ Kind(pc[p]) \in Mortal
  /\ pc' = [pc EXCEPT ![p] = "done"]
  /\ mutex' = Freed(mutex, p)
  /\ flock' = Freed(flock, p)
  /\ Forget(p)
  /\ UNCHANGED <<store, deployed, dirty>>

SetStep(p) == SetLock(p) \/ CommitCopy(p) \/ CommitSave(p) \/ SetUnlock(p)
                \/ MarkDirty(p) \/ SetReturn(p)

ApplyStep(p) == ApplyLock(p) \/ ApplyOpen(p) \/ ApplySelect(p) \/ Deploy(p)
                  \/ ApplyWrite(p) \/ ApplyReturn(p) \/ ApplyUnwind(p)

RevertStep(p) == RevertOpen(p) \/ RevertLock(p) \/ RevertCopy(p)
                   \/ RevertNothing(p) \/ RevertUnlock(p) \/ RevertWrite(p)
                   \/ RevertUnwind(p)

Step(p) == SetStep(p) \/ ApplyStep(p) \/ RevertStep(p)
             \/ Unlink(p) \/ UnlinkDone(p)

Start(p) == StartSet(p) \/ StartApply(p) \/ StartRevert(p)

Fail(p) == SetThrow(p) \/ NotifyThrow(p) \/ ApplyThrow(p) \/ RevertThrow(p)
             \/ Kill(p)

(* Every request has ended: the system waits for the next one.             *)
Finished == (\A p \in Procs : pc[p] = "done") /\ UNCHANGED vars

Next == (\E p \in Procs : Start(p) \/ Step(p) \/ Fail(p)) \/ Finished

Spec == Init /\ [][Next]_vars

(* A worker that can go on does: the kernel schedules it, and wakes the    *)
(* waiters of a semaphore and of a file lock in turn.                      *)
FairSpec == Spec /\ \A p \in Procs : WF_vars(Step(p))

-----------------------------------------------------------------------------
TypeOK ==
  /\ conf \in Config
  /\ revs \in Seq(Config)
  /\ deployed \in [Modules -> Config]
  /\ dirty \subseteq Names
  /\ mutex \in Procs \cup {None}
  /\ flock \in Procs \cup {None}
  /\ pc \in [Procs -> Labels]
  /\ todo \in [Procs -> SUBSET Modules]
  /\ keep \in [Procs -> SUBSET Modules]
  /\ baseline \in Config

(* Who is inside a critical section holds its lock, and nobody else does.  *)
MutexHeld == \A p \in Procs : pc[p] \in MutexLabels <=> mutex = p
FlockHeld == \A p \in Procs : pc[p] \in FlockLabels <=> flock = p

LocksHeld == MutexHeld /\ FlockHeld

Affects(o, m) == m \in Listeners[o]

(* Module m was deployed from other data than config.xml holds now.        *)
Stale(m) == \E o \in Objects : Affects(o, m) /\ deployed[m][o] # conf[o]

(* A set has changed what m depends on and will mark it dirty.             *)
Announced(m) ==
  \E p \in Procs : pc[p] \in {"set_unlock", "set_notify"} /\ m \in todo[p]

(* isDirty answers FALSE only when there is nothing to deploy: a module    *)
(* whose configuration differs from the deployed one is in the dirty list, *)
(* or the request that changed it is about to put it there.  Holds for     *)
(* concurrent changes and (partial, failing, killed) applies, and for      *)
(* concurrent changes and reverts to a revision, as long as no listener    *)
(* throws and every selection can be sorted.                               *)
CleanIsDeployed == \A m \in Modules : Stale(m) => m \in dirty \/ Announced(m)

(* Seen from outside, changes and applies keep the promise of the pending  *)
(* changes: a module is pending while it is in the dirty list or about to  *)
(* be put there, from the commit of a change on and until it was deployed  *)
(* from the configuration stored.                                          *)
Pending == {m \in Modules : m \in dirty \/ Announced(m)}

Promise == INSTANCE PendingChanges
             WITH First <- None, content <- conf, running <- deployed,
                  pending <- Pending

ImplementsPromise == Promise!Spec

(* While an apply deploys, nobody else writes config.xml, its revisions or *)
(* the dirty list: "Lock the database to prevent writes during the         *)
(* deployment" (config.inc).                                               *)
FreezeStep ==
  \A p \in Procs : pc[p] = "apply_deploy" =>
    UNCHANGED <<conf, revs>> /\ (dirty' # dirty => pc'[p] = "apply_unlink")

DeployFreezesConfig == [][FreezeStep]_vars

(* What revertChanges goes back to is what the last completed apply or     *)
(* revert left: between commits the oldest revision, if any, holds that    *)
(* configuration, and without revisions config.xml itself does.            *)
OldestRevisionIsBaseline ==
  (\A p \in Procs : pc[p] \notin {"apply_unlink", "revert_unlink"})
     => baseline = IF revs = <<>> THEN conf ELSE Head(revs)

(* A revert without a backup file restores what the last completed apply   *)
(* or revert left, however many changes were committed since.              *)
RevertGoesBack ==
  [][\A p \in Procs : pc[p] = "revert_copy" /\ pc'[p] = "revert_unlink" =>
       conf' \in Backups \cup {baseline}]_vars

(* An apply and a revert never wait for each other's lock: "Lock it to     *)
(* force all writers to wait until this RPC has been finished"             *)
(* (config.inc) presumes that it does finish.                              *)
NoLockCycle ==
  ~ \E p, q \in Procs : /\ pc[p] = "apply_open" /\ mutex = p
                        /\ pc[q] = "revert_lock" /\ flock = q

(* Every request that was started ends, with or without an error: the      *)
(* cycle between an apply and a revert is the only way to wait for ever.   *)
RequestsEnd ==
  \A p \in Procs : pc[p] # "idle" ~> (pc[p] = "done" \/ ~ NoLockCycle)
=============================================================================
