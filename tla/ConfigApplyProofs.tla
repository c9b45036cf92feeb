------------------------- MODULE ConfigApplyProofs -------------------------
(***************************************************************************)
(* What holds of ConfigApply for every set of processes, objects and       *)
(* modules, however many requests of each kind there are.                  *)
(***************************************************************************)
EXTENDS ConfigApply, TLAPS

USE DEF SetLabels, ApplyLabels, RevertLabels, Labels

(* The oldest revision of a non-empty list is a configuration, and so are  *)
(* the others.                                                             *)
LEMMA RevisionsType ==
  ASSUME NEW s \in Seq(Config), s # <<>>
  PROVE  Head(s) \in Config /\ Tail(s) \in Seq(Config)
  OBVIOUS

(* An apply only ever selects registered modules.                          *)
LEMMA SelectType ==
  ASSUME TypeOK, NEW p \in Procs, ApplySelect(p)
  PROVE  TypeOK'
  BY DEF TypeOK, ApplySelect, ToDeploy, Goto, store

(* Every variable keeps to its range, for all requests and all crashes.    *)
THEOREM TypeCorrect == Spec => []TypeOK
<1>1. Init => TypeOK
  BY NoneAssumption DEF Init, TypeOK, Config, Values, Names
<1>2. TypeOK /\ [Next]_vars => TypeOK'
  <2> SUFFICES ASSUME TypeOK, [Next]_vars PROVE TypeOK'
    OBVIOUS
  <2> USE DEF Goto, store, locals
  <2>1. CASE UNCHANGED vars
    BY <2>1 DEF TypeOK, vars
  <2>2. ASSUME NEW p \in Procs, Start(p) PROVE TypeOK'
    BY <2>2 DEF TypeOK, Start, StartSet, StartApply, StartRevert
  <2>3. ASSUME NEW p \in Procs, SetLock(p) PROVE TypeOK'
    BY <2>3 DEF TypeOK, SetLock
  <2>4. ASSUME NEW p \in Procs, CommitCopy(p) PROVE TypeOK'
    BY <2>4 DEF TypeOK, CommitCopy
  <2>5. ASSUME NEW p \in Procs, CommitSave(p) PROVE TypeOK'
    BY <2>5, ListenersAssumption DEF TypeOK, CommitSave, Config, Values
  <2>6. ASSUME NEW p \in Procs, SetUnlock(p) PROVE TypeOK'
    BY <2>6 DEF TypeOK, SetUnlock
  <2>7. ASSUME NEW p \in Procs, MarkDirty(p) PROVE TypeOK'
    BY <2>7 DEF TypeOK, MarkDirty, Names
  <2>8. ASSUME NEW p \in Procs, SetReturn(p) PROVE TypeOK'
    BY <2>8 DEF TypeOK, SetReturn
  <2>9. ASSUME NEW p \in Procs, ApplyLock(p) PROVE TypeOK'
    BY <2>9 DEF TypeOK, ApplyLock
  <2>10. ASSUME NEW p \in Procs, ApplyOpen(p) PROVE TypeOK'
    BY <2>10 DEF TypeOK, ApplyOpen
  <2>11. ASSUME NEW p \in Procs, ApplySelect(p) PROVE TypeOK'
    BY <2>11, SelectType
  <2>12. ASSUME NEW p \in Procs, Deploy(p) PROVE TypeOK'
    BY <2>12 DEF TypeOK, Deploy
  <2>13. ASSUME NEW p \in Procs, ApplyWrite(p) PROVE TypeOK'
    BY <2>13 DEF TypeOK, ApplyWrite, Names
  <2>14. ASSUME NEW p \in Procs, ApplyReturn(p) \/ ApplyUnwind(p) PROVE TypeOK'
    BY <2>14 DEF TypeOK, ApplyReturn, ApplyUnwind
  <2>15. ASSUME NEW p \in Procs, Unlink(p) PROVE TypeOK'
    BY <2>15, RevisionsType DEF TypeOK, Unlink
  <2>16. ASSUME NEW p \in Procs, UnlinkDone(p) PROVE TypeOK'
    BY <2>16 DEF TypeOK, UnlinkDone
  <2>17. ASSUME NEW p \in Procs, RevertOpen(p) \/ RevertLock(p) PROVE TypeOK'
    BY <2>17 DEF TypeOK, RevertOpen, RevertLock
  <2>18. ASSUME NEW p \in Procs, RevertCopy(p) PROVE TypeOK'
    BY <2>18, RevisionsType, BackupsAssumption DEF TypeOK, RevertCopy
  <2>19. ASSUME NEW p \in Procs, RevertNothing(p) \/ RevertUnwind(p)
         PROVE TypeOK'
    BY <2>19 DEF TypeOK, RevertNothing, RevertUnwind
  <2>20. ASSUME NEW p \in Procs, RevertUnlock(p) \/ RevertWrite(p)
         PROVE TypeOK'
    BY <2>20 DEF TypeOK, RevertUnlock, RevertWrite
  <2>21. ASSUME NEW p \in Procs, SetThrow(p) \/ RevertThrow(p) PROVE TypeOK'
    BY <2>21 DEF TypeOK, SetThrow, RevertThrow
  <2>24. ASSUME NEW p \in Procs, NotifyThrow(p) PROVE TypeOK'
    BY <2>24 DEF TypeOK, NotifyThrow, Forget, Names
  <2>22. ASSUME NEW p \in Procs, ApplyThrow(p) PROVE TypeOK'
    BY <2>22 DEF TypeOK, ApplyThrow, Forget
  <2>23. ASSUME NEW p \in Procs, Kill(p) PROVE TypeOK'
    BY <2>23 DEF TypeOK, Kill, Forget, Freed
  <2> QED
    BY <2>1, <2>2, <2>3, <2>4, <2>5, <2>6, <2>7, <2>8, <2>9, <2>10, <2>11,
       <2>12, <2>13, <2>14, <2>15, <2>16, <2>17, <2>18, <2>19, <2>20, <2>21,
       <2>22, <2>23, <2>24
       DEF Next, Finished, Step, SetStep, ApplyStep, RevertStep, Fail
<1> QED
  BY <1>1, <1>2, PTL DEF Spec

-----------------------------------------------------------------------------
(* The semaphore and the file lock are each held by exactly the process    *)
(* inside a critical section they guard, whoever fails or is killed.       *)
THEOREM LocksCorrect == Spec => []LocksHeld
<1>1. Init => LocksHeld
  BY NoneAssumption DEF Init, LocksHeld, MutexHeld, FlockHeld,
     MutexLabels, FlockLabels
<1>2. TypeOK /\ LocksHeld /\ [Next]_vars => LocksHeld'
  <2> SUFFICES ASSUME TypeOK, LocksHeld, [Next]_vars PROVE LocksHeld'
    OBVIOUS
  <2> USE NoneAssumption
      DEF Goto, store, locals, LocksHeld, MutexHeld, FlockHeld,
          MutexLabels, FlockLabels
  <2>0. CASE UNCHANGED vars
    BY <2>0 DEF vars
  <2>1. ASSUME NEW p \in Procs, Start(p) PROVE LocksHeld'
    BY <2>1 DEF TypeOK, Start, StartSet, StartApply, StartRevert
  <2>2. ASSUME NEW p \in Procs, SetLock(p) PROVE LocksHeld'
    BY <2>2 DEF TypeOK, SetLock
  <2>3. ASSUME NEW p \in Procs, CommitCopy(p) PROVE LocksHeld'
    BY <2>3 DEF TypeOK, CommitCopy
  <2>4. ASSUME NEW p \in Procs, CommitSave(p) PROVE LocksHeld'
    BY <2>4 DEF TypeOK, CommitSave
  <2>5. ASSUME NEW p \in Procs, SetUnlock(p) PROVE LocksHeld'
    BY <2>5 DEF TypeOK, SetUnlock
  <2>6. ASSUME NEW p \in Procs, MarkDirty(p) PROVE LocksHeld'
    BY <2>6 DEF TypeOK, MarkDirty
  <2>7. ASSUME NEW p \in Procs, SetReturn(p) PROVE LocksHeld'
    BY <2>7 DEF TypeOK, SetReturn
  <2>8. ASSUME NEW p \in Procs, ApplyLock(p) PROVE LocksHeld'
    BY <2>8 DEF TypeOK, ApplyLock
  <2>9. ASSUME NEW p \in Procs, ApplyOpen(p) PROVE LocksHeld'
    BY <2>9 DEF TypeOK, ApplyOpen
  <2>10. ASSUME NEW p \in Procs, ApplySelect(p) PROVE LocksHeld'
    BY <2>10 DEF TypeOK, ApplySelect
  <2>11. ASSUME NEW p \in Procs, Deploy(p) PROVE LocksHeld'
    BY <2>11 DEF TypeOK, Deploy
  <2>12. ASSUME NEW p \in Procs, ApplyWrite(p) PROVE LocksHeld'
    BY <2>12 DEF TypeOK, ApplyWrite
  <2>13. ASSUME NEW p \in Procs, ApplyReturn(p) PROVE LocksHeld'
    BY <2>13 DEF TypeOK, ApplyReturn
  <2>14. ASSUME NEW p \in Procs, ApplyUnwind(p) PROVE LocksHeld'
    BY <2>14 DEF TypeOK, ApplyUnwind
  <2>15. ASSUME NEW p \in Procs, Unlink(p) PROVE LocksHeld'
    BY <2>15 DEF TypeOK, Unlink
  <2>16. ASSUME NEW p \in Procs, UnlinkDone(p) PROVE LocksHeld'
    BY <2>16 DEF TypeOK, UnlinkDone
  <2>17. ASSUME NEW p \in Procs, RevertOpen(p) PROVE LocksHeld'
    BY <2>17 DEF TypeOK, RevertOpen
  <2>18. ASSUME NEW p \in Procs, RevertLock(p) PROVE LocksHeld'
    BY <2>18 DEF TypeOK, RevertLock
  <2>19. ASSUME NEW p \in Procs, RevertCopy(p) PROVE LocksHeld'
    BY <2>19 DEF TypeOK, RevertCopy
  <2>20. ASSUME NEW p \in Procs, RevertNothing(p) PROVE LocksHeld'
    BY <2>20 DEF TypeOK, RevertNothing
  <2>21. ASSUME NEW p \in Procs, RevertUnwind(p) PROVE LocksHeld'
    BY <2>21 DEF TypeOK, RevertUnwind
  <2>22. ASSUME NEW p \in Procs, RevertUnlock(p) PROVE LocksHeld'
    BY <2>22 DEF TypeOK, RevertUnlock
  <2>23. ASSUME NEW p \in Procs, RevertWrite(p) PROVE LocksHeld'
    BY <2>23 DEF TypeOK, RevertWrite
  <2>24. ASSUME NEW p \in Procs, SetThrow(p) PROVE LocksHeld'
    BY <2>24 DEF TypeOK, SetThrow
  <2>25. ASSUME NEW p \in Procs, RevertThrow(p) PROVE LocksHeld'
    BY <2>25 DEF TypeOK, RevertThrow
  <2>26. ASSUME NEW p \in Procs, ApplyThrow(p) PROVE LocksHeld'
    BY <2>26 DEF TypeOK, ApplyThrow
  <2>27. ASSUME NEW p \in Procs, Kill(p) PROVE LocksHeld'
    BY <2>27 DEF TypeOK, Kill, Forget, Freed, Kind
  <2>28. ASSUME NEW p \in Procs, NotifyThrow(p) PROVE LocksHeld'
    BY <2>28 DEF TypeOK, NotifyThrow
  <2> QED
    BY <2>0, <2>1, <2>2, <2>3, <2>4, <2>5, <2>6, <2>7, <2>8, <2>9,
       <2>10, <2>11, <2>12, <2>13, <2>14, <2>15, <2>16, <2>17, <2>18, <2>19,
       <2>20, <2>21, <2>22, <2>23, <2>24, <2>25, <2>26, <2>27, <2>28
       DEF Next, Finished, Step, SetStep, ApplyStep, RevertStep, Fail
<1> QED
  BY <1>1, <1>2, TypeCorrect, PTL DEF Spec

(* No change, apply or revert writes config.xml, its revisions or the      *)
(* dirty list while some apply deploys.                                    *)
THEOREM FreezeCorrect == Spec => DeployFreezesConfig
<1>1. TypeOK /\ LocksHeld /\ [Next]_vars => [FreezeStep]_vars
  <2> SUFFICES ASSUME TypeOK, LocksHeld, Next,
                      NEW q \in Procs, pc[q] = "apply_deploy"
               PROVE  /\ UNCHANGED <<conf, revs>>
                      /\ dirty' # dirty => pc'[q] = "apply_unlink"
    BY DEF FreezeStep
  <2> DEFINE Frozen == /\ conf' = conf /\ revs' = revs
                       /\ dirty' # dirty => pc'[q] = "apply_unlink"
  <2> USE DEF Goto, store, locals, LocksHeld, MutexHeld, FlockHeld,
              MutexLabels, FlockLabels
  <2>1. mutex = q /\ flock = q /\ q # None
    BY NoneAssumption
  <2>2. ASSUME NEW p \in Procs, SetStep(p) PROVE Frozen
    BY <2>1, <2>2 DEF TypeOK, SetStep, SetLock, CommitCopy, CommitSave,
       SetUnlock, MarkDirty, SetReturn
  <2>3. ASSUME NEW p \in Procs, ApplyStep(p) PROVE Frozen
    BY <2>1, <2>3 DEF TypeOK, ApplyStep, ApplyLock, ApplyOpen, ApplySelect,
       Deploy, ApplyWrite, ApplyReturn, ApplyUnwind
  <2>4. ASSUME NEW p \in Procs, RevertStep(p) PROVE Frozen
    BY <2>1, <2>4 DEF TypeOK, RevertStep, RevertOpen, RevertLock, RevertCopy,
       RevertNothing, RevertUnwind, RevertUnlock, RevertWrite
  <2>5. ASSUME NEW p \in Procs, Unlink(p) \/ UnlinkDone(p) PROVE Frozen
    BY <2>1, <2>5 DEF TypeOK, Unlink, UnlinkDone
  <2>6. ASSUME NEW p \in Procs, Start(p) \/ Fail(p) PROVE Frozen
    BY <2>1, <2>6 DEF Start, StartSet, StartApply, StartRevert, Fail, SetThrow,
       NotifyThrow, ApplyThrow, RevertThrow, Kill
  <2>7. CASE Finished
    BY <2>7 DEF Finished, vars
  <2> QED
    BY <2>2, <2>3, <2>4, <2>5, <2>6, <2>7 DEF Next, Step
<1> QED
  BY <1>1, TypeCorrect, LocksCorrect, PTL DEF Spec, DeployFreezesConfig

-----------------------------------------------------------------------------
(* While an apply deploys, every dirty module is either to be kept in the  *)
(* list, still to be deployed, or has been deployed from config.xml as it  *)
(* is: what ApplyWrite relies on when it drops the module from the list.   *)
(* What it is to keep is in the list.                                      *)
Accounted(p) ==
  pc[p] = "apply_deploy" =>
    /\ keep[p] \subseteq dirty
    /\ \A m \in Modules \cap dirty : m \in keep[p] \/ m \in todo[p] \/ ~ Stale(m)

CleanInv == CleanIsDeployed /\ \A p \in Procs : Accounted(p)

NoRevert == \A p \in Procs : pc[p] \notin RevertLabels

CleanBase == TypeOK /\ LocksHeld /\ NoRevert

LEMMA CleanInvariant ==
  ASSUME "revert" \notin Ops, "set" \notin Mortal,
         Throwers = {}, Unsortable = {}
  PROVE  Spec => [](CleanBase /\ CleanInv)
<1>1. Init => NoRevert /\ CleanInv
  BY DEF Init, NoRevert, CleanInv, CleanIsDeployed, Stale, Accounted
<1>2. CleanBase /\ [Next]_vars => NoRevert'
  <2> SUFFICES ASSUME TypeOK, NoRevert, [Next]_vars PROVE NoRevert'
    BY DEF CleanBase
  <2> USE DEF Goto, TypeOK, NoRevert
  <2>1. CASE UNCHANGED vars
    BY <2>1 DEF vars
  <2>2. ASSUME NEW p \in Procs, SetStep(p) PROVE NoRevert'
    BY <2>2 DEF SetStep, SetLock, CommitCopy, CommitSave, SetUnlock, MarkDirty,
       SetReturn
  <2>3. ASSUME NEW p \in Procs, ApplyStep(p) PROVE NoRevert'
    BY <2>3 DEF ApplyStep, ApplyLock, ApplyOpen, ApplySelect, Deploy,
       ApplyWrite, ApplyReturn, ApplyUnwind
  <2>4. ASSUME NEW p \in Procs, RevertStep(p) PROVE NoRevert'
    BY <2>4 DEF RevertStep, RevertOpen, RevertLock, RevertCopy,
       RevertNothing, RevertUnwind, RevertUnlock, RevertWrite
  <2>5. ASSUME NEW p \in Procs, Unlink(p) \/ UnlinkDone(p) PROVE NoRevert'
    BY <2>5 DEF Unlink, UnlinkDone
  <2>6. ASSUME NEW p \in Procs, Start(p) \/ Fail(p) PROVE NoRevert'
    BY <2>6 DEF Start, StartSet, StartApply, StartRevert, Fail, SetThrow,
       NotifyThrow, ApplyThrow, RevertThrow, Kill
  <2> QED
    BY <2>1, <2>2, <2>3, <2>4, <2>5, <2>6 DEF Next, Finished, Step
<1>3. CleanBase /\ CleanInv /\ [Next]_vars => CleanInv'
  <2> SUFFICES ASSUME CleanBase, CleanInv, [Next]_vars PROVE CleanInv'
    OBVIOUS
  <2> USE DEF CleanBase, NoRevert, Goto, store, locals, CleanInv, CleanIsDeployed, Accounted, Stale,
              Announced
  <2>0. CASE UNCHANGED vars
    BY <2>0 DEF vars
  <2>1. ASSUME NEW p \in Procs, Start(p) PROVE CleanInv'
    BY <2>1 DEF TypeOK, Start, StartSet, StartApply, StartRevert
  <2>2. ASSUME NEW p \in Procs, SetLock(p) PROVE CleanInv'
    BY <2>2 DEF TypeOK, SetLock
  <2>3. ASSUME NEW p \in Procs, CommitCopy(p) PROVE CleanInv'
    BY <2>3 DEF TypeOK, CommitCopy
  <2>4. ASSUME NEW p \in Procs, CommitSave(p) PROVE CleanInv'
    <3>1. pc[p] = "set_save" /\ mutex = p
      BY <2>4 DEF CommitSave, LocksHeld, MutexHeld, MutexLabels
    <3>2. \A q \in Procs : pc[q] # "apply_deploy" /\ pc'[q] # "apply_deploy"
      BY <2>4, <3>1 DEF CommitSave, TypeOK, LocksHeld, MutexHeld, MutexLabels
    <3>3. PICK o \in Objects : /\ conf' = [conf EXCEPT ![o] = p]
                               /\ todo' = [todo EXCEPT ![p] = Listeners[o]]
      BY <2>4 DEF CommitSave
    <3>4. ASSUME NEW m \in Modules, m \in Listeners[o] PROVE Announced(m)'
      BY <2>4, <3>3, <3>4 DEF CommitSave, TypeOK
    <3>5. ASSUME NEW m \in Modules, m \notin Listeners[o]
          PROVE  Stale(m)' => Stale(m)
      BY <2>4, <3>3, <3>5 DEF CommitSave, TypeOK, Config, Affects
    <3>6. ASSUME NEW m \in Modules, Announced(m) PROVE Announced(m)'
      BY <2>4, <3>1, <3>3, <3>6 DEF CommitSave, TypeOK
    <3>7. CleanIsDeployed'
      BY <2>4, <3>4, <3>5, <3>6 DEF CommitSave
    <3> QED
      BY <3>2, <3>7
  <2>5. ASSUME NEW p \in Procs, SetUnlock(p) PROVE CleanInv'
    BY <2>5 DEF TypeOK, SetUnlock
  <2>6. ASSUME NEW p \in Procs, MarkDirty(p) PROVE CleanInv'
    <3>1. pc' = pc /\ flock = None /\ deployed' = deployed /\ conf' = conf
      BY <2>6 DEF MarkDirty
    <3>2. \A q \in Procs : pc'[q] # "apply_deploy"
      BY <3>1, NoneAssumption DEF LocksHeld, FlockHeld, FlockLabels
    <3>3. PICK m \in todo[p] : /\ dirty' = dirty \cup {m}
                               /\ todo' = [todo EXCEPT ![p] = @ \ {m}]
      BY <2>6 DEF MarkDirty
    <3>4. ASSUME NEW n \in Modules, Announced(n)
          PROVE  n \in dirty' \/ Announced(n)'
      BY <3>1, <3>3, <3>4 DEF TypeOK
    <3>5. CleanIsDeployed'
      BY <3>1, <3>3, <3>4 DEF Affects
    <3> QED
      BY <3>2, <3>5
  <2>7. ASSUME NEW p \in Procs, SetReturn(p) PROVE CleanInv'
    BY <2>7 DEF TypeOK, SetReturn
  <2>8. ASSUME NEW p \in Procs, ApplyLock(p) PROVE CleanInv'
    BY <2>8 DEF TypeOK, ApplyLock
  <2>9. ASSUME NEW p \in Procs, ApplyOpen(p) PROVE CleanInv'
    BY <2>9 DEF TypeOK, ApplyOpen
  <2>10. ASSUME NEW p \in Procs, ApplySelect(p) PROVE CleanInv'
    BY <2>10 DEF TypeOK, ApplySelect, ToDeploy
  <2>11. ASSUME NEW p \in Procs, Deploy(p) PROVE CleanInv'
    BY <2>11 DEF TypeOK, Deploy
  <2>12. ASSUME NEW p \in Procs, ApplyWrite(p) PROVE CleanInv'
    <3>1. /\ pc[p] = "apply_deploy" /\ flock = p /\ todo[p] = {}
          /\ dirty' = keep[p] /\ todo' = todo
          /\ deployed' = deployed /\ conf' = conf
      BY <2>12 DEF ApplyWrite, LocksHeld, FlockHeld, FlockLabels
    <3>2. \A q \in Procs : pc'[q] # "apply_deploy"
      BY <2>12, <3>1 DEF ApplyWrite, TypeOK, LocksHeld, FlockHeld, FlockLabels
    <3>3. ASSUME NEW m \in Modules, Stale(m), m \in dirty PROVE m \in dirty'
      BY <3>1, <3>3
    <3>4. ASSUME NEW m \in Modules, Announced(m) PROVE Announced(m)'
      BY <2>12, <3>1, <3>4 DEF ApplyWrite, TypeOK
    <3>5. CleanIsDeployed'
      BY <3>1, <3>3, <3>4 DEF Affects
    <3> QED
      BY <3>2, <3>5
  <2>13. ASSUME NEW p \in Procs, ApplyReturn(p) PROVE CleanInv'
    BY <2>13 DEF TypeOK, ApplyReturn
  <2>14. ASSUME NEW p \in Procs, ApplyUnwind(p) PROVE CleanInv'
    BY <2>14 DEF TypeOK, ApplyUnwind
  <2>15. ASSUME NEW p \in Procs, Unlink(p) PROVE CleanInv'
    BY <2>15 DEF TypeOK, Unlink
  <2>16. ASSUME NEW p \in Procs, UnlinkDone(p) PROVE CleanInv'
    BY <2>16 DEF TypeOK, UnlinkDone
  <2>17. ASSUME NEW p \in Procs, RevertOpen(p) PROVE CleanInv'
    BY <2>17 DEF TypeOK, RevertOpen
  <2>18. ASSUME NEW p \in Procs, RevertLock(p) PROVE CleanInv'
    BY <2>18 DEF TypeOK, RevertLock
  <2>19. ASSUME NEW p \in Procs, RevertCopy(p) PROVE CleanInv'
    BY <2>19 DEF TypeOK, RevertCopy
  <2>20. ASSUME NEW p \in Procs, RevertNothing(p) PROVE CleanInv'
    BY <2>20 DEF TypeOK, RevertNothing
  <2>21. ASSUME NEW p \in Procs, RevertUnwind(p) PROVE CleanInv'
    BY <2>21 DEF TypeOK, RevertUnwind
  <2>22. ASSUME NEW p \in Procs, RevertUnlock(p) PROVE CleanInv'
    BY <2>22 DEF TypeOK, RevertUnlock
  <2>23. ASSUME NEW p \in Procs, RevertWrite(p) PROVE CleanInv'
    BY <2>23 DEF TypeOK, RevertWrite
  <2>24. ASSUME NEW p \in Procs, SetThrow(p) PROVE CleanInv'
    BY <2>24 DEF TypeOK, SetThrow
  <2>25. ASSUME NEW p \in Procs, RevertThrow(p) PROVE CleanInv'
    BY <2>25 DEF TypeOK, RevertThrow
  <2>26. ASSUME NEW p \in Procs, ApplyThrow(p) PROVE CleanInv'
    BY <2>26 DEF TypeOK, ApplyThrow, Forget
  <2>27. ASSUME NEW p \in Procs, Kill(p) PROVE CleanInv'
    BY <2>27 DEF TypeOK, Kill, Forget, Freed, Kind
  <2>28. ASSUME NEW p \in Procs, NotifyThrow(p) PROVE FALSE
    BY <2>28 DEF NotifyThrow
  <2> QED
    BY <2>0, <2>1, <2>2, <2>3, <2>4, <2>5, <2>6, <2>7, <2>8, <2>9,
       <2>10, <2>11, <2>12, <2>13, <2>14, <2>15, <2>16, <2>17, <2>18,
       <2>19, <2>20, <2>21, <2>22, <2>23, <2>24, <2>25, <2>26, <2>27, <2>28
       DEF Next, Finished, Step, SetStep, ApplyStep, RevertStep, Fail
<1> QED
  BY <1>1, <1>2, <1>3, TypeCorrect, LocksCorrect, PTL DEF Spec, CleanBase

(* With changes and applies only, and no change killed between its commit  *)
(* and its notifications, isDirty never hides a module that is not         *)
(* deployed: for every number of concurrent, partial, failing and killed   *)
(* applies, if no listener throws and no circular order is declared.       *)
THEOREM CleanCorrect ==
  ASSUME "revert" \notin Ops, "set" \notin Mortal,
         Throwers = {}, Unsortable = {}
  PROVE  Spec => []CleanIsDeployed
<1>1. CleanInv => CleanIsDeployed
  BY DEF CleanInv
<1> QED
  BY <1>1, CleanInvariant, PTL

(* Modules that are neither added to nor taken from the pending ones ...   *)
SamePending ==
  /\ conf' = conf /\ deployed' = deployed
  /\ \A m \in Modules : (m \in dirty \/ Announced(m))
                        <=> (m \in dirty' \/ Announced(m)')

(* ... make a step of a request invisible to who sees pending changes only.*)
LEMMA Invisible ==
  ASSUME SamePending
  PROVE  UNCHANGED Promise!vars
<1>1. Pending' = Pending
  BY DEF SamePending, Pending
<1> QED
  BY <1>1 DEF SamePending, Promise!vars

(* However many changes and applies there are, and however applies fail or *)
(* are killed, they keep the promise of the pending changes, if no         *)
(* listener throws and no circular order is declared.                      *)
THEOREM PromiseKept ==
  ASSUME "revert" \notin Ops, "set" \notin Mortal,
         Throwers = {}, Unsortable = {}
  PROVE  Spec => ImplementsPromise
<1>1. Init => Promise!Init
  BY RemovedAssumption DEF Init, Promise!Init, Pending, Announced
<1>2. CleanBase /\ CleanInv /\ [Next]_vars => [Promise!Next]_(Promise!vars)
  <2> SUFFICES ASSUME CleanBase, CleanInv, [Next]_vars
               PROVE  Promise!Next \/ UNCHANGED Promise!vars
    OBVIOUS
  <2> USE DEF Goto, store, locals, CleanBase
  <2>1. CASE UNCHANGED vars
    <3>1. SamePending
      BY <2>1 DEF vars, SamePending, Announced
    <3> QED
      BY <3>1, Invisible
  <2>2. ASSUME NEW p \in Procs, CommitSave(p) PROVE Promise!Next
    <3>1. PICK o \in Objects : /\ conf' = [conf EXCEPT ![o] = p]
                               /\ todo' = [todo EXCEPT ![p] = Listeners[o]]
      BY <2>2 DEF CommitSave
    <3>2. pc[p] = "set_save" /\ pc' = [pc EXCEPT ![p] = "set_unlock"]
          /\ dirty' = dirty /\ deployed' = deployed
      BY <2>2 DEF CommitSave
    <3>3. ASSUME NEW m \in Modules
          PROVE  Announced(m)' <=> Announced(m) \/ m \in Listeners[o]
      BY <3>1, <3>2 DEF TypeOK, Announced
    <3>4. Pending' = Pending \cup Listeners[o]
      BY <3>2, <3>3, ListenersAssumption DEF Pending
    <3>5. Promise!Change(o)
      BY <3>1, <3>2, <3>4 DEF Promise!Change, Values
    <3> QED
      BY <3>5 DEF Promise!Next
  <2>3. ASSUME NEW p \in Procs, Deploy(p) PROVE Promise!Next
    <3>1. PICK m \in todo[p] : /\ deployed' = [deployed EXCEPT ![m] = conf]
                               /\ todo' = [todo EXCEPT ![p] = @ \ {m}]
      BY <2>3 DEF Deploy
    <3>2. Pending' = Pending
      BY <2>3, <3>1 DEF Deploy, Pending, Announced, TypeOK
    <3>3. m \in Modules /\ Promise!Deploy(m)
      BY <2>3, <3>1, <3>2 DEF Deploy, Promise!Deploy, TypeOK
    <3> QED
      BY <3>3 DEF Promise!Next
  <2>4. ASSUME NEW p \in Procs, ApplyThrow(p)
        PROVE  Promise!Next \/ UNCHANGED Promise!vars
    <3>1. pc[p] \in {"apply_select", "apply_deploy"}
          /\ pc' = [pc EXCEPT ![p] = "apply_unwind"]
          /\ todo' = [todo EXCEPT ![p] = {}] /\ dirty' = dirty /\ conf' = conf
      BY <2>4 DEF ApplyThrow, Forget
    <3>2. \A m \in Modules : Announced(m)' <=> Announced(m)
      BY <3>1 DEF Announced, TypeOK
    <3>3. Pending' = Pending
      BY <3>1, <3>2 DEF Pending
    <3>4. CASE deployed' = deployed
      BY <3>1, <3>3, <3>4 DEF Promise!vars
    <3>5. CASE \E m \in todo[p] : deployed' = [deployed EXCEPT ![m] = conf]
      BY <3>1, <3>3, <3>5 DEF Promise!Deploy, Promise!Next, TypeOK
    <3> QED
      BY <2>4, <3>4, <3>5 DEF ApplyThrow
  <2>5. ASSUME NEW p \in Procs, ApplyWrite(p) PROVE Promise!Next
    <3>1. /\ pc[p] = "apply_deploy" /\ todo[p] = {} /\ dirty' = keep[p]
          /\ pc' = [pc EXCEPT ![p] = "apply_unlink"]
          /\ todo' = todo /\ deployed' = deployed /\ conf' = conf
      BY <2>5 DEF ApplyWrite
    <3>2. \A m \in Modules : Announced(m)' <=> Announced(m)
      BY <3>1 DEF Announced, TypeOK
    <3>3. keep[p] \subseteq dirty
      BY <3>1 DEF CleanInv, Accounted
    <3>4. Pending' \subseteq Pending
      BY <3>1, <3>2, <3>3 DEF Pending
    <3>5. ASSUME NEW m \in Pending \ Pending' PROVE ~ Stale(m)
      BY <3>1, <3>2, <3>5 DEF Pending, CleanInv, Accounted
    <3>6. \A m \in Pending \ Pending' : Promise!Current(m)
      BY <3>5 DEF Stale, Affects, Promise!Current
    <3> QED
      BY <3>1, <3>4, <3>6 DEF Promise!Applied, Promise!Next
  <2>6. ASSUME NEW p \in Procs, MarkDirty(p) PROVE SamePending
    <3>1. PICK m \in todo[p] : /\ dirty' = dirty \cup {m}
                               /\ todo' = [todo EXCEPT ![p] = @ \ {m}]
      BY <2>6 DEF MarkDirty
    <3> QED
      BY <2>6, <3>1 DEF MarkDirty, SamePending, Announced, TypeOK
  <2>7. ASSUME NEW p \in Procs,
               SetLock(p) \/ CommitCopy(p) \/ SetUnlock(p) \/ SetReturn(p)
                 \/ SetThrow(p)
        PROVE  SamePending
    BY <2>7 DEF SetLock, CommitCopy, SetUnlock, SetReturn, SetThrow,
       SamePending, Announced, TypeOK
  <2>8. ASSUME NEW p \in Procs,
               ApplyLock(p) \/ ApplyOpen(p) \/ ApplyReturn(p) \/ ApplyUnwind(p)
                 \/ Unlink(p) \/ UnlinkDone(p)
        PROVE  SamePending
    BY <2>8 DEF ApplyLock, ApplyOpen, ApplyReturn, ApplyUnwind, Unlink,
       UnlinkDone, SamePending, Announced, TypeOK
  <2>9. ASSUME NEW p \in Procs, ApplySelect(p) PROVE SamePending
    BY <2>9 DEF ApplySelect, ToDeploy, SamePending, Announced, TypeOK
  <2>10. ASSUME NEW p \in Procs, RevertStep(p) \/ RevertThrow(p) PROVE FALSE
    BY <2>10 DEF RevertStep, RevertOpen, RevertLock, RevertCopy,
       RevertNothing, RevertUnwind, RevertUnlock, RevertWrite, RevertThrow,
       NoRevert
  <2>11. ASSUME NEW p \in Procs, Start(p) PROVE SamePending
    BY <2>11 DEF Start, StartSet, StartApply, StartRevert, SamePending,
       Announced, TypeOK
  <2>12. ASSUME NEW p \in Procs, Kill(p) PROVE SamePending
    BY <2>12 DEF Kill, Kind, Forget, SamePending, Announced, TypeOK
  <2>13. ASSUME NEW p \in Procs, NotifyThrow(p) PROVE FALSE
    BY <2>13 DEF NotifyThrow
  <2> QED
    BY <2>1, <2>2, <2>3, <2>4, <2>5, <2>6, <2>7, <2>8, <2>9, <2>10, <2>11,
       <2>12, <2>13, Invisible
       DEF Next, Finished, Step, SetStep, ApplyStep, RevertStep, Fail
<1> QED
  BY <1>1, <1>2, CleanInvariant, PTL DEF Spec, ImplementsPromise, Promise!Spec

-----------------------------------------------------------------------------
(* A commit saves the document only after it has made a revision file.     *)
CopiedBeforeSave == \A p \in Procs : pc[p] = "set_save" => revs # <<>>

LEMMA FirstRevisionStays ==
  ASSUME NEW s \in Seq(Config), NEW c \in Config
  PROVE  /\ Append(s, c) # <<>>
         /\ Head(Append(s, c)) = IF s = <<>> THEN c ELSE Head(s)
<1>1. /\ Len(Append(s, c)) = Len(s) + 1 /\ Len(s) \in Nat
      /\ Append(s, c) \in Seq(Config)
  OBVIOUS
<1>2. Append(s, c) # <<>>
  BY <1>1
<1>3. CASE s = <<>>
  BY <1>3
<1>4. CASE s # <<>>
  <2>1. Len(s) >= 1
    BY <1>4, <1>1
  <2>2. Append(s, c)[1] = s[1]
    BY <2>1
  <2> QED
    BY <1>1, <1>2, <1>4, <2>2
<1> QED
  BY <1>2, <1>3, <1>4

(* As long as no apply or revert is killed while it unlinks the revisions, *)
(* the oldest revision is what the last complete one left, for any number  *)
(* of concurrent changes, failing or killed.                               *)
THEOREM BaselineCorrect ==
  ASSUME Mortal \subseteq {"set"}
  PROVE  Spec => []OldestRevisionIsBaseline
<1> DEFINE Quiet == \A p \in Procs : pc[p] \notin {"apply_unlink", "revert_unlink"}
           Kept  == Quiet => baseline = IF revs = <<>> THEN conf ELSE Head(revs)
           Base == TypeOK /\ LocksHeld
<1>1. Init => Kept /\ CopiedBeforeSave
  BY DEF Init, CopiedBeforeSave
<1>2. Base /\ Kept /\ CopiedBeforeSave /\ [Next]_vars
        => Kept' /\ CopiedBeforeSave'
  <2> SUFFICES ASSUME TypeOK, LocksHeld, Kept, CopiedBeforeSave, [Next]_vars
               PROVE  Kept' /\ CopiedBeforeSave'
    OBVIOUS
  <2> USE NoneAssumption
      DEF Goto, TypeOK, LocksHeld, MutexHeld, MutexLabels, store,
          CopiedBeforeSave
  <2>1. CASE UNCHANGED vars
    BY <2>1 DEF vars
  <2>2. ASSUME NEW p \in Procs, CommitCopy(p)
        PROVE  Kept' /\ CopiedBeforeSave'
    BY <2>2, FirstRevisionStays DEF CommitCopy
  <2>3. ASSUME NEW p \in Procs, CommitSave(p)
        PROVE  Kept' /\ CopiedBeforeSave'
    BY <2>3 DEF CommitSave
  <2>4. ASSUME NEW p \in Procs,
               SetLock(p) \/ SetUnlock(p) \/ MarkDirty(p) \/ SetReturn(p)
        PROVE  Kept' /\ CopiedBeforeSave'
    BY <2>4 DEF SetLock, SetUnlock, MarkDirty, SetReturn
  <2>5. ASSUME NEW p \in Procs, ApplyStep(p)
        PROVE  Kept' /\ CopiedBeforeSave'
    BY <2>5 DEF ApplyStep, ApplyLock, ApplyOpen, ApplySelect, Deploy,
       ApplyWrite, ApplyReturn, ApplyUnwind
  <2>6. ASSUME NEW p \in Procs, RevertStep(p)
        PROVE  Kept' /\ CopiedBeforeSave'
    BY <2>6 DEF RevertStep, RevertOpen, RevertLock, RevertCopy,
       RevertNothing, RevertUnwind, RevertUnlock, RevertWrite
  <2>7. ASSUME NEW p \in Procs, Unlink(p)
        PROVE  Kept' /\ CopiedBeforeSave'
    BY <2>7 DEF Unlink
  <2>8. ASSUME NEW p \in Procs, UnlinkDone(p)
        PROVE  Kept' /\ CopiedBeforeSave'
    BY <2>8 DEF UnlinkDone
  <2>9. ASSUME NEW p \in Procs, Start(p)
        PROVE  Kept' /\ CopiedBeforeSave'
    BY <2>9 DEF Start, StartSet, StartApply, StartRevert
  <2>10. ASSUME NEW p \in Procs,
                SetThrow(p) \/ NotifyThrow(p) \/ ApplyThrow(p) \/ RevertThrow(p)
         PROVE  Kept' /\ CopiedBeforeSave'
    BY <2>10 DEF SetThrow, NotifyThrow, ApplyThrow, RevertThrow
  <2>11. ASSUME NEW p \in Procs, Kill(p)
         PROVE  Kept' /\ CopiedBeforeSave'
    BY <2>11 DEF Kill, Kind
  <2> QED
    BY <2>1, <2>2, <2>3, <2>4, <2>5, <2>6, <2>7, <2>8, <2>9, <2>10, <2>11
       DEF Next, Finished, Step, SetStep, Fail
<1>3. Kept => OldestRevisionIsBaseline
  BY DEF OldestRevisionIsBaseline
<1> HIDE DEF Kept
<1> QED
  BY <1>1, <1>2, <1>3, TypeCorrect, LocksCorrect, PTL DEF Spec

(* A revert without a backup file goes back to the state the last complete *)
(* apply or revert left: it holds the semaphore, so that nobody is in the  *)
(* middle of unlinking the revisions when it copies the oldest.            *)
THEOREM RevertCorrect ==
  ASSUME Mortal \subseteq {"set"}
  PROVE  Spec => RevertGoesBack
<1> DEFINE Restores(p) == pc[p] = "revert_copy" /\ pc'[p] = "revert_unlink"
                            => conf' \in Backups \cup {baseline}
<1>1. TypeOK /\ LocksHeld /\ OldestRevisionIsBaseline /\ [Next]_vars
        => [\A p \in Procs : Restores(p)]_vars
  <2> SUFFICES ASSUME TypeOK, LocksHeld, OldestRevisionIsBaseline, Next,
                      NEW q \in Procs,
                      pc[q] = "revert_copy", pc'[q] = "revert_unlink"
               PROVE  conf' \in Backups \cup {baseline}
    OBVIOUS
  <2> USE DEF Goto, TypeOK
  <2>1. \A p \in Procs : pc[p] \notin {"apply_unlink", "revert_unlink"}
    BY NoneAssumption DEF LocksHeld, MutexHeld, MutexLabels
  <2>2. baseline = IF revs = <<>> THEN conf ELSE Head(revs)
    BY <2>1 DEF OldestRevisionIsBaseline
  <2>3. ASSUME NEW p \in Procs, Start(p) \/ Step(p) \/ Fail(p), ~ RevertCopy(p)
        PROVE  FALSE
    <3>1. CASE SetStep(p)
      BY <3>1 DEF SetStep, SetLock, CommitCopy, CommitSave, SetUnlock,
         MarkDirty, SetReturn
    <3>2. CASE ApplyStep(p)
      BY <3>2 DEF ApplyStep, ApplyLock, ApplyOpen, ApplySelect, Deploy,
         ApplyWrite, ApplyReturn, ApplyUnwind
    <3>3. CASE RevertStep(p)
      BY <2>3, <3>3 DEF RevertStep, RevertOpen, RevertLock, RevertNothing,
         RevertUnlock, RevertWrite, RevertUnwind
    <3>4. CASE Unlink(p) \/ UnlinkDone(p)
      BY <3>4 DEF Unlink, UnlinkDone
    <3>5. CASE Start(p) \/ Fail(p)
      BY <3>5 DEF Start, StartSet, StartApply, StartRevert, Fail, SetThrow,
         NotifyThrow, ApplyThrow, RevertThrow, Kill
    <3> QED
      BY <2>3, <3>1, <3>2, <3>3, <3>4, <3>5 DEF Step
  <2>4. CASE Finished
    BY <2>4 DEF Finished, vars
  <2>5. ASSUME NEW p \in Procs, RevertCopy(p)
        PROVE  conf' \in Backups \cup {baseline}
    BY <2>2, <2>5 DEF RevertCopy
  <2> QED
    BY <2>3, <2>4, <2>5 DEF Next
<1> QED
  BY <1>1, TypeCorrect, LocksCorrect, BaselineCorrect, PTL
     DEF Spec, RevertGoesBack

-----------------------------------------------------------------------------
(* Without applies the modules keep the configuration that a revert goes   *)
(* back to.  Until the revert has emptied the dirty list, which it does    *)
(* after it has freed the semaphore, others may commit changes but mark no *)
(* module: whoever has made a module stale by then is yet to announce it.  *)
NoApply == \A p \in Procs : pc[p] \notin ApplyLabels

Restored == \A p \in Procs :
  pc[p] \in {"revert_unlink", "revert_unlock"} => conf = baseline

Unmarked == \A p \in Procs :
  pc[p] = "revert_write" => \A m \in Modules : Stale(m) => Announced(m)

RevertInv == /\ \A m \in Modules : deployed[m] = baseline
             /\ Restored /\ Unmarked /\ CleanIsDeployed

RevertBase ==
  TypeOK /\ LocksHeld /\ OldestRevisionIsBaseline /\ NoApply

LEMMA NoApplyInvariant ==
  ASSUME "apply" \notin Ops
  PROVE  Spec => []NoApply
<1>1. Init => NoApply
  BY DEF Init, NoApply
<1>2. TypeOK /\ NoApply /\ [Next]_vars => NoApply'
  <2> SUFFICES ASSUME TypeOK, NoApply, [Next]_vars PROVE NoApply'
    OBVIOUS
  <2> USE DEF Goto, TypeOK, NoApply
  <2>1. CASE UNCHANGED vars
    BY <2>1 DEF vars
  <2>2. ASSUME NEW p \in Procs, SetStep(p) PROVE NoApply'
    BY <2>2 DEF SetStep, SetLock, CommitCopy, CommitSave, SetUnlock, MarkDirty,
       SetReturn
  <2>3. ASSUME NEW p \in Procs, ApplyStep(p) PROVE NoApply'
    BY <2>3 DEF ApplyStep, ApplyLock, ApplyOpen, ApplySelect, Deploy,
       ApplyWrite, ApplyReturn, ApplyUnwind
  <2>4. ASSUME NEW p \in Procs, RevertStep(p) PROVE NoApply'
    BY <2>4 DEF RevertStep, RevertOpen, RevertLock, RevertCopy,
       RevertNothing, RevertUnwind, RevertUnlock, RevertWrite
  <2>5. ASSUME NEW p \in Procs, Unlink(p) \/ UnlinkDone(p) PROVE NoApply'
    BY <2>5 DEF Unlink, UnlinkDone
  <2>6. ASSUME NEW p \in Procs, Start(p) \/ Fail(p) PROVE NoApply'
    BY <2>6 DEF Start, StartSet, StartApply, StartRevert, Fail, SetThrow,
       NotifyThrow, ApplyThrow, RevertThrow, Kill
  <2> QED
    BY <2>1, <2>2, <2>3, <2>4, <2>5, <2>6 DEF Next, Finished, Step
<1> QED
  BY <1>1, <1>2, TypeCorrect, PTL DEF Spec

(* The announcements of a set survive its commit and that of others; only  *)
(* marking a module dirty ends one.                                        *)
LEMMA CommitAnnounces ==
  ASSUME TypeOK, NEW p \in Procs, CommitSave(p), NEW m \in Modules
  PROVE  /\ Announced(m) => Announced(m)'
         /\ Stale(m)' => Stale(m) \/ Announced(m)'
<1> USE DEF Goto, TypeOK, Announced
<1>1. PICK o \in Objects : /\ conf' = [conf EXCEPT ![o] = p]
                           /\ todo' = [todo EXCEPT ![p] = Listeners[o]]
  BY DEF CommitSave
<1>2. /\ pc[p] = "set_save" /\ pc' = [pc EXCEPT ![p] = "set_unlock"]
      /\ deployed' = deployed
  BY DEF CommitSave
<1>3. Announced(m) => Announced(m)'
  BY <1>1, <1>2
<1>4. CASE m \in Listeners[o]
  BY <1>1, <1>2, <1>3, <1>4
<1>5. CASE m \notin Listeners[o]
  <2>1. Stale(m)' => Stale(m)
    BY <1>1, <1>2, <1>5 DEF Stale, Affects, Config
  <2> QED
    BY <1>3, <2>1
<1> QED
  BY <1>4, <1>5

(* However many changes and reverts to a revision there are, and however   *)
(* they fail before the commit, no module that has to be deployed is       *)
(* missed.  It takes an apply that deploys some of the modules, a restored *)
(* backup, a kill or a listener that throws to leave a module behind that  *)
(* differs and is not dirty.                                               *)
THEOREM RevertsStayClean ==
  ASSUME "apply" \notin Ops, Backups = {}, Mortal = {}, Throwers = {}
  PROVE  Spec => []CleanIsDeployed
<1>1. Init => RevertInv
  BY DEF Init, RevertInv, Restored, Unmarked, CleanIsDeployed, Stale
<1>2. RevertBase /\ RevertInv /\ [Next]_vars => RevertInv'
  <2> SUFFICES ASSUME RevertBase, RevertInv, [Next]_vars PROVE RevertInv'
    OBVIOUS
  <2> USE NoneAssumption
      DEF RevertBase, RevertInv, Restored, Unmarked, CleanIsDeployed, NoApply,
          Goto, store, locals, TypeOK
  <2>0. CASE UNCHANGED vars
    BY <2>0 DEF vars, Stale, Announced
  <2>1. ASSUME NEW p \in Procs, Start(p) PROVE RevertInv'
    BY <2>1 DEF Start, StartSet, StartApply, StartRevert, Stale, Announced
  <2>2. ASSUME NEW p \in Procs, SetLock(p) PROVE RevertInv'
    BY <2>2 DEF SetLock, Stale, Announced
  <2>3. ASSUME NEW p \in Procs, CommitCopy(p) PROVE RevertInv'
    BY <2>3 DEF CommitCopy, Stale, Announced
  <2>4. ASSUME NEW p \in Procs, CommitSave(p) PROVE RevertInv'
    <3>1. /\ pc[p] = "set_save" /\ pc' = [pc EXCEPT ![p] = "set_unlock"]
          /\ deployed' = deployed /\ baseline' = baseline /\ dirty' = dirty
      BY <2>4 DEF CommitSave
    <3>2. \A q \in Procs : pc'[q] \notin {"revert_unlink", "revert_unlock"}
      BY <3>1 DEF LocksHeld, MutexHeld, MutexLabels
    <3>3. \A q \in Procs : pc'[q] = "revert_write" => pc[q] = "revert_write"
      BY <3>1
    <3> QED
      BY <2>4, <3>1, <3>2, <3>3, CommitAnnounces
  <2>5. ASSUME NEW p \in Procs, SetUnlock(p) PROVE RevertInv'
    BY <2>5 DEF SetUnlock, Stale, Announced
  <2>6. ASSUME NEW p \in Procs, MarkDirty(p) PROVE RevertInv'
    <3>1. PICK m \in todo[p] : /\ dirty' = dirty \cup {m}
                               /\ todo' = [todo EXCEPT ![p] = @ \ {m}]
      BY <2>6 DEF MarkDirty
    <3>2. /\ pc' = pc /\ flock = None /\ deployed' = deployed /\ conf' = conf
          /\ baseline' = baseline
      BY <2>6 DEF MarkDirty
    <3>3. \A q \in Procs : pc'[q] # "revert_write"
      BY <3>2 DEF LocksHeld, FlockHeld, FlockLabels
    <3>4. \A n \in Modules : Announced(n) => n \in dirty' \/ Announced(n)'
      BY <3>1, <3>2 DEF Announced
    <3>5. \A n \in Modules : Stale(n)' => Stale(n)
      BY <3>2 DEF Stale
    <3> QED
      BY <3>1, <3>2, <3>3, <3>4, <3>5
  <2>7. ASSUME NEW p \in Procs, SetReturn(p) PROVE RevertInv'
    BY <2>7 DEF SetReturn, Stale, Announced
  <2>8. ASSUME NEW p \in Procs, ApplyStep(p) PROVE FALSE
    BY <2>8 DEF ApplyStep, ApplyLock, ApplyOpen, ApplySelect, Deploy,
       ApplyWrite, ApplyReturn, ApplyUnwind
  <2>9. ASSUME NEW p \in Procs, Unlink(p) PROVE RevertInv'
    BY <2>9 DEF Unlink, Stale, Announced
  <2>10. ASSUME NEW p \in Procs, UnlinkDone(p) PROVE RevertInv'
    <3>1. pc[p] = "revert_unlink" /\ baseline' = conf
      BY <2>10 DEF UnlinkDone
    <3>2. baseline' = baseline
      BY <3>1
    <3> QED
      BY <2>10, <3>2 DEF UnlinkDone, Stale, Announced
  <2>11. ASSUME NEW p \in Procs, RevertOpen(p) \/ RevertLock(p)
         PROVE  RevertInv'
    BY <2>11 DEF RevertOpen, RevertLock, Stale, Announced
  <2>12. ASSUME NEW p \in Procs, RevertCopy(p) \/ RevertNothing(p)
         PROVE  RevertInv'
    <3>1. \A q \in Procs : pc[q] \notin {"apply_unlink", "revert_unlink"}
      BY <2>12 DEF RevertCopy, RevertNothing, LocksHeld, MutexHeld, MutexLabels
    <3>2. conf' = baseline
      BY <2>12, <3>1 DEF RevertCopy, RevertNothing, OldestRevisionIsBaseline
    <3>3. deployed' = deployed /\ baseline' = baseline
      BY <2>12 DEF RevertCopy, RevertNothing
    <3>4. \A m \in Modules : ~ Stale(m)'
      BY <3>2, <3>3 DEF Stale
    <3> QED
      BY <3>2, <3>3, <3>4
  <2>13. ASSUME NEW p \in Procs, RevertUnlock(p) PROVE RevertInv'
    <3>1. /\ pc[p] = "revert_unlock" /\ pc' = [pc EXCEPT ![p] = "revert_write"]
          /\ deployed' = deployed /\ baseline' = baseline /\ conf' = conf
      BY <2>13 DEF RevertUnlock
    <3>2. conf = baseline
      BY <3>1
    <3>3. \A m \in Modules : ~ Stale(m)'
      BY <3>1, <3>2 DEF Stale
    <3> QED
      BY <3>1, <3>2, <3>3
  <2>14. ASSUME NEW p \in Procs, RevertWrite(p) PROVE RevertInv'
    <3>1. /\ pc[p] = "revert_write" /\ pc' = [pc EXCEPT ![p] = "done"]
          /\ deployed' = deployed /\ baseline' = baseline /\ conf' = conf
          /\ todo' = todo
      BY <2>14 DEF RevertWrite
    <3>2. \A m \in Modules : Stale(m) => Announced(m)
      BY <3>1
    <3>3. \A m \in Modules : /\ Announced(m) => Announced(m)'
                             /\ Stale(m)' => Stale(m)
      BY <3>1 DEF Announced, Stale
    <3> QED
      BY <3>1, <3>2, <3>3
  <2>15. ASSUME NEW p \in Procs, RevertUnwind(p) PROVE RevertInv'
    BY <2>15 DEF RevertUnwind, Stale, Announced
  <2>16. ASSUME NEW p \in Procs, SetThrow(p) \/ RevertThrow(p)
         PROVE  RevertInv'
    BY <2>16 DEF SetThrow, RevertThrow, Stale, Announced
  <2>17. ASSUME NEW p \in Procs, NotifyThrow(p) \/ ApplyThrow(p) \/ Kill(p)
         PROVE  FALSE
    BY <2>17 DEF NotifyThrow, ApplyThrow, Kill
  <2> QED
    BY <2>0, <2>1, <2>2, <2>3, <2>4, <2>5, <2>6, <2>7, <2>8, <2>9, <2>10,
       <2>11, <2>12, <2>13, <2>14, <2>15, <2>16, <2>17
       DEF Next, Finished, Step, SetStep, RevertStep, Fail
<1>3. RevertInv => CleanIsDeployed
  BY DEF RevertInv
<1>4. Spec => []OldestRevisionIsBaseline
  BY BaselineCorrect
<1> QED
  BY <1>1, <1>2, <1>3, <1>4, TypeCorrect, LocksCorrect, NoApplyInvariant, PTL
     DEF Spec, RevertBase
=============================================================================
