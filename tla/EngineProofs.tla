---------------------------- MODULE EngineProofs ----------------------------
(***************************************************************************)
(* The daemon keeps account of its workers.  The composition implements    *)
(* both of its parts, whose theorems hold of it therefore; and the answers *)
(* are true.                                                               *)
(***************************************************************************)
EXTENDS Engine, TaskQueueProofs

-----------------------------------------------------------------------------
(* The daemon under any number of requests and faults: it keeps account of *)
(* its workers, and stops with all of them.                                *)

(* $children are the workers to be reaped; who is not among them lost his  *)
(* daemon.                                                                 *)
ChildrenKept ==
  /\ \A r \in Requests : Alive(r) \/ worker[r] = "zombie"
                           => r \in children \cup orphans
  /\ ~Up => children = {}

(* Only a daemon that stops has somebody to signal; it reads from a        *)
(* connection; and who still tries to connect has an attempt left.         *)
LoopKept ==
  /\ daemon # "stop" => unkilled = {}
  /\ daemon = "read" => conn \in Requests
  /\ \A r \in Requests : caller[r] = "connect" => attempt[r] < MaxAttempt

DaemonInv == DaemonTypeOK /\ ChildrenKept /\ LoopKept

-----------------------------------------------------------------------------
LEMMA DaemonInitInv == DaemonInit => DaemonInv
<1> SUFFICES ASSUME DaemonInit PROVE DaemonInv
  OBVIOUS
<1>1. DaemonTypeOK
  <2>1. <<>> \in Seq(Requests)
    OBVIOUS
  <2>2. 0 \in 0 .. MaxAttempt /\ 0 \in 0 .. MaxFaults
    BY BoundsAssumption
  <2> QED
    BY <2>1, <2>2
    DEF DaemonInit, DaemonTypeOK, DaemonLabels, WorkerLabels, CallerLabels,
        Answers
<1>2. ChildrenKept /\ LoopKept
  BY BoundsAssumption DEF DaemonInit, ChildrenKept, LoopKept, Alive, Up
<1> QED
  BY <1>1, <1>2 DEF DaemonInv

(* The callers touch nothing but the backlog and what is their own.        *)
LEMMA CallerInv ==
  ASSUME DaemonInv, NEW r \in Requests, CallerStep(r) \/ CallerDies(r)
  PROVE  DaemonInv'
<1> USE RequestsAssumption, BoundsAssumption
    DEF DaemonInv, DaemonTypeOK, ChildrenKept, LoopKept, Alive, Up,
        DaemonLabels, WorkerLabels, CallerLabels, Answers, flags, calls, links,
        others
<1>1. CASE Connect(r)
  BY <1>1 DEF Connect, CallerTo, serverVars
<1>2. CASE ConnectFails(r)
  BY <1>2 DEF ConnectFails, CallerTo, serverVars
<1>3. CASE Write(r)
  BY <1>3 DEF Write, CallerTo, serverVars
<1>4. CASE WriteFails(r)
  BY <1>4 DEF WriteFails, CallerTo, serverVars
<1>5. CASE ReadReply(r)
  BY <1>5 DEF ReadReply, CallerTo, serverVars
<1>6. CASE ReadEnd(r)
  BY <1>6 DEF ReadEnd, CallerTo, serverVars
<1>7. CASE Timeout(r)
  BY <1>7 DEF Timeout, CallerTo, serverVars
<1>8. CASE CallerDies(r)
  BY <1>8 DEF CallerDies, Fault, serverVars
<1> QED
  BY <1>1, <1>2, <1>3, <1>4, <1>5, <1>6, <1>7, <1>8 DEF CallerStep

(* A worker is recorded in the step that forks it, and forgotten in the    *)
(* step that reaps it; the daemon is down only when nobody is recorded.    *)
LEMMA LoopInv ==
  ASSUME DaemonInv, DaemonStep
  PROVE  DaemonInv'
<1> USE RequestsAssumption, BoundsAssumption
    DEF DaemonInv, DaemonTypeOK, ChildrenKept, LoopKept, Alive, Up,
        DaemonLabels, WorkerLabels, CallerLabels, Answers, flags, calls, links,
        others
<1>1. CASE Reap
  BY <1>1 DEF Reap, HandleSigChld, Zombies
<1>2. CASE Loop
  BY <1>2 DEF Loop, DaemonTo, Dispatch
<1>3. CASE SelectNone
  BY <1>3 DEF SelectNone, DaemonTo
<1>4. CASE SelectSignal
  BY <1>4 DEF SelectSignal, DaemonTo, Dispatch
<1>5. CASE Accept
  BY <1>5 DEF Accept, DaemonTo
<1>6. CASE Fork
  BY <1>6 DEF Fork, ForkWorker, DaemonTo
<1>7. CASE Stop
  BY <1>7 DEF Stop, DaemonTo
<1>8. CASE Wait
  BY <1>8 DEF Wait, HandleSigChld, Zombies
<1>9. CASE Cleanup
  BY <1>9 DEF Cleanup, DaemonTo
<1> QED
  BY <1>1, <1>2, <1>3, <1>4, <1>5, <1>6, <1>7, <1>8, <1>9 DEF DaemonStep

(* A daemon that crashes leaves its workers as orphans.                    *)
LEMMA SignalInv ==
  ASSUME DaemonInv,
         Terminate \/ Crash \/ Start \/ \E r \in Requests : KillChild(r)
  PROVE  DaemonInv'
<1> USE RequestsAssumption, BoundsAssumption
    DEF DaemonInv, DaemonTypeOK, ChildrenKept, LoopKept, Alive, Up,
        DaemonLabels, WorkerLabels, CallerLabels, Answers, flags, calls, links,
        others
<1>1. CASE Terminate
  BY <1>1 DEF Terminate, Fault
<1>2. CASE Crash
  BY <1>2 DEF Crash, Fault, Zombies
<1>3. CASE Start
  <2>1. DaemonTypeOK'
    <3>1. <<>> \in Seq(Requests)
      OBVIOUS
    <3> QED
      BY <1>3, <3>1 DEF Start
  <2>2. ChildrenKept' /\ LoopKept'
    BY <1>3 DEF Start
  <2> QED
    BY <2>1, <2>2
<1>4. CASE \E r \in Requests : KillChild(r)
  BY <1>4 DEF KillChild
<1> QED
  BY <1>1, <1>2, <1>3, <1>4 DEF KillChild

(* A worker that ends is a zombie exactly when it is recorded.             *)
LEMMA WorkerInv ==
  ASSUME DaemonInv, NEW r \in Requests, WorkerStep(r) \/ WorkerDies(r)
  PROVE  DaemonInv'
<1> USE RequestsAssumption, BoundsAssumption
    DEF DaemonInv, DaemonTypeOK, ChildrenKept, LoopKept, Alive, Up,
        DaemonLabels, WorkerLabels, CallerLabels, Answers, flags, calls, links,
        others
<1>1. CASE ResetSignals(r)
  BY <1>1 DEF ResetSignals
<1>2. CASE \E answer \in Answers : Respond(r, answer)
  BY <1>2 DEF Respond, Exit
<1>3. CASE WorkerDies(r)
  BY <1>3 DEF WorkerDies, Exit, Fault
<1> QED
  BY <1>1, <1>2, <1>3 DEF WorkerStep

THEOREM DaemonInvariant == DaemonSpec => []DaemonInv
<1>1. DaemonInv /\ UNCHANGED daemonVars => DaemonInv'
  BY DEF daemonVars, DaemonInv, DaemonTypeOK, ChildrenKept, LoopKept, Alive, Up
<1>2. DaemonInv /\ [DaemonNext]_daemonVars => DaemonInv'
  BY <1>1, CallerInv, LoopInv, SignalInv, WorkerInv DEF DaemonNext
<1> QED
  BY DaemonInitInv, <1>2, PTL DEF DaemonSpec

(* The invariant of types of the daemon, its workers and its callers.      *)
THEOREM DaemonTypeCorrect == DaemonSpec => []DaemonTypeOK
<1>1. DaemonInv => DaemonTypeOK
  BY DEF DaemonInv
<1> QED
  BY DaemonInvariant, <1>1, PTL

(* killChld: a daemon that has stopped leaves none of its workers behind,  *)
(* whenever the signal came and whatever the workers do with theirs.       *)
THEOREM StopsItsOwnCorrect == DaemonSpec => []StopsItsOwn
<1>1. DaemonInv => StopsItsOwn
  BY DEF DaemonInv, ChildrenKept, StopsItsOwn, Up
<1> QED
  BY DaemonInvariant, <1>1, PTL

-----------------------------------------------------------------------------
(* The composition.                                                        *)
(* Who answers "ok", or has been answered so, has "ok" as his result.      *)
AnswersKept == \A r \in Requests : \/ reply[r] = "ok" \/ caller[r] = "ok"
                                     => result[r] = "ok"

-----------------------------------------------------------------------------
(* A step of the composition is a step of the tasks or leaves them alone.  *)
LEMMA StepIsQueueStep == Next => QueueNext \/ UNCHANGED queueVars
<1> SUFFICES ASSUME Next PROVE QueueNext \/ UNCHANGED queueVars
  OBVIOUS
<1> USE ProcsAssumption DEF QueueNext, QueueDies
<1>1. CASE Server
  BY <1>1 DEF Server, Kill
<1>2. CASE Signal
  BY <1>2 DEF Signal
<1>3. CASE \E r \in Requests : Worker(r) \/ Perish(r)
  BY <1>3 DEF Worker, Execute, Answer, Perish
<1>4. CASE \E r \in Requests : Caller(r) \/ (CallerDies(r) /\ UNCHANGED queueVars)
  BY <1>4 DEF Caller
<1> QED
  BY <1>1, <1>2, <1>3, <1>4 DEF Next

(* A step of the composition is a step of the daemon, its callers and      *)
(* workers, or leaves them alone: a worker has only results to answer.     *)
LEMMA StepIsDaemonStep ==
  QueueInv /\ Next => DaemonNext \/ UNCHANGED daemonVars
<1> SUFFICES ASSUME QueueInv, Next PROVE DaemonNext \/ UNCHANGED daemonVars
  OBVIOUS
<1> USE DEF DaemonNext
<1>1. CASE Server
  BY <1>1 DEF Server, Kill
<1>2. CASE Signal
  BY <1>2 DEF Signal
<1>3. CASE \E r \in Requests : Worker(r) \/ Perish(r)
  <2>1. PICK r \in Requests : Worker(r) \/ Perish(r)
    BY <1>3
  <2>2. CASE Answer(r)
    <3>1. pc[r] = "end" => result[r] \in Answers
      BY ProcsAssumption
      DEF QueueInv, QueueTypeOK, ResultKept, Results, Answers
    <3>2. PICK answer \in Answers : Respond(r, answer)
      BY <2>2, <3>1 DEF Answer, Answers
    <3> QED
      BY <3>2 DEF WorkerStep
  <2> QED
    BY <2>1, <2>2 DEF Worker, Execute, Perish, WorkerStep
<1>4. CASE \E r \in Requests : Caller(r) \/ (CallerDies(r) /\ UNCHANGED queueVars)
  BY <1>4 DEF Caller
<1> QED
  BY <1>1, <1>2, <1>3, <1>4 DEF Next

(* The composition implements the queue of tasks.                          *)
THEOREM ImplementsQueue == Spec => QueueSpec
<1>1. Init => QueueInit
  BY DEF Init
<1>2. [Next]_vars => [QueueNext]_queueVars
  BY StepIsQueueStep DEF vars
<1> QED
  BY <1>1, <1>2, PTL DEF Spec, QueueSpec

(* The composition implements the daemon with workers that answer whatever *)
(* they like.                                                              *)
THEOREM ImplementsDaemon == Spec => DaemonSpec
<1>1. Init => DaemonInit
  BY DEF Init
<1>2. QueueInv /\ [Next]_vars => [DaemonNext]_daemonVars
  BY StepIsDaemonStep DEF vars
<1> QED
  BY <1>1, <1>2, ImplementsQueue, QueueInvariant, PTL DEF Spec, DaemonSpec

(* The invariant of types of the daemon, its callers and its workers.      *)
THEOREM TypeCorrect == Spec => []TypeOK
<1>1. DaemonTypeOK /\ QueueTypeOK => TypeOK
  BY DEF TypeOK
<1> QED
  BY <1>1, ImplementsDaemon, ImplementsQueue, DaemonTypeCorrect,
     QueueTypeCorrect, PTL

(* A daemon that has stopped leaves no worker behind, whatever its workers *)
(* were doing (omv-engined: killChld).                                     *)
THEOREM EngineStopsItsOwn == Spec => []StopsItsOwn
  BY ImplementsDaemon, StopsItsOwnCorrect, PTL

(* No task is forgotten by workers that are killed, unless while they      *)
(* rewrite the file (moduleabstract.inc: addTask, execTasks).              *)
THEOREM EngineForgetsNothing == Spec => []NothingForgotten
  BY ImplementsQueue, NothingForgottenCorrect, PTL

(* No task is run twice, whoever retries and whoever is killed, unless in  *)
(* the middle of execTasks (moduleabstract.inc).                           *)
THEOREM EngineRunsOnce == Spec => []RunOnce
  BY ImplementsQueue, RunOnceCorrect, PTL

-----------------------------------------------------------------------------
(* A request that has ended takes no further step.                         *)
LEMMA OkStays ==
  ASSUME QueueInv, QueueNext \/ UNCHANGED queueVars
  PROVE  \A p \in Procs : result[p] = "ok" => result'[p] = "ok"
<1>1. CASE UNCHANGED queueVars
  BY <1>1 DEF queueVars
<1>2. CASE QueueNext
  <2>1. PICK q \in Procs : QueueStep(q) \/ Die(q)
    BY <1>2 DEF QueueNext
  <2>2. pc[q] # "end"
    BY <2>1 DEF QueueStep, AddStep, ExecStep, AddOpen, AddLock, AddCut,
       AddWrite, ExecMutex, ExecExists, ExecLock, ExecEmpty, ExecTask,
       ExecFails, ExecAll, ExecWrite, Deploy, Die, Goto, Truncate
  <2>3. result[q] # "ok"
    BY <2>2 DEF QueueInv, ResultKept
  <2>4. \A p \in Procs : p # q => result'[p] = result[p]
    BY <2>1 DEF QueueStep, AddStep, ExecStep, AddOpen, AddLock, AddCut,
       AddWrite, ExecMutex, ExecExists, ExecLock, ExecEmpty, ExecTask,
       ExecFails, ExecAll, ExecWrite, Deploy, Die, QueueInv, QueueTypeOK
  <2> QED
    BY <2>3, <2>4
<1> QED
  BY <1>1, <1>2

(* Only a worker that answers writes a reply, and only his own; only a     *)
(* caller that reads it is told so.                                        *)
LEMMA RepliesAreRead ==
  ASSUME DaemonInv, Next
  PROVE  \A r \in Requests :
           /\ reply'[r] = "ok" => reply[r] = "ok" \/ Answer(r)
           /\ caller'[r] = "ok" => caller[r] = "ok" \/ reply[r] = "ok"
<1> USE DEF DaemonInv, DaemonTypeOK, others, links, calls
<1>1. CASE Server
  BY <1>1 DEF Server, Kill, KillChild, DaemonStep, Reap, Loop, SelectNone,
     SelectSignal, Accept, Fork, ForkWorker, Stop, Wait, Cleanup
<1>2. CASE Signal
  BY <1>2 DEF Signal, Terminate, Crash, Start
<1>3. CASE \E q \in Requests : Worker(q) \/ Perish(q)
  <2>1. PICK q \in Requests : Worker(q) \/ Perish(q)
    BY <1>3
  <2>2. CASE Answer(q)
    <3>1. PICK answer : Respond(q, answer)
      BY <2>2 DEF Answer
    <3> QED
      BY <2>2, <3>1 DEF Respond, Exit
  <2> QED
    BY <2>1, <2>2 DEF Worker, ResetSignals, Execute, daemonVars, Perish,
       WorkerDies, Exit
<1>4. CASE \E q \in Requests : Caller(q) \/ (CallerDies(q) /\ UNCHANGED queueVars)
  BY <1>4 DEF Caller, CallerStep, Connect, ConnectFails, Write, WriteFails,
     ReadReply, ReadEnd, Timeout, CallerDies, CallerTo, serverVars
<1> QED
  BY <1>1, <1>2, <1>3, <1>4 DEF Next

LEMMA AnswersKeptInv ==
  ASSUME QueueInv, DaemonInv, AnswersKept, [Next]_vars
  PROVE  AnswersKept'
<1>1. CASE UNCHANGED vars
  BY <1>1 DEF vars, daemonVars, queueVars, AnswersKept
<1>2. CASE Next
  <2>1. \A r \in Requests : result[r] = "ok" => result'[r] = "ok"
    BY <1>2, StepIsQueueStep, OkStays, ProcsAssumption
  <2>2. \A r \in Requests : Answer(r) /\ reply'[r] = "ok" => result[r] = "ok"
    BY DEF Answer, Respond, DaemonInv, DaemonTypeOK
  <2> QED
    BY <1>2, <2>1, <2>2, RepliesAreRead DEF AnswersKept
<1> QED
  BY <1>1, <1>2

(* A caller that is answered "ok" can rely on what was promised, whoever   *)
(* is killed and whatever the other requests do.                           *)
THEOREM AnswersAreTrueCorrect == Spec => []AnswersAreTrue
<1>1. Init => AnswersKept
  BY DEF Init, DaemonInit, AnswersKept
<1>2. QueueInv /\ DaemonInv /\ AnswersKept /\ [Next]_vars => AnswersKept'
  BY AnswersKeptInv
<1>3. QueueInv /\ AnswersKept => AnswersAreTrue
  BY ProcsAssumption DEF QueueInv, ResultKept, AnswersKept, AnswersAreTrue
<1> QED
  BY <1>1, <1>2, <1>3, ImplementsQueue, ImplementsDaemon, QueueInvariant,
     DaemonInvariant, PTL DEF Spec
=============================================================================
