------------------------------- MODULE Engine -------------------------------
(***************************************************************************)
(* The engine daemon with workers that execute requests on the tasks of    *)
(* fstab: Engined and TaskQueue composed.                                  *)
(*                                                                         *)
(* Each worker that has reset its signal handlers runs the steps of its    *)
(* request and answers with its result.  A worker that is killed, by the   *)
(* daemon that stops or on its own, dies in the middle of its request.     *)
(***************************************************************************)
EXTENDS Engined, TaskQueue

vars == <<daemonVars, queueVars>>

ASSUME ProcsAssumption == Procs = Requests

Init == DaemonInit /\ QueueInit

(* Only a request that was read as it was sent is executed.                *)
Execute(r) ==
  /\ worker[r] = "running"
  /\ r \in sent
  /\ QueueStep(r)
  /\ UNCHANGED daemonVars

(* Mutant: the answer is sent before the request is executed.              *)
Answer_Early(r) ==
  /\ Respond(r, IF r \in sent /\ result[r] # "error" THEN "ok" ELSE "error")
  /\ UNCHANGED queueVars

Answer(r) ==
  /\ IF r \in sent THEN pc[r] = "end" /\ Respond(r, result[r])
                   ELSE Respond(r, "error")
  /\ UNCHANGED queueVars

(* The process of a request dies with its worker.                          *)
QueueDies(r) == IF pc[r] \in {"end", "dead"} THEN UNCHANGED queueVars
                                             ELSE Die(r)

Kill(r) ==
  /\ KillChild(r)
  /\ IF worker[r] = "running" THEN QueueDies(r) ELSE UNCHANGED queueVars

Perish(r) == WorkerDies(r) /\ QueueDies(r)

Server == (DaemonStep /\ UNCHANGED queueVars) \/ \E r \in Requests : Kill(r)

Worker(r) == \/ ResetSignals(r) /\ UNCHANGED queueVars
             \/ Execute(r)
             \/ Answer(r)

Caller(r) == CallerStep(r) /\ UNCHANGED queueVars

Signal == (Terminate \/ Crash \/ Start) /\ UNCHANGED queueVars

Next ==
  \/ Server \/ Signal
  \/ \E r \in Requests : Worker(r) \/ Perish(r)
  \/ \E r \in Requests : Caller(r) \/ (CallerDies(r) /\ UNCHANGED queueVars)

(* Every process is scheduled, and timers run; nothing forces a fault, a   *)
(* signal or a new start.                                                  *)
Fairness ==
  /\ WF_vars(Server)
  /\ \A r \in Requests : WF_vars(Worker(r)) /\ WF_vars(Caller(r))

Spec == Init /\ [][Next]_vars /\ Fairness

-----------------------------------------------------------------------------
TypeOK == DaemonTypeOK /\ QueueTypeOK

(* What a caller is told has happened, whoever is killed and whatever the  *)
(* others do: nothing is answered early, and no other process takes back   *)
(* what was answered (omv-engined: the worker's try block; Rpc::call).     *)
AnswersAreTrue == \A r \in Requests : caller[r] = "ok" => Kept(r)

(* A request that was written is executed by a worker, and the worker is   *)
(* reaped, also when its caller has given up; unless the daemon ended      *)
(* before it forked (omv-engined: main loop, handleSigChld).               *)
RequestsServed ==
  \A r \in Requests : r \in sent ~> \/ worker[r] = "reaped"
                                    \/ worker[r] = "none" /\ Closed(r)
                                    \/ ~Up

(* A daemon that is told to stop does so: no caller that dies before it    *)
(* has written its request, no worker that swallows SIGTERM and no signal  *)
(* that comes at the wrong moment keeps it (omv-engined: main loop,        *)
(* killChld).                                                              *)
StopEnds == sigTerm \/ "TERM" \in sigs ~> ~Up
=============================================================================
