------------------------------- MODULE BgProc -------------------------------
(***************************************************************************)
(* A background process: ServiceAbstract::execBgProc and the Exec service. *)
(*                                                                         *)
(* The worker of an RPC creates an empty status file, forks a child and    *)
(* writes the child's pid into the file.  The child waits for that, adds   *)
(* the name of its output file, does its work while it appends to the      *)
(* output, and records in the status file how it ended.  Clients know the  *)
(* name of the status file: from the answer of the RPC or from             *)
(* Exec::enumerate.  Each of them polls with Exec::getOutput or            *)
(* Exec::isRunning until the process is over, or calls Exec::stop.  Who    *)
(* finds that the process is over removes the two files.                   *)
(*                                                                         *)
(* Every access to the status file opens it, locks it, reads or rewrites   *)
(* it and closes it: one atomic step.  Only between these steps can others *)
(* interfere.  A file that is unlinked while somebody holds it open stays  *)
(* readable to him, which is the same as reading it just before.           *)
(***************************************************************************)
EXTENDS Naturals

CONSTANTS
  Clients,    \* the callers of the Exec service
  Owner,      \* the client that started the process
  Kinds,      \* what the clients do
  MaxOutput,  \* bound: the pieces of output the process writes at most
  Length,     \* the pieces a task dialog asks for at a time
  Deaths      \* whether processes may die without running their handlers

(* A task is polled with getOutput from position 0 without a limit, a      *)
(* dialog from where the last answer ended with a limit; watch calls       *)
(* isRunning and stop calls Exec::stop.                                    *)
AllKinds == {"task", "dialog", "watch", "stop"}

ASSUME OwnerAssumption == Owner \in Clients

ASSUME KindsAssumption == Kinds \subseteq AllKinds

ASSUME BoundsAssumption == MaxOutput \in Nat /\ Length \in Nat \ {0}

ASSUME DeathsAssumption == Deaths \in BOOLEAN

VARIABLES
  worker,   \* where the worker is that starts the process
  child,    \* where the background process is
  outcome,  \* auxiliary: how the work of the background process ended
  file,     \* the status file: missing, empty or filled with JSON
  status,   \* its contents
  outfile,  \* whether the output file exists
  size,     \* the pieces in the output file
  written,  \* auxiliary: the pieces the process has written so far
  pc,       \* where each client is
  kind,     \* what it does
  snap,     \* the status its request has read, and whether output is left
  pos,      \* the pieces it has received
  res       \* how it ended

vars == <<worker, child, outcome, file, status, outfile, size, written,
          pc, kind, snap, pos, res>>
job == <<child, outcome>>
files == <<file, status, outfile, size, written>>
clients == <<pc, kind, snap, pos, res>>

WorkerLabels == {"create", "fork", "init", "replied", "dead"}
ChildLabels == {"none", "wait", "create", "update", "run", "finalize",
                "failing", "exit", "gone"}
Labels == {"idle", "poll", "proc", "act", "clean", "unlink", "answer", "ended"}
Outcomes == {"none", "ok", "failed", "died", "stopped"}
Results == {"none", "finished", "error", "stopped"}

Status == [running : BOOLEAN, error : BOOLEAN, named : BOOLEAN]
Snapshot == [running : BOOLEAN, error : BOOLEAN, named : BOOLEAN,
             pending : BOOLEAN]

NoStatus == [running |-> FALSE, error |-> FALSE, named |-> FALSE]
NoSnapshot == [running |-> FALSE, error |-> FALSE, named |-> FALSE,
               pending |-> FALSE]

(* /proc/<pid> exists until the process is reaped.                         *)
Alive == child \notin {"none", "gone"}

Init ==
  /\ worker = "create" /\ child = "none" /\ outcome = "none"
  /\ file = "missing" /\ status = NoStatus
  /\ outfile = FALSE /\ size = 0 /\ written = 0
  /\ pc = [c \in Clients |-> "idle"]
  /\ kind = [c \in Clients |-> "none"]
  /\ snap = [c \in Clients |-> NoSnapshot]
  /\ pos = [c \in Clients |-> 0]
  /\ res = [c \in Clients |-> "none"]

-----------------------------------------------------------------------------
(* The worker of the RPC that starts the background process.               *)

Create ==
  /\ worker = "create" /\ worker' = "fork"
  /\ file' = "empty"
  /\ UNCHANGED <<job, status, outfile, size, written, clients>>

Fork ==
  /\ worker = "fork" /\ worker' = "init"
  /\ child' = "wait"
  /\ UNCHANGED <<outcome, files, clients>>

(* The worker answers with the file name after the pid is in the file.     *)
Initialize ==
  /\ worker = "init" /\ worker' = "replied"
  /\ file' = "json"
  /\ status' = [running |-> TRUE, error |-> FALSE, named |-> FALSE]
  /\ UNCHANGED <<job, outfile, size, written, clients>>

WorkerDies ==
  /\ Deaths
  /\ worker \in {"fork", "init"} /\ worker' = "dead"
  /\ UNCHANGED <<job, files, clients>>

WorkerStep == Create \/ Fork \/ Initialize

-----------------------------------------------------------------------------
(* The background process.                                                 *)

ChildGoto(from, to) == child = from /\ child' = to

Waited ==
  /\ ChildGoto("wait", "create")
  /\ file = "json"
  /\ UNCHANGED <<worker, outcome, files, clients>>

(* After 25 looks at a file that stays empty the process throws.           *)
GiveUp ==
  /\ ChildGoto("wait", "failing")
  /\ file = "empty"
  /\ UNCHANGED <<worker, outcome, files, clients>>

(* Mutant: only a name is chosen, the first piece creates the file.        *)
CreateOutput_NameOnly ==
  /\ ChildGoto("create", "update")
  /\ UNCHANGED <<worker, outcome, files, clients>>

CreateOutput ==
  /\ ChildGoto("create", "update")
  /\ outfile' = TRUE
  /\ UNCHANGED <<worker, outcome, file, status, size, written, clients>>

(* Mutant: the status is written anew, without saying that it is running.  *)
Update_NotRunning ==
  /\ ChildGoto("update", "run")
  /\ file = "json"
  /\ status' = [NoStatus EXCEPT !.named = TRUE]
  /\ UNCHANGED <<worker, outcome, file, outfile, size, written, clients>>

Update ==
  /\ ChildGoto("update", "run")
  /\ file = "json"
  /\ status' = [status EXCEPT !.running = TRUE, !.named = TRUE]
  /\ UNCHANGED <<worker, outcome, file, outfile, size, written, clients>>

(* Appending creates the file when it is not there.                        *)
Write ==
  /\ child = "run" /\ written < MaxOutput
  /\ outfile' = TRUE
  /\ size' = IF outfile THEN size + 1 ELSE 1
  /\ written' = written + 1
  /\ UNCHANGED <<worker, job, file, status, clients>>

Return ==
  /\ ChildGoto("run", "finalize")
  /\ UNCHANGED <<worker, outcome, files, clients>>

Finalize ==
  /\ ChildGoto("finalize", "exit")
  /\ file = "json"
  /\ status' = [status EXCEPT !.running = FALSE, !.error = FALSE]
  /\ outcome' = "ok"
  /\ UNCHANGED <<worker, file, outfile, size, written, clients>>

(* The function throws or exceeds its time, or one of the calls around it  *)
(* throws.                                                                 *)
Throw ==
  /\ child \in {"create", "update", "run", "finalize"} /\ child' = "failing"
  /\ UNCHANGED <<worker, outcome, files, clients>>

(* The error is recorded in a file with contents; an empty one cannot be   *)
(* read, and the second exception ends the process.                        *)
Fail ==
  /\ ChildGoto("failing", "exit")
  /\ IF file = "json"
       THEN status' = [status EXCEPT !.running = FALSE, !.error = TRUE]
       ELSE UNCHANGED status
  /\ outcome' = "failed"
  /\ UNCHANGED <<worker, file, outfile, size, written, clients>>

Exit ==
  /\ ChildGoto("exit", "gone")
  /\ UNCHANGED <<worker, outcome, files, clients>>

(* A PHP error that is no exception, a lack of memory, a shutdown.         *)
Die ==
  /\ Deaths
  /\ child \in ChildLabels \ {"none", "exit", "gone"} /\ child' = "gone"
  /\ outcome' = "died"
  /\ UNCHANGED <<worker, files, clients>>

ChildStep == Waited \/ GiveUp \/ CreateOutput \/ Update \/ Write \/ Return
               \/ Finalize \/ Fail \/ Exit

-----------------------------------------------------------------------------
(* The clients.  Only the owner is told the name of the status file; the   *)
(* others find it with enumerate, which lists what is running.             *)

Goto(c, from, to) == pc[c] = from /\ pc' = [pc EXCEPT ![c] = to]

End(c, from, result) == /\ Goto(c, from, "ended")
                        /\ res' = [res EXCEPT ![c] = result]

Start(c) ==
  /\ Goto(c, "idle", "poll")
  /\ IF c = Owner THEN worker = "replied"
                  ELSE file = "json" /\ status.running /\ Alive
  /\ \E k \in Kinds : kind' = [kind EXCEPT ![c] = k]
  /\ UNCHANGED <<worker, job, files, snap, pos, res>>

(* getBgProcStatus reads the file ...                                      *)
ReadStatus(c) ==
  /\ Goto(c, "poll", "proc")
  /\ file = "json"
  /\ snap' = [snap EXCEPT ![c] =
                [running |-> status.running, error |-> status.error,
                 named |-> status.named, pending |-> FALSE]]
  /\ UNCHANGED <<worker, job, files, kind, pos, res>>

(* Mutant: /proc is not looked at.                                         *)
CheckProc_Trust(c) ==
  /\ Goto(c, "proc", "act")
  /\ UNCHANGED <<worker, job, files, kind, snap, pos, res>>

(* ... and then looks whether the process that is said to run exists.      *)
CheckProc(c) ==
  /\ Goto(c, "proc", "act")
  /\ snap' = IF Alive THEN snap ELSE [snap EXCEPT ![c].running = FALSE]
  /\ UNCHANGED <<worker, job, files, kind, pos, res>>

(* The status file is gone, when the status is read or when the files are  *)
(* to be removed.                                                          *)
NoFile(c) ==
  /\ End(c, "poll", "error") \/ End(c, "clean", "error")
  /\ file # "json"
  /\ UNCHANGED <<worker, job, files, kind, snap, pos>>

(* getOutput and isRunning throw the recorded error and remove nothing.    *)
ReportError(c) ==
  /\ End(c, "act", "error")
  /\ kind[c] # "stop" /\ snap[c].error
  /\ UNCHANGED <<worker, job, files, kind, snap, pos>>

CallsGetOutput(c) ==
  pc[c] = "act" /\ kind[c] \in {"task", "dialog"} /\ ~ snap[c].error

From(c) == IF kind[c] = "dialog" THEN pos[c] ELSE 0

Unread(c) == IF size > From(c) THEN size - From(c) ELSE 0

(* One piece more than asked for is read to know whether output is left.   *)
Pending(c) == kind[c] = "dialog" /\ Unread(c) > Length

(* Mutant: the position is not sought before reading.                      *)
ReadOutput_NoSeek(c) ==
  /\ CallsGetOutput(c) /\ snap[c].named /\ outfile
  /\ pos' = [pos EXCEPT ![c] = From(c) + (IF Pending(c) THEN Length ELSE size)]
  /\ snap' = [snap EXCEPT ![c].pending = Pending(c)]
  /\ pc' = [pc EXCEPT ![c] =
              IF snap[c].running \/ Pending(c) THEN "answer" ELSE "clean"]
  /\ UNCHANGED <<worker, job, files, kind, res>>

(* Mutant: pending output does not keep the files.                         *)
ReadOutput_CleansEarly(c) ==
  /\ CallsGetOutput(c) /\ snap[c].named /\ outfile
  /\ pos' = [pos EXCEPT ![c] =
               From(c) + (IF Pending(c) THEN Length ELSE Unread(c))]
  /\ snap' = [snap EXCEPT ![c].pending = Pending(c)]
  /\ pc' = [pc EXCEPT ![c] = IF snap[c].running THEN "answer" ELSE "clean"]
  /\ UNCHANGED <<worker, job, files, kind, res>>

(* Mutant: no more is read than asked for, so that nothing is pending.     *)
ReadOutput_NoExtra(c) ==
  /\ CallsGetOutput(c) /\ snap[c].named /\ outfile
  /\ pos' = [pos EXCEPT ![c] =
               From(c) + (IF Pending(c) THEN Length ELSE Unread(c))]
  /\ snap' = [snap EXCEPT ![c].pending = FALSE]
  /\ pc' = [pc EXCEPT ![c] = IF snap[c].running THEN "answer" ELSE "clean"]
  /\ UNCHANGED <<worker, job, files, kind, res>>

ReadOutput(c) ==
  /\ CallsGetOutput(c) /\ snap[c].named /\ outfile
  /\ pos' = [pos EXCEPT ![c] =
               From(c) + (IF Pending(c) THEN Length ELSE Unread(c))]
  /\ snap' = [snap EXCEPT ![c].pending = Pending(c)]
  /\ pc' = [pc EXCEPT ![c] =
              IF snap[c].running \/ Pending(c) THEN "answer" ELSE "clean"]
  /\ UNCHANGED <<worker, job, files, kind, res>>

NoOutputYet(c) ==
  /\ CallsGetOutput(c) /\ ~ snap[c].named
  /\ pc' = [pc EXCEPT ![c] = IF snap[c].running THEN "answer" ELSE "clean"]
  /\ UNCHANGED <<worker, job, files, kind, snap, pos, res>>

OutputGone(c) ==
  /\ CallsGetOutput(c) /\ snap[c].named /\ ~ outfile
  /\ End(c, "act", "error")
  /\ UNCHANGED <<worker, job, files, kind, snap, pos>>

CheckRunning(c) ==
  /\ pc[c] = "act" /\ kind[c] = "watch" /\ ~ snap[c].error
  /\ pc' = [pc EXCEPT ![c] = IF snap[c].running THEN "answer" ELSE "clean"]
  /\ UNCHANGED <<worker, job, files, kind, snap, pos, res>>

(* Mutant: the signal goes to the children of the process only.            *)
Kill_ChildrenOnly(c) ==
  /\ Goto(c, "act", "clean")
  /\ kind[c] = "stop" /\ Alive
  /\ UNCHANGED <<worker, job, files, kind, snap, pos, res>>

Kill(c) ==
  /\ Goto(c, "act", "clean")
  /\ kind[c] = "stop" /\ Alive
  /\ child' = "gone"
  /\ outcome' = IF outcome = "none" THEN "stopped" ELSE outcome
  /\ UNCHANGED <<worker, files, kind, snap, pos, res>>

KillFails(c) ==
  /\ End(c, "act", "error")
  /\ kind[c] = "stop" /\ ~ Alive
  /\ UNCHANGED <<worker, job, files, kind, snap, pos>>

(* unlinkBgProcStatus reads the status again and removes the output file   *)
(* it names.  The process writes the status no more: the two are one step. *)
UnlinkOutput(c) ==
  /\ Goto(c, "clean", "unlink")
  /\ file = "json"
  /\ outfile' = (outfile /\ ~ status.named)
  /\ UNCHANGED <<worker, job, file, status, size, written, kind, snap, pos, res>>

UnlinkStatus(c) ==
  /\ Goto(c, "unlink", "answer")
  /\ file' = "missing"
  /\ UNCHANGED <<worker, job, status, outfile, size, written, kind, snap, pos,
                 res>>

PollAgain(c) ==
  /\ Goto(c, "answer", "poll")
  /\ kind[c] # "stop" /\ snap[c].running
  /\ UNCHANGED <<worker, job, files, kind, snap, pos, res>>

(* A dialog stops polling when the process is over: it looks at            *)
(* outputPending, but the answer calls it pendingOutput.                   *)
Leave(c) ==
  /\ End(c, "answer", IF kind[c] = "stop" THEN "stopped" ELSE "finished")
  /\ kind[c] = "stop" \/ ~ snap[c].running
  /\ UNCHANGED <<worker, job, files, kind, snap, pos>>

ClientStep(c) == ReadStatus(c) \/ CheckProc(c) \/ NoFile(c) \/ ReportError(c)
                   \/ ReadOutput(c) \/ NoOutputYet(c) \/ OutputGone(c)
                   \/ CheckRunning(c) \/ Kill(c) \/ KillFails(c)
                   \/ UnlinkOutput(c) \/ UnlinkStatus(c) \/ PollAgain(c)
                   \/ Leave(c)

(* Nobody has anything left to do; an unused client stays idle.            *)
Finished ==
  /\ worker \in {"replied", "dead"} /\ ~ Alive
  /\ \A c \in Clients : pc[c] \in {"idle", "ended"}
  /\ UNCHANGED vars

Next == \/ WorkerStep \/ WorkerDies
        \/ ChildStep \/ Throw \/ Die
        \/ \E c \in Clients : Start(c) \/ ClientStep(c)
        \/ Finished

Spec == Init /\ [][Next]_vars

(* The kernel schedules every process; the work itself comes to an end.    *)
FairSpec == /\ Spec
            /\ WF_vars(WorkerStep) /\ WF_vars(ChildStep)
            /\ \A c \in Clients : WF_vars(ClientStep(c))

-----------------------------------------------------------------------------
TypeOK ==
  /\ worker \in WorkerLabels
  /\ child \in ChildLabels
  /\ outcome \in Outcomes
  /\ file \in {"missing", "empty", "json"}
  /\ status \in Status
  /\ outfile \in BOOLEAN
  /\ size \in 0..MaxOutput
  /\ written \in 0..MaxOutput
  /\ pc \in [Clients -> Labels]
  /\ kind \in [Clients -> AllKinds \cup {"none"}]
  /\ snap \in [Clients -> Snapshot]
  /\ pos \in [Clients -> 0..MaxOutput]
  /\ res \in [Clients -> Results]

(* The output file is removed by who has received all of it, who asked to  *)
(* stop the process or only whether it runs, or who read the status before *)
(* it named the file: "Cleanup if the process is not running anymore and   *)
(* all command output has been read" (exec.inc).                           *)
MayRemoveOutput(c) ==
  /\ pc[c] = "clean"
  /\ kind[c] \in {"task", "dialog"} /\ snap[c].named => pos[c] = written

UnreadOutputKept ==
  [][outfile /\ ~ outfile' => \E c \in Clients : MayRemoveOutput(c)]_vars

Removes(c) ==
  \/ pc[c] = "unlink"
  \/ pc[c] \in {"answer", "ended"} /\ kind[c] = "stop" /\ res[c] # "error"
  \/ /\ pc[c] = "answer" \/ res[c] = "finished"
     /\ ~ snap[c].running /\ ~ snap[c].pending

(* A poller is told of an error only when the process failed, or when      *)
(* another client has taken the files away.                                *)
ErrorsAreReal ==
  \A c \in Clients : res[c] = "error" =>
    \/ outcome = "failed" \/ kind[c] = "stop"
    \/ \E d \in Clients \ {c} : Removes(d)

(* When stop has answered, the process is gone and so are its files.  Only *)
(* an output file that the process had created and not yet named is left.  *)
StoppedIsGone ==
  (\E c \in Clients : res[c] = "stopped") =>
    ~ Alive /\ file = "missing" /\ (outfile => ~ status.named)

(* Seen by its callers, the process is a job that ends once: nobody is     *)
(* told that it is over before it is, and nothing is produced afterwards,  *)
(* although the callers look at a file and at /proc at different times.    *)
Caller == INSTANCE Job WITH made <- written, got <- pos, told <- res

ImplementsJob == Caller!Spec

(* A client that is told that the process is over, and of no error, learns *)
(* the truth: the work succeeded and the client has its whole output.      *)
FinishedIsTrue ==
  \A c \in Clients : res[c] = "finished" => outcome = "ok" /\ pos[c] = written

(* Who has polled the output until the process was over, however often he  *)
(* asked, has received all that was ever written, unless the last answer   *)
(* said that output is pending or was given before the output had a name   *)
(* (Exec::getOutput).  The workbench leaves in spite of pending output: it *)
(* looks for it under another name.                                        *)
OutputReceived ==
  \A c \in Clients :
    res[c] = "finished" /\ kind[c] \in {"task", "dialog"} =>
      pos[c] = written \/ snap[c].pending \/ ~ snap[c].named

(* Who polls is answered in the end, whatever happens to the process.      *)
PollersEnd == \A c \in Clients : pc[c] = "poll" ~> pc[c] = "ended"
=============================================================================
