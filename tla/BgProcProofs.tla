---------------------------- MODULE BgProcProofs ----------------------------
(***************************************************************************)
(* Proofs about background processes.  The properties are about the two    *)
(* files and the clients; what makes them inductive is where the process   *)
(* must be when a client has read that it is over: it has left the part in *)
(* which it writes.                                                        *)
(***************************************************************************)
EXTENDS BgProc, TLAPS

Over == {"exit", "gone"}

Counts == size \in Nat /\ written \in Nat /\ pos \in [Clients -> Nat]

Types ==
  /\ worker \in WorkerLabels
  /\ child \in ChildLabels
  /\ outcome \in Outcomes
  /\ file \in {"missing", "empty", "json"}
  /\ status \in Status
  /\ outfile \in BOOLEAN
  /\ pc \in [Clients -> Labels]
  /\ kind \in [Clients -> AllKinds \cup {"none"}]
  /\ snap \in [Clients -> Snapshot]
  /\ res \in [Clients -> Results]

(* How far the worker has come decides which files exist and who acts.     *)
WorkerInv ==
  /\ worker = "create" => file = "missing"
  /\ worker \in {"fork", "init", "dead"} => file = "empty"
  /\ worker = "replied" => file # "empty"
  /\ worker \in {"create", "fork"} => child = "none"
  /\ worker \in {"init", "replied"} => child # "none"
  /\ worker # "replied" => \A c \in Clients : pc[c] = "idle"

(* What the status file says of the process is true of it.                 *)
ChildInv ==
  /\ worker = "replied" /\ ~ status.running => child \in Over
  /\ status.error => outcome = "failed"
  /\ outcome = "failed" => child \in Over
  /\ status.named => child \notin {"none", "wait", "create", "update"}
  /\ child \in {"update", "run"} => outfile

(* The output file is complete as far as the process has come.             *)
OutputInv == Counts /\ size = written /\ written <= MaxOutput

(* What a client has read is true, and stays true until it has acted on it.*)
ClientInv(c) ==
  /\ pc[c] # "ended" => res[c] = "none"
  /\ snap[c].error => outcome = "failed"
  /\ pc[c] \in {"proc", "act"} => ~ snap[c].pending
  /\ pc[c] \in {"proc", "act"} /\ ~ snap[c].running => child \in Over
  /\ pc[c] \in {"clean", "unlink"} => child \in Over
  /\ pc[c] \in {"clean", "unlink"} /\ kind[c] # "stop"
       => ~ snap[c].running /\ ~ snap[c].pending
  /\ pc[c] = "unlink" => (outfile => ~ status.named)

NamedInv(c) == pc[c] \in {"proc", "act"} /\ snap[c].named => status.named

PosInv(c) ==
  /\ pos[c] <= written
  /\ pc[c] = "clean" /\ kind[c] \in {"task", "dialog"} /\ snap[c].named
       => pos[c] = written

(* Exec::stop has killed the process before it removes the files.          *)
StopInv(c) ==
  /\ res[c] = "stopped" => kind[c] = "stop"
  /\ kind[c] = "stop" =>
       /\ pc[c] \in {"clean", "unlink", "answer"} \/ res[c] = "stopped"
            => child = "gone"
       /\ pc[c] = "answer" \/ res[c] = "stopped"
            => file = "missing" /\ (outfile => ~ status.named)

(* Somebody is responsible for every file that is gone.                    *)
GoneInv ==
  (worker = "replied" /\ file = "missing") \/ (status.named /\ ~ outfile)
    => \E c \in Clients : Removes(c)

Inv == /\ Types /\ WorkerInv /\ ChildInv /\ OutputInv
       /\ \A c \in Clients : /\ ClientInv(c) /\ NamedInv(c)
                              /\ PosInv(c) /\ StopInv(c)

-----------------------------------------------------------------------------
LEMMA TypesStep == Types /\ [Next]_vars => Types'
<1> SUFFICES ASSUME Types, [Next]_vars PROVE Types'
  OBVIOUS
<1> USE DEF Types, WorkerLabels, ChildLabels, Outcomes, Labels, Results,
            AllKinds, Status, Snapshot
<1>1. CASE WorkerStep \/ WorkerDies
  <2>1. CASE Create
    BY <2>1 DEF Create, job, clients
  <2>2. CASE Fork
    BY <2>2 DEF Fork, files, clients
  <2>3. CASE Initialize
    BY <2>3 DEF Initialize, job, clients
  <2>4. CASE WorkerDies
    BY <2>4 DEF WorkerDies, job, files, clients
  <2>5. QED
    BY <1>1, <2>1, <2>2, <2>3, <2>4 DEF WorkerStep
<1>2. CASE ChildStep \/ Throw \/ Die
  BY <1>2 DEF ChildStep, Waited, GiveUp, CreateOutput, Update, Write, Return,
              Finalize, Throw, Fail, Exit, Die, ChildGoto, job, files, clients
<1>3. ASSUME NEW c \in Clients, Start(c) PROVE Types'
  BY <1>3, KindsAssumption DEF Start, Goto, job, files
<1>4. ASSUME NEW c \in Clients, ReadStatus(c) PROVE Types'
  BY <1>4 DEF ReadStatus, Goto, job, files
<1>5. ASSUME NEW c \in Clients, CheckProc(c) PROVE Types'
  <2>1. snap' \in [Clients -> Snapshot]
    BY <1>5 DEF CheckProc
  <2>2. QED
    BY <1>5, <2>1 DEF CheckProc, Goto, job, files
<1>6. ASSUME NEW c \in Clients, ReadOutput(c) \/ NoOutputYet(c)
                                  \/ CheckRunning(c)
      PROVE  Types'
  <2>1. Pending(c) \in BOOLEAN
    BY DEF Pending
  <2>2. QED
    BY <1>6, <2>1 DEF ReadOutput, NoOutputYet, CheckRunning, job, files
<1>7. ASSUME NEW c \in Clients, NoFile(c) PROVE Types'
  BY <1>7 DEF NoFile, End, Goto, job, files
<1>8. ASSUME NEW c \in Clients, ReportError(c) PROVE Types'
  BY <1>8 DEF ReportError, End, Goto, job, files
<1>9. ASSUME NEW c \in Clients, OutputGone(c) PROVE Types'
  BY <1>9 DEF OutputGone, End, Goto, job, files
<1>10. ASSUME NEW c \in Clients, KillFails(c) PROVE Types'
  BY <1>10 DEF KillFails, End, Goto, job, files
<1>11. ASSUME NEW c \in Clients, Leave(c) PROVE Types'
  BY <1>11 DEF Leave, End, Goto, job, files
<1>12. ASSUME NEW c \in Clients, Kill(c) PROVE Types'
  BY <1>12 DEF Kill, Goto, files
<1>13. ASSUME NEW c \in Clients, UnlinkOutput(c) PROVE Types'
  <2>1. (outfile /\ ~ status.named) \in BOOLEAN
    OBVIOUS
  <2>2. QED
    BY <1>13, <2>1 DEF UnlinkOutput, Goto, job
<1>14. ASSUME NEW c \in Clients, UnlinkStatus(c) PROVE Types'
  BY <1>14 DEF UnlinkStatus, Goto, job
<1>15. ASSUME NEW c \in Clients, PollAgain(c) PROVE Types'
  BY <1>15 DEF PollAgain, Goto, job, files
<1>16. CASE Finished \/ UNCHANGED vars
  BY <1>16 DEF Finished, vars
<1>17. QED
  BY <1>1, <1>2, <1>3, <1>4, <1>5, <1>6, <1>7, <1>8, <1>9, <1>10, <1>11, <1>12,
     <1>13, <1>14, <1>15, <1>16 DEF Next, ClientStep


LEMMA WorkerInvStep == Types /\ WorkerInv /\ [Next]_vars => WorkerInv'
<1> SUFFICES ASSUME Types, WorkerInv, [Next]_vars PROVE WorkerInv'
  OBVIOUS
<1> USE DEF WorkerInv
<1>1. CASE WorkerStep \/ WorkerDies
  BY <1>1 DEF WorkerStep, Create, Fork, Initialize, WorkerDies, Types, job,
              files, clients
<1>2. CASE ChildStep \/ Throw \/ Die
  <2>1. child # "none" /\ child' # "none"
    BY <1>2 DEF ChildStep, Waited, GiveUp, CreateOutput, Update, Write, Return,
                Finalize, Throw, Fail, Exit, Die, ChildGoto, Types, job
  <2>2. UNCHANGED <<worker, file, pc>>
    BY <1>2 DEF ChildStep, Waited, GiveUp, CreateOutput, Update, Write, Return,
                Finalize, Throw, Fail, Exit, Die, files, clients
  <2>3. QED
    BY <2>1, <2>2
<1>3. ASSUME NEW c \in Clients, Start(c) PROVE WorkerInv'
  <2>1. worker = "replied"
    BY <1>3 DEF Start, Types, WorkerLabels
  <2>2. UNCHANGED <<worker, file, child>>
    BY <1>3 DEF Start, job, files
  <2>3. QED
    BY <2>1, <2>2
<1>4. ASSUME NEW c \in Clients, ClientStep(c) PROVE WorkerInv'
  <2>1. pc[c] # "idle" /\ worker = "replied"
    BY <1>4 DEF ClientStep, ReadStatus, CheckProc, NoFile, ReportError,
       ReadOutput, NoOutputYet, OutputGone, CheckRunning, Kill, KillFails,
       UnlinkOutput, UnlinkStatus, PollAgain, Leave, End, Goto, CallsGetOutput
  <2>2. worker' = worker /\ file' \in {file, "missing"} /\ child' \in {child, "gone"}
    BY <1>4 DEF ClientStep, ReadStatus, CheckProc, NoFile, ReportError,
       ReadOutput, NoOutputYet, OutputGone, CheckRunning, Kill, KillFails,
       UnlinkOutput, UnlinkStatus, PollAgain, Leave, job, files
  <2>3. QED
    BY <2>1, <2>2
<1>5. CASE Finished \/ UNCHANGED vars
  BY <1>5 DEF Finished, vars
<1>6. QED
  BY <1>1, <1>2, <1>3, <1>4, <1>5 DEF Next

LEMMA ChildInvStep ==
  ASSUME Types, WorkerInv, ChildInv, \A c \in Clients : ClientInv(c), [Next]_vars
  PROVE  ChildInv'
<1> USE DEF ChildInv, Over
<1>1. CASE WorkerStep \/ WorkerDies
  BY <1>1 DEF WorkerStep, Create, Fork, Initialize, WorkerDies, Types,
              WorkerInv, Status, job, files, clients
<1>2. CASE Waited \/ GiveUp \/ CreateOutput \/ Update \/ Write
  BY <1>2 DEF Waited, GiveUp, CreateOutput, Update, Write, ChildGoto, Types,
              Status, job, files, clients
<1>3. CASE Return \/ Finalize \/ Throw \/ Fail \/ Exit \/ Die
  BY <1>3 DEF Return, Finalize, Throw, Fail, Exit, Die, ChildGoto, Types,
              WorkerInv, Status, job, files, clients
<1>4. ASSUME NEW c \in Clients, Start(c) PROVE ChildInv'
  BY <1>4 DEF Start, job, files
<1>5. ASSUME NEW c \in Clients, Kill(c) PROVE ChildInv'
  BY <1>5 DEF Kill, Types, files
<1>6. ASSUME NEW c \in Clients, UnlinkOutput(c) PROVE ChildInv'
  BY <1>6 DEF UnlinkOutput, Goto, ClientInv, job
<1>7. ASSUME NEW c \in Clients, ClientStep(c), ~ Kill(c), ~ UnlinkOutput(c)
      PROVE  ChildInv'
  BY <1>7 DEF ClientStep, ReadStatus, CheckProc, NoFile, ReportError,
     ReadOutput, NoOutputYet, OutputGone, CheckRunning, KillFails,
     UnlinkStatus, PollAgain, Leave, job, files
<1>8. CASE Finished \/ UNCHANGED vars
  BY <1>8 DEF Finished, vars
<1>9. QED
  BY <1>1, <1>2, <1>3, <1>4, <1>5, <1>6, <1>7, <1>8 DEF Next, ChildStep


(* Appending finds the file that CreateOutput made, so nothing is lost.    *)
LEMMA OutputInvStep ==
  ASSUME Types, ChildInv, OutputInv, [Next]_vars
  PROVE  OutputInv'
<1> USE DEF OutputInv, Counts
<1>1. CASE WorkerStep \/ WorkerDies
  BY <1>1 DEF WorkerStep, Create, Fork, Initialize, WorkerDies, files, clients
<1>2. CASE Write
  BY <1>2, BoundsAssumption DEF Write, ChildInv, clients
<1>3. CASE (ChildStep \/ Throw \/ Die) /\ ~ Write
  BY <1>3 DEF ChildStep, Waited, GiveUp, CreateOutput, Update, Return,
              Finalize, Throw, Fail, Exit, Die, files, clients
<1>4. ASSUME NEW c \in Clients, ReadOutput(c) PROVE OutputInv'
  <2>1. From(c) \in Nat /\ Unread(c) \in Nat /\ Length \in Nat
    BY BoundsAssumption DEF From, Unread
  <2>2. From(c) + (IF Pending(c) THEN Length ELSE Unread(c)) \in Nat
    BY <2>1
  <2>3. QED
    BY <1>4, <2>2 DEF ReadOutput, files
<1>5. ASSUME NEW c \in Clients, Start(c) \/ ClientStep(c), ~ ReadOutput(c)
      PROVE  OutputInv'
  BY <1>5 DEF Start, ClientStep, ReadStatus, CheckProc, NoFile, ReportError,
     NoOutputYet, OutputGone, CheckRunning, Kill, KillFails, UnlinkOutput,
     UnlinkStatus, PollAgain, Leave, files
<1>6. CASE Finished \/ UNCHANGED vars
  BY <1>6 DEF Finished, vars
<1>7. QED
  BY <1>1, <1>2, <1>3, <1>4, <1>5, <1>6 DEF Next

(* A client changes its own variables only.                                *)
Untouched(c) ==
  /\ pc'[c] = pc[c] /\ kind'[c] = kind[c] /\ snap'[c] = snap[c]
  /\ pos'[c] = pos[c] /\ res'[c] = res[c]

LEMMA OwnVariables ==
  ASSUME Types, Counts, [Next]_vars, NEW c \in Clients
  PROVE  Start(c) \/ ClientStep(c) \/ Untouched(c)
<1> USE DEF Untouched, Types, Counts
<1>1. CASE WorkerStep \/ WorkerDies
  BY <1>1 DEF WorkerStep, Create, Fork, Initialize, WorkerDies, clients
<1>2. CASE ChildStep \/ Throw \/ Die
  BY <1>2 DEF ChildStep, Waited, GiveUp, CreateOutput, Update, Write, Return,
              Finalize, Throw, Fail, Exit, Die, clients
<1>3. ASSUME NEW d \in Clients, d # c, Start(d) \/ ClientStep(d)
      PROVE  Untouched(c)
  BY <1>3 DEF Start, ClientStep, ReadStatus, CheckProc, NoFile, ReportError,
     ReadOutput, NoOutputYet, OutputGone, CheckRunning, Kill, KillFails,
     UnlinkOutput, UnlinkStatus, PollAgain, Leave, End, Goto
<1>4. CASE Finished \/ UNCHANGED vars
  BY <1>4 DEF Finished, vars
<1>5. QED
  BY <1>1, <1>2, <1>3, <1>4 DEF Next

(* Once the process has left the part in which it writes, the files only   *)
(* ever disappear.                                                         *)
LEMMA Settled ==
  ASSUME Types, WorkerInv, ChildInv, worker = "replied", child \in Over,
         [Next]_vars
  PROVE  /\ worker' = "replied" /\ child' \in Over
         /\ child = "gone" => child' = "gone"
         /\ status' = status /\ written' = written
         /\ outfile' => outfile
         /\ file = "missing" => file' = "missing"
<1> USE DEF Over
<1>1. ~ WorkerStep /\ ~ WorkerDies
  BY DEF WorkerStep, Create, Fork, Initialize, WorkerDies
<1>2. CASE ChildStep \/ Throw \/ Die
  BY <1>2 DEF ChildStep, Waited, GiveUp, CreateOutput, Update, Write, Return,
              Finalize, Throw, Fail, Exit, Die, ChildGoto, files
<1>3. ASSUME NEW c \in Clients, Start(c) \/ ClientStep(c), ~ UnlinkOutput(c)
      PROVE  /\ worker' = worker /\ child' \in {child, "gone"}
             /\ UNCHANGED <<status, written, outfile>>
             /\ file' \in {file, "missing"}
  BY <1>3 DEF Start, ClientStep, ReadStatus, CheckProc, NoFile, ReportError,
     ReadOutput, NoOutputYet, OutputGone, CheckRunning, Kill, KillFails,
     UnlinkStatus, PollAgain, Leave, job, files
<1>4. ASSUME NEW c \in Clients, UnlinkOutput(c)
      PROVE  /\ UNCHANGED <<worker, child, file, status, written>>
             /\ outfile' => outfile
  BY <1>4 DEF UnlinkOutput, job
<1>5. CASE Finished \/ UNCHANGED vars
  BY <1>5 DEF Finished, vars
<1>6. QED
  BY <1>1, <1>2, <1>3, <1>4, <1>5 DEF Next

LEMMA FailedStays ==
  ASSUME Types, ChildInv, outcome = "failed", [Next]_vars
  PROVE  outcome' = "failed"
<1> USE DEF ChildInv, Over
<1>1. CASE WorkerStep \/ WorkerDies
  BY <1>1 DEF WorkerStep, Create, Fork, Initialize, WorkerDies, job
<1>2. CASE ChildStep \/ Throw \/ Die
  BY <1>2 DEF ChildStep, Waited, GiveUp, CreateOutput, Update, Write, Return,
              Finalize, Throw, Fail, Exit, Die, ChildGoto, job
<1>3. ASSUME NEW c \in Clients, Start(c) \/ ClientStep(c)
      PROVE  outcome' = "failed"
  BY <1>3 DEF Start, ClientStep, ReadStatus, CheckProc, NoFile, ReportError,
     ReadOutput, NoOutputYet, OutputGone, CheckRunning, Kill, KillFails,
     UnlinkOutput, UnlinkStatus, PollAgain, Leave, job
<1>4. CASE Finished \/ UNCHANGED vars
  BY <1>4 DEF Finished, vars, job
<1>5. QED
  BY <1>1, <1>2, <1>3, <1>4 DEF Next


(* A client with something to do knows that the worker has finished.       *)
LEMMA Active ==
  ASSUME WorkerInv, NEW c \in Clients, pc[c] # "idle"
  PROVE  worker = "replied" /\ child # "none"
BY DEF WorkerInv

LEMMA ClientInvStep ==
  ASSUME Inv, [Next]_vars, NEW c \in Clients
  PROVE  ClientInv(c)'
<1> USE DEF Inv, ClientInv
<1>1. pc[c] # "idle" => worker = "replied" /\ child # "none"
  BY Active
<1>2. outcome = "failed" => outcome' = "failed"
  BY FailedStays
<1>3. worker = "replied" /\ child \in Over =>
        child' \in Over /\ status' = status /\ (outfile' => outfile)
  BY Settled
<1>4. CASE Untouched(c)
  <2>1. pc[c] \in {"proc", "act"} /\ ~ snap[c].running => child' \in Over
    BY <1>1, <1>3
  <2>2. pc[c] \in {"clean", "unlink"} => child' \in Over
    BY <1>1, <1>3
  <2>3. pc[c] = "unlink" => (outfile' => ~ status'.named)
    BY <1>1, <1>3
  <2>4. QED
    BY <1>2, <1>4, <2>1, <2>2, <2>3 DEF Untouched
<1>5. CASE Start(c)
  BY <1>5 DEF Start, Goto, Types, job
<1>6. CASE ReadStatus(c)
  <2>1. /\ snap'[c].running = status.running /\ snap'[c].error = status.error
        /\ snap'[c].pending = FALSE
    BY <1>6 DEF ReadStatus, Types
  <2>2. pc'[c] = "proc" /\ UNCHANGED <<child, outcome, res>>
    BY <1>6 DEF ReadStatus, Goto, Types, job
  <2>3. pc[c] = "poll"
    BY <1>6 DEF ReadStatus, Goto
  <2>4. QED
    BY <1>1, <2>1, <2>2, <2>3 DEF ChildInv
<1>7. CASE CheckProc(c)
  <2>1. /\ pc[c] = "proc" /\ pc'[c] = "act"
        /\ UNCHANGED <<child, outcome, res>>
    BY <1>7 DEF CheckProc, Goto, Types, job
  <2>2. snap'[c].running = (snap[c].running /\ Alive)
    BY <1>7 DEF CheckProc, Types, Snapshot
  <2>3. snap'[c].error = snap[c].error /\ snap'[c].pending = snap[c].pending
    BY <1>7 DEF CheckProc, Types, Snapshot
  <2>4. ~ Alive => child \in Over
    BY <1>1, <2>1 DEF Alive, Over
  <2>5. QED
    BY <2>1, <2>2, <2>3, <2>4
<1>8. CASE NoFile(c)
  BY <1>8 DEF NoFile, End, Goto, Types, job
<1>9. CASE ReportError(c)
  BY <1>9 DEF ReportError, End, Goto, Types, job
<1>10. CASE ReadOutput(c)
  <2>1. /\ pc[c] = "act" /\ UNCHANGED <<child, outcome, res>>
        /\ pc'[c] = IF snap[c].running \/ Pending(c) THEN "answer" ELSE "clean"
    BY <1>10 DEF ReadOutput, CallsGetOutput, Types, job
  <2>2. /\ snap'[c].running = snap[c].running /\ snap'[c].error = snap[c].error
        /\ snap'[c].pending = Pending(c)
    BY <1>10 DEF ReadOutput, Types, Snapshot
  <2>3. QED
    BY <2>1, <2>2
<1>11. CASE NoOutputYet(c)
  BY <1>11 DEF NoOutputYet, CallsGetOutput, Types, job
<1>12. CASE OutputGone(c)
  BY <1>12 DEF OutputGone, End, Goto, Types, job
<1>13. CASE CheckRunning(c)
  BY <1>13 DEF CheckRunning, Types, job
<1>14. CASE Kill(c)
  BY <1>2, <1>14 DEF Kill, Goto, Types, Over
<1>15. CASE KillFails(c)
  BY <1>15 DEF KillFails, End, Goto, Types, job
<1>16. CASE UnlinkOutput(c)
  BY <1>16 DEF UnlinkOutput, Goto, Types, job
<1>17. CASE UnlinkStatus(c)
  BY <1>17 DEF UnlinkStatus, Goto, Types, job
<1>18. CASE PollAgain(c)
  BY <1>18 DEF PollAgain, Goto, Types, job
<1>19. CASE Leave(c)
  BY <1>19 DEF Leave, End, Goto, Types, job
<1>20. Counts
  BY DEF OutputInv
<1>21. QED
  BY OwnVariables, <1>4, <1>5, <1>6, <1>7, <1>8, <1>9, <1>10, <1>11, <1>12,
     <1>13, <1>14, <1>15, <1>16, <1>17, <1>18, <1>19, <1>20 DEF ClientStep


(* The name of the output file stays in the status file.                   *)
LEMMA NamedStays ==
  ASSUME Types, worker = "replied", status.named, [Next]_vars
  PROVE  status'.named
<1>1. ~ WorkerStep /\ ~ WorkerDies
  BY DEF WorkerStep, Create, Fork, Initialize, WorkerDies
<1>2. CASE Update \/ Finalize \/ Fail
  BY <1>2 DEF Update, Finalize, Fail, Types, Status
<1>3. CASE (ChildStep \/ Throw \/ Die) /\ ~ Update /\ ~ Finalize /\ ~ Fail
  BY <1>3 DEF ChildStep, Waited, GiveUp, CreateOutput, Write, Return, Throw,
              Exit, Die, files
<1>4. ASSUME NEW c \in Clients, Start(c) \/ ClientStep(c)
      PROVE  status' = status
  BY <1>4 DEF Start, ClientStep, ReadStatus, CheckProc, NoFile, ReportError,
     ReadOutput, NoOutputYet, OutputGone, CheckRunning, Kill, KillFails,
     UnlinkOutput, UnlinkStatus, PollAgain, Leave, files
<1>5. CASE Finished \/ UNCHANGED vars
  BY <1>5 DEF Finished, vars
<1>6. QED
  BY <1>1, <1>2, <1>3, <1>4, <1>5 DEF Next

LEMMA NamedInvStep ==
  ASSUME Inv, [Next]_vars, NEW c \in Clients
  PROVE  NamedInv(c)'
<1> USE DEF Inv, NamedInv
<1>1. pc[c] # "idle" /\ status.named => status'.named
  BY Active, NamedStays
<1>2. CASE Untouched(c)
  BY <1>1, <1>2 DEF Untouched
<1>3. CASE ReadStatus(c)
  BY <1>3 DEF ReadStatus, Goto, Types, files
<1>4. CASE CheckProc(c)
  <2>1. snap'[c].named = snap[c].named /\ status' = status /\ pc[c] = "proc"
    BY <1>4 DEF CheckProc, Goto, Types, Snapshot, files
  <2>2. QED
    BY <2>1
<1>5. Start(c) => pc'[c] = "poll"
  BY DEF Start, Goto, Types
<1>6. ClientStep(c) /\ ~ ReadStatus(c) /\ ~ CheckProc(c)
        => pc'[c] \in {"poll", "clean", "unlink", "answer", "ended"}
  BY DEF ClientStep, NoFile, ReportError, ReadOutput, NoOutputYet, OutputGone,
     CheckRunning, Kill, KillFails, UnlinkOutput, UnlinkStatus, PollAgain,
     Leave, End, Goto, CallsGetOutput, Types
<1>7. Counts
  BY DEF OutputInv
<1>8. QED
  BY OwnVariables, <1>2, <1>3, <1>4, <1>5, <1>6, <1>7

LEMMA WrittenGrows ==
  ASSUME Counts, [Next]_vars
  PROVE  written' \in Nat /\ written <= written'
<1> USE DEF Counts
<1>1. CASE WorkerStep \/ WorkerDies
  BY <1>1 DEF WorkerStep, Create, Fork, Initialize, WorkerDies, files
<1>2. CASE ChildStep \/ Throw \/ Die
  BY <1>2 DEF ChildStep, Waited, GiveUp, CreateOutput, Update, Write, Return,
              Finalize, Throw, Fail, Exit, Die, files
<1>3. ASSUME NEW c \in Clients, Start(c) \/ ClientStep(c)
      PROVE  written' = written
  BY <1>3 DEF Start, ClientStep, ReadStatus, CheckProc, NoFile, ReportError,
     ReadOutput, NoOutputYet, OutputGone, CheckRunning, Kill, KillFails,
     UnlinkOutput, UnlinkStatus, PollAgain, Leave, files
<1>4. CASE Finished \/ UNCHANGED vars
  BY <1>4 DEF Finished, vars
<1>5. QED
  BY <1>1, <1>2, <1>3, <1>4 DEF Next

LEMMA PosInvStep ==
  ASSUME Inv, [Next]_vars, NEW c \in Clients
  PROVE  PosInv(c)'
<1> USE DEF Inv, PosInv
<1>1. Counts /\ size = written
  BY DEF OutputInv
<1>2. written' \in Nat /\ written <= written'
  BY <1>1, WrittenGrows
<1>3. pc[c] = "clean" => written' = written
  BY Active, Settled DEF ClientInv
<1>4. CASE Untouched(c)
  BY <1>1, <1>2, <1>3, <1>4 DEF Untouched, Counts
<1>5. CASE ReadOutput(c)
  <2>1. pos'[c] = From(c) + (IF Pending(c) THEN Length ELSE Unread(c))
    BY <1>1, <1>5 DEF ReadOutput, Counts
  <2>2. From(c) \in Nat /\ From(c) <= size
    BY <1>1 DEF From, Counts
  <2>3. Pending(c) => Length < size - From(c)
    BY <1>1, <2>2, BoundsAssumption DEF Pending, Unread, Counts
  <2>4. ~ Pending(c) => pos'[c] = size
    BY <1>1, <2>1, <2>2 DEF Unread, Counts
  <2>5. pos'[c] <= size
    BY <1>1, <2>1, <2>2, <2>3, <2>4, BoundsAssumption DEF Counts
  <2>6. pc'[c] = "clean" => ~ Pending(c)
    BY <1>5 DEF ReadOutput, Types
  <2>7. written' = written
    BY <1>5 DEF ReadOutput, files
  <2>8. QED
    BY <1>1, <2>4, <2>5, <2>6, <2>7
<1>6. CASE NoOutputYet(c)
  BY <1>6 DEF NoOutputYet, files
<1>7. CASE Start(c) \/ NoFile(c) \/ ReportError(c) \/ OutputGone(c) \/ KillFails(c)
           \/ PollAgain(c) \/ Leave(c)
  BY <1>7 DEF Start, NoFile, ReportError, OutputGone, KillFails, PollAgain,
              Leave, End, Goto, Types, files
<1>8. CASE ReadStatus(c) \/ CheckProc(c)
  BY <1>8 DEF ReadStatus, CheckProc, Goto, Types, files
<1>9. CASE CheckRunning(c) \/ Kill(c) \/ UnlinkOutput(c) \/ UnlinkStatus(c)
  BY <1>9 DEF CheckRunning, Kill, UnlinkOutput, UnlinkStatus, Goto, Types, files
<1>10. QED
  BY OwnVariables, <1>1, <1>4, <1>5, <1>6, <1>7, <1>8, <1>9 DEF ClientStep

LEMMA StopInvStep ==
  ASSUME Inv, [Next]_vars, NEW c \in Clients
  PROVE  StopInv(c)'
<1> USE DEF Inv, StopInv
<1>1. pc[c] # "idle" => worker = "replied"
  BY Active
<1>2. worker = "replied" /\ child = "gone" =>
        /\ child' = "gone" /\ status' = status /\ (outfile' => outfile)
        /\ file = "missing" => file' = "missing"
  BY Settled DEF Over
<1>3. res[c] = "stopped" => pc[c] # "idle"
  BY DEF ClientInv
<1>4. Counts
  BY DEF OutputInv
<1>5. CASE Untouched(c)
  BY <1>1, <1>2, <1>3, <1>5 DEF Untouched
<1>6. CASE Start(c) \/ ReadStatus(c) \/ CheckProc(c) \/ PollAgain(c)
  BY <1>6 DEF Start, ReadStatus, CheckProc, PollAgain, Goto, Types, ClientInv
<1>7. CASE NoFile(c) \/ ReportError(c) \/ OutputGone(c) \/ KillFails(c)
  BY <1>7 DEF NoFile, ReportError, OutputGone, KillFails, End, Goto, Types
<1>8. CASE ReadOutput(c) \/ NoOutputYet(c) \/ CheckRunning(c)
  BY <1>8 DEF ReadOutput, NoOutputYet, CheckRunning, CallsGetOutput
<1>9. CASE Kill(c)
  BY <1>9 DEF Kill, Goto, Types, ClientInv
<1>10. CASE UnlinkOutput(c)
  BY <1>10 DEF UnlinkOutput, Goto, Types, ClientInv, job
<1>11. CASE UnlinkStatus(c)
  BY <1>11 DEF UnlinkStatus, Goto, Types, ClientInv, job
<1>12. CASE Leave(c)
  BY <1>12 DEF Leave, End, Goto, Types, job, files
<1>13. QED
  BY OwnVariables, <1>4, <1>5, <1>6, <1>7, <1>8, <1>9, <1>10, <1>11, <1>12
     DEF ClientStep


(* Who has removed a file remains responsible for it.                      *)
LEMMA RemovesStays ==
  ASSUME Inv, [Next]_vars, NEW c \in Clients, Removes(c)
  PROVE  Removes(c)'
<1> USE DEF Inv, Removes
<1>1. /\ pc[c] \in {"unlink", "answer", "ended"}
      /\ pc[c] # "ended" => res[c] = "none"
  BY DEF ClientInv
<1>2. CASE Untouched(c)
  BY <1>2 DEF Untouched
<1>3. CASE UnlinkStatus(c)
  BY <1>1, <1>3 DEF UnlinkStatus, Goto, Types, ClientInv
<1>4. CASE Leave(c)
  BY <1>1, <1>4 DEF Leave, End, Goto, Types
<1>5. ~ PollAgain(c)
  BY <1>1 DEF PollAgain, Goto
<1>6. ~ Start(c) /\ (ClientStep(c) => UnlinkStatus(c) \/ Leave(c))
  BY <1>1, <1>5 DEF Start, ClientStep, ReadStatus, CheckProc, NoFile,
     ReportError, ReadOutput, NoOutputYet, OutputGone, CheckRunning, Kill,
     KillFails, UnlinkOutput, End, Goto, CallsGetOutput
<1>7. Counts
  BY DEF OutputInv
<1>8. QED
  BY OwnVariables, <1>2, <1>3, <1>4, <1>6, <1>7

LEMMA GoneInvStep ==
  ASSUME Inv, GoneInv, [Next]_vars
  PROVE  GoneInv'
<1> DEFINE Gone == \/ worker = "replied" /\ file = "missing"
                   \/ status.named /\ ~ outfile
<1>1. (\E c \in Clients : Removes(c)) => \E c \in Clients : Removes(c)'
  BY RemovesStays
<1>2. CASE WorkerStep \/ WorkerDies
  BY <1>1, <1>2 DEF WorkerStep, Create, Fork, Initialize, WorkerDies, GoneInv,
     Inv, Types, Status, WorkerInv, ChildInv, files
<1>3. CASE ChildStep \/ Throw \/ Die
  <2>1. Gone' => Gone
    BY <1>3 DEF ChildStep, Waited, GiveUp, CreateOutput, Update, Write, Return,
       Finalize, Throw, Fail, Exit, Die, ChildGoto, Inv, Types, Status,
       ChildInv, files
  <2>2. QED
    BY <1>1, <2>1 DEF GoneInv
<1>4. ASSUME NEW c \in Clients, UnlinkOutput(c) \/ UnlinkStatus(c)
      PROVE  GoneInv'
  <2>1. Removes(c)'
    <3>1. CASE UnlinkOutput(c)
      BY <3>1 DEF UnlinkOutput, Goto, Inv, Types, Removes
    <3>2. CASE UnlinkStatus(c)
      BY <3>2, RemovesStays DEF UnlinkStatus, Goto, Removes
    <3>3. QED
      BY <1>4, <3>1, <3>2
  <2>2. QED
    BY <2>1 DEF GoneInv
<1>5. ASSUME NEW c \in Clients, Start(c) \/ ClientStep(c),
             ~ UnlinkOutput(c), ~ UnlinkStatus(c)
      PROVE  UNCHANGED <<worker, file, status, outfile>>
  BY <1>5 DEF Start, ClientStep, ReadStatus, CheckProc, NoFile, ReportError,
     ReadOutput, NoOutputYet, OutputGone, CheckRunning, Kill, KillFails,
     PollAgain, Leave, files
<1>6. Finished \/ UNCHANGED vars => UNCHANGED <<worker, file, status, outfile>>
  BY DEF Finished, vars
<1>7. CASE UNCHANGED <<worker, file, status, outfile>>
  <2>1. Gone' => Gone
    BY <1>7
  <2>2. QED
    BY <1>1, <2>1 DEF GoneInv
<1>8. QED
  BY <1>2, <1>3, <1>4, <1>5, <1>6, <1>7 DEF Next, vars

-----------------------------------------------------------------------------
LEMMA InvInit == Init => Inv
<1> SUFFICES ASSUME Init PROVE Inv
  OBVIOUS
<1>1. Types
  BY DEF Init, Types, WorkerLabels, ChildLabels, Outcomes, Labels, Results,
         Status, Snapshot, NoStatus, NoSnapshot
<1>2. WorkerInv /\ ChildInv
  BY DEF Init, WorkerInv, ChildInv, NoStatus
<1>3. OutputInv
  BY BoundsAssumption DEF Init, OutputInv, Counts
<1>4. ASSUME NEW c \in Clients 
      PROVE  ClientInv(c) /\ NamedInv(c) /\ PosInv(c) /\ StopInv(c)
  BY DEF Init, ClientInv, NamedInv, PosInv, StopInv, NoSnapshot, NoStatus
<1>5. QED
  BY <1>1, <1>2, <1>3, <1>4 DEF Inv

LEMMA InvStep == Inv /\ [Next]_vars => Inv'
<1> SUFFICES ASSUME Inv, [Next]_vars PROVE Inv'
  OBVIOUS
<1>1. Types' /\ WorkerInv' /\ OutputInv'
  BY TypesStep, WorkerInvStep, OutputInvStep DEF Inv
<1>2. ChildInv'
  BY ChildInvStep DEF Inv
<1>3. ASSUME NEW c \in Clients
      PROVE  ClientInv(c)' /\ NamedInv(c)' /\ PosInv(c)' /\ StopInv(c)'
  BY ClientInvStep, NamedInvStep, PosInvStep, StopInvStep
<1>4. QED
  BY <1>1, <1>2, <1>3 DEF Inv

LEMMA InvHolds == Spec => []Inv
BY InvInit, InvStep, PTL DEF Spec

(* All variables of BgProc keep to their ranges; in particular no client   *)
(* is given more output than the process has written.                      *)
THEOREM TypeCorrect == Spec => []TypeOK
<1>1. Inv => TypeOK
  <2> SUFFICES ASSUME Inv PROVE TypeOK
    OBVIOUS
  <2>1. size \in 0..MaxOutput /\ written \in 0..MaxOutput
    BY BoundsAssumption DEF Inv, OutputInv, Counts
  <2>2. ASSUME NEW c \in Clients PROVE pos[c] \in 0..MaxOutput
    <3>1. pos[c] \in Nat /\ pos[c] <= written
      BY DEF Inv, OutputInv, Counts, PosInv
    <3>2. QED
      BY <2>1, <3>1, BoundsAssumption
  <2>3. pos \in [Clients -> 0..MaxOutput]
    BY <2>2 DEF Inv, OutputInv, Counts
  <2>4. QED
    BY <2>1, <2>3 DEF Inv, Types, TypeOK
<1>2. QED
  BY <1>1, InvHolds, PTL

(* When Exec::stop has answered, the process is dead and the files are     *)
(* gone, whatever other clients did meanwhile.                             *)
THEOREM StopCorrect == Spec => []StoppedIsGone
<1>1. Inv => StoppedIsGone
  BY DEF Inv, StopInv, StoppedIsGone, Alive
<1>2. QED
  BY <1>1, InvHolds, PTL

(* No output is removed before it was read, by the clients that read it.   *)
THEOREM OutputCorrect == Spec => UnreadOutputKept
<1> DEFINE Removal == outfile /\ ~ outfile' => \E c \in Clients : MayRemoveOutput(c)
<1>1. Inv /\ [Next]_vars => [Removal]_vars
  <2> SUFFICES ASSUME Inv, [Next]_vars, outfile, ~ outfile'
               PROVE  \E c \in Clients : MayRemoveOutput(c)
    OBVIOUS
  <2>1. PICK c \in Clients : UnlinkOutput(c)
    BY DEF Next, WorkerStep, Create, Fork, Initialize, WorkerDies, ChildStep,
       Waited, GiveUp, CreateOutput, Update, Write, Return, Finalize, Throw,
       Fail, Exit, Die, Start, ClientStep, ReadStatus, CheckProc, NoFile,
       ReportError, ReadOutput, NoOutputYet, OutputGone, CheckRunning, Kill,
       KillFails, UnlinkStatus, PollAgain, Leave, Finished, files, vars
  <2>2. QED
    BY <2>1 DEF UnlinkOutput, Goto, MayRemoveOutput, Inv, PosInv
<1>2. QED
  BY <1>1, InvHolds, PTL DEF Spec, UnreadOutputKept

(* An error is only told when the process failed or somebody else removed  *)
(* the files.                                                              *)
Justified(c) == \/ outcome = "failed" \/ kind[c] = "stop"
                \/ \E d \in Clients \ {c} : Removes(d)

LEMMA ErrorsStep ==
  ASSUME Inv, GoneInv, [Next]_vars, NEW c \in Clients,
         res[c] = "error" => Justified(c),
         res'[c] = "error"
  PROVE  Justified(c)'
<1> USE DEF Justified
<1>1. outcome = "failed" => outcome' = "failed"
  BY FailedStays DEF Inv
<1>2. ASSUME NEW d \in Clients \ {c}, Removes(d) PROVE Justified(c)'
  BY <1>2, RemovesStays
<1>3. CASE Untouched(c)
  BY <1>1, <1>2, <1>3 DEF Untouched
<1>4. ASSUME res[c] = "none", ~ Removes(c), \E d \in Clients : Removes(d)
      PROVE  Justified(c)'
  BY <1>2, <1>4
<1>5. CASE NoFile(c)
  <2>1. pc[c] \in {"poll", "clean"} /\ res[c] = "none" /\ file # "json"
    BY <1>5 DEF NoFile, End, Goto, Inv, ClientInv
  <2>2. worker = "replied" /\ file = "missing"
    BY <2>1, Active DEF Inv, WorkerInv, Types
  <2>3. ~ Removes(c)
    BY <2>1 DEF Removes
  <2>4. QED
    BY <1>4, <2>1, <2>2, <2>3 DEF GoneInv
<1>6. CASE OutputGone(c)
  <2>1. pc[c] = "act" /\ snap[c].named /\ ~ outfile /\ res[c] = "none"
    BY <1>6 DEF OutputGone, CallsGetOutput, Inv, ClientInv
  <2>2. status.named
    BY <2>1 DEF Inv, NamedInv
  <2>3. ~ Removes(c)
    BY <2>1 DEF Removes
  <2>4. QED
    BY <1>4, <2>1, <2>2, <2>3 DEF GoneInv
<1>7. CASE ReportError(c)
  BY <1>1, <1>7 DEF ReportError, Inv, ClientInv
<1>8. CASE KillFails(c)
  BY <1>8 DEF KillFails
<1>9. ASSUME Start(c) \/ (ClientStep(c) /\ ~ NoFile(c) /\ ~ OutputGone(c)
                             /\ ~ ReportError(c) /\ ~ KillFails(c))
      PROVE  FALSE
  <2>1. pc[c] # "ended" /\ res[c] = "none"
    BY <1>9 DEF Start, ClientStep, ReadStatus, CheckProc, ReadOutput,
       NoOutputYet, CheckRunning, Kill, UnlinkOutput, UnlinkStatus, PollAgain,
       Leave, End, Goto, CallsGetOutput, Inv, ClientInv
  <2>2. res'[c] # "error"
    BY <1>9, <2>1 DEF Start, ClientStep, ReadStatus, CheckProc, ReadOutput,
       NoOutputYet, CheckRunning, Kill, UnlinkOutput, UnlinkStatus, PollAgain,
       Leave, End, Inv, Types
  <2>3. QED
    BY <2>2
<1>10. QED
  BY OwnVariables, <1>3, <1>5, <1>6, <1>7, <1>8, <1>9 DEF Inv, OutputInv

THEOREM ErrorsCorrect == Spec => []ErrorsAreReal
<1>1. Init => GoneInv /\ ErrorsAreReal
  BY DEF Init, GoneInv, ErrorsAreReal, NoStatus
<1>2. Inv /\ GoneInv /\ ErrorsAreReal /\ [Next]_vars
        => GoneInv' /\ ErrorsAreReal'
  <2> SUFFICES ASSUME Inv, GoneInv, ErrorsAreReal, [Next]_vars
               PROVE  GoneInv' /\ ErrorsAreReal'
    OBVIOUS
  <2>1. ASSUME NEW c \in Clients, res'[c] = "error" PROVE Justified(c)'
    BY <2>1, ErrorsStep DEF ErrorsAreReal, Justified
  <2>2. ErrorsAreReal'
    BY <2>1 DEF ErrorsAreReal, Justified
  <2>3. QED
    BY <2>2, GoneInvStep
<1>3. QED
  BY <1>1, <1>2, InvHolds, PTL DEF Spec

-----------------------------------------------------------------------------
(* BgProc implements Job: what the callers of a background process may     *)
(* rely on, for any number of them.                                        *)

(* The outcome is known from the moment the process leaves the part in     *)
(* which it writes; only then a file is gone, or a client holds an answer  *)
(* that says that it is over.                                              *)
OutcomeInv == outcome # "none" <=> child \in Over

GoneIsOver ==
  (worker = "replied" /\ file = "missing") \/ (status.named /\ ~ outfile)
    => child \in Over

AnswerInv(c) ==
  pc[c] = "answer" /\ (kind[c] = "stop" \/ ~ snap[c].running) => child \in Over

JobInv == OutcomeInv /\ GoneIsOver /\ \A c \in Clients : AnswerInv(c)

LEMMA OutcomeStep ==
  ASSUME Types, WorkerInv, OutcomeInv, [Next]_vars
  PROVE  /\ OutcomeInv'
         /\ outcome # "none" => outcome' = outcome
<1> USE DEF OutcomeInv, Over
<1>1. CASE WorkerStep \/ WorkerDies
  BY <1>1 DEF WorkerStep, Create, Fork, Initialize, WorkerDies, job,
     WorkerInv
<1>2. CASE ChildStep \/ Throw \/ Die
  BY <1>2 DEF ChildStep, Waited, GiveUp, CreateOutput, Update, Write, Return,
     Finalize, Throw, Fail, Exit, Die, ChildGoto, job, Types, ChildLabels
<1>3. ASSUME NEW c \in Clients, Start(c) \/ ClientStep(c)
      PROVE  OutcomeInv' /\ (outcome # "none" => outcome' = outcome)
  BY <1>3 DEF Start, ClientStep, ReadStatus, CheckProc, NoFile, ReportError,
     ReadOutput, NoOutputYet, OutputGone, CheckRunning, Kill, KillFails,
     UnlinkOutput, UnlinkStatus, PollAgain, Leave, job
<1>4. CASE Finished \/ UNCHANGED vars
  BY <1>4 DEF Finished, vars, job
<1> QED
  BY <1>1, <1>2, <1>3, <1>4 DEF Next

LEMMA GoneIsOverStep ==
  ASSUME Inv, GoneIsOver, [Next]_vars
  PROVE  GoneIsOver'
<1> USE DEF GoneIsOver, Inv
<1>1. CASE WorkerStep \/ WorkerDies
  BY <1>1 DEF WorkerStep, Create, Fork, Initialize, WorkerDies, job, files,
     WorkerInv, ChildInv, Types, Status, Over
<1>2. CASE ChildStep \/ Throw \/ Die
  BY <1>2 DEF ChildStep, Waited, GiveUp, CreateOutput, Update, Write, Return,
     Finalize, Throw, Fail, Exit, Die, ChildGoto, job, files, Types, Status,
     ChildInv, Over
<1>3. ASSUME NEW c \in Clients, UnlinkOutput(c) \/ UnlinkStatus(c)
      PROVE  GoneIsOver'
  BY <1>3 DEF UnlinkOutput, UnlinkStatus, Goto, ClientInv, job
<1>4. ASSUME NEW c \in Clients, Start(c) \/ ClientStep(c),
             ~ UnlinkOutput(c), ~ UnlinkStatus(c)
      PROVE  GoneIsOver'
  BY <1>4 DEF Start, ClientStep, ReadStatus, CheckProc, NoFile, ReportError,
     ReadOutput, NoOutputYet, OutputGone, CheckRunning, Kill, KillFails,
     PollAgain, Leave, job, files, Over
<1>5. CASE Finished \/ UNCHANGED vars
  BY <1>5 DEF Finished, vars, job, files
<1> QED
  BY <1>1, <1>2, <1>3, <1>4, <1>5 DEF Next

LEMMA AnswerStep ==
  ASSUME Inv, [Next]_vars, NEW c \in Clients, AnswerInv(c)
  PROVE  AnswerInv(c)'
<1> USE DEF AnswerInv, Inv
<1>1. pc[c] # "idle" /\ child \in Over => child' \in Over
  BY Active, Settled
<1>2. CASE Untouched(c)
  BY <1>1, <1>2 DEF Untouched
<1>3. CASE ReadOutput(c) \/ NoOutputYet(c) \/ CheckRunning(c)
  <2>1. pc[c] = "act" /\ kind[c] # "stop" /\ UNCHANGED <<kind, child>>
    BY <1>3 DEF ReadOutput, NoOutputYet, CheckRunning, CallsGetOutput, job
  <2>2. snap'[c].running = snap[c].running
    BY <1>3 DEF ReadOutput, NoOutputYet, CheckRunning, Types, Snapshot
  <2>3. ~ snap[c].running => child \in Over
    BY <2>1 DEF ClientInv
  <2> QED
    BY <2>1, <2>2, <2>3
<1>4. CASE UnlinkStatus(c)
  BY <1>1, <1>4 DEF UnlinkStatus, Goto, ClientInv, Types
<1>5. ASSUME Start(c) \/ ClientStep(c), ~ ReadOutput(c), ~ NoOutputYet(c),
             ~ CheckRunning(c), ~ UnlinkStatus(c)
      PROVE  pc'[c] # "answer"
  BY <1>5 DEF Start, ClientStep, ReadStatus, CheckProc, NoFile, ReportError,
     OutputGone, Kill, KillFails, UnlinkOutput, PollAgain, Leave, End, Goto,
     Types
<1> QED
  BY OwnVariables, <1>2, <1>3, <1>4, <1>5 DEF OutputInv

LEMMA JobInvHolds == Spec => [](Inv /\ JobInv)
<1>1. Init => JobInv
  BY DEF Init, JobInv, OutcomeInv, GoneIsOver, AnswerInv, Over, NoStatus
<1>2. Inv /\ JobInv /\ [Next]_vars => JobInv'
  BY OutcomeStep, GoneIsOverStep, AnswerStep DEF JobInv, Inv
<1> QED
  BY <1>1, <1>2, InvHolds, PTL DEF Spec

-----------------------------------------------------------------------------
(* A client is told the end of a process only when it is over.             *)
LEMMA ToldWhenOver ==
  ASSUME Inv, JobInv, NEW c \in Clients, ClientStep(c), res' # res
  PROVE  Caller!Tell(c)
<1> USE DEF Inv, JobInv, Types
<1>1. CASE NoFile(c)
  <2>1. pc[c] \in {"poll", "clean"} /\ file # "json"
        /\ res' = [res EXCEPT ![c] = "error"] /\ UNCHANGED <<outcome, written, pos>>
    BY <1>1 DEF NoFile, End, Goto, job, files
  <2>2. child \in Over
    BY <2>1, Active DEF WorkerInv, GoneIsOver, ClientInv
  <2> QED
    BY <2>1, <2>2 DEF OutcomeInv, ClientInv, Caller!Tell
<1>2. CASE ReportError(c)
  BY <1>2 DEF ReportError, End, Goto, job, files, ClientInv, Caller!Tell
<1>3. CASE OutputGone(c)
  <2>1. pc[c] = "act" /\ snap[c].named /\ ~ outfile
        /\ res' = [res EXCEPT ![c] = "error"] /\ UNCHANGED <<outcome, written, pos>>
    BY <1>3 DEF OutputGone, CallsGetOutput, End, Goto, job, files
  <2>2. child \in Over
    BY <2>1 DEF NamedInv, GoneIsOver
  <2> QED
    BY <2>1, <2>2 DEF OutcomeInv, ClientInv, Caller!Tell
<1>4. CASE KillFails(c)
  <2>1. pc[c] = "act" /\ ~ Alive
        /\ res' = [res EXCEPT ![c] = "error"] /\ UNCHANGED <<outcome, written, pos>>
    BY <1>4 DEF KillFails, End, Goto, job, files
  <2>2. child \in Over
    BY <2>1, Active DEF Alive, Over
  <2> QED
    BY <2>1, <2>2 DEF OutcomeInv, ClientInv, Caller!Tell
<1>5. CASE Leave(c)
  <2>1. pc[c] = "answer" /\ (kind[c] = "stop" \/ ~ snap[c].running)
        /\ UNCHANGED <<outcome, written, pos>>
    BY <1>5 DEF Leave, End, Goto, job, files
  <2>2. \E r \in {"finished", "stopped"} : res' = [res EXCEPT ![c] = r]
    BY <1>5 DEF Leave, End
  <2> QED
    BY <2>1, <2>2 DEF OutcomeInv, AnswerInv, ClientInv, Caller!Tell
<1> QED
  BY <1>1, <1>2, <1>3, <1>4, <1>5 DEF ClientStep, ReadStatus, CheckProc,
     ReadOutput, NoOutputYet, CheckRunning, Kill, UnlinkOutput, UnlinkStatus,
     PollAgain

(* What is read of the output is never less than before.                   *)
LEMMA Reads ==
  ASSUME Inv, NEW c \in Clients, ReadOutput(c)
  PROVE  Caller!Receive(c)
<1>1. /\ pos[c] \in Nat /\ written \in Nat /\ size = written
      /\ pos[c] <= written /\ Length \in Nat \ {0}
  BY BoundsAssumption DEF Inv, OutputInv, Counts, PosInv
<1>2. pc[c] = "act" /\ res[c] = "none" /\ UNCHANGED <<outcome, written, res>>
  BY DEF ReadOutput, CallsGetOutput, job, files, Inv, ClientInv
<1> DEFINE n == From(c) + (IF Pending(c) THEN Length ELSE Unread(c))
<1>3. From(c) = pos[c] \/ (From(c) = 0 /\ ~ Pending(c))
  BY DEF From, Pending
<1>4. From(c) \in Nat /\ From(c) <= written
  BY <1>1 DEF From
<1>5. Unread(c) = written - From(c)
  BY <1>1, <1>4 DEF Unread
<1>6. n \in pos[c]..written
  BY <1>1, <1>3, <1>4, <1>5 DEF Pending
<1>7. pos' = [pos EXCEPT ![c] = n]
  BY DEF ReadOutput
<1> QED
  BY <1>2, <1>6, <1>7 DEF Caller!Receive

(* Whatever clients poll, stop or only look at the process, and whether it *)
(* returns, throws, dies or is killed, BgProc keeps the promise of Job.    *)
THEOREM JobKept == Spec => ImplementsJob
<1>1. Init => Caller!Init
  BY DEF Init, Caller!Init
<1>2. Inv /\ JobInv /\ [Next]_vars => [Caller!Next]_(Caller!vars)
  <2> SUFFICES ASSUME Inv, JobInv, [Next]_vars
               PROVE  Caller!Next \/ UNCHANGED Caller!vars
    OBVIOUS
  <2>1. CASE WorkerStep \/ WorkerDies \/ Throw
    BY <2>1 DEF WorkerStep, Create, Fork, Initialize, WorkerDies, Throw, job,
       files, clients, Caller!vars
  <2>2. CASE Write
    <3>1. outcome = "none"
      BY <2>2 DEF Write, JobInv, OutcomeInv, Over
    <3> QED
      BY <2>2, <3>1 DEF Write, job, clients, Caller!Produce, Caller!Next
  <2>3. CASE Finalize \/ Fail \/ Die
    <3>1. outcome = "none"
      BY <2>3 DEF Finalize, Fail, Die, ChildGoto, JobInv, OutcomeInv, Over
    <3>2. outcome' \in {"ok", "failed", "died"} /\ UNCHANGED <<written, pos, res>>
      BY <2>3 DEF Finalize, Fail, Die, files, clients
    <3> QED
      BY <3>1, <3>2 DEF Caller!Settle, Caller!Next
  <2>4. CASE ChildStep /\ ~ Write /\ ~ Finalize /\ ~ Fail
    BY <2>4 DEF ChildStep, Waited, GiveUp, CreateOutput, Update, Return, Exit,
       job, files, clients, Caller!vars
  <2>5. ASSUME NEW c \in Clients, ReadOutput(c) PROVE Caller!Next
    BY <2>5, Reads DEF Caller!Next
  <2>6. ASSUME NEW c \in Clients, ClientStep(c), res' # res PROVE Caller!Next
    BY <2>6, ToldWhenOver DEF Caller!Next
  <2>7. ASSUME NEW c \in Clients, Kill(c)
        PROVE  Caller!Next \/ UNCHANGED Caller!vars
    <3>1. UNCHANGED <<written, pos, res>>
      BY <2>7 DEF Kill, files
    <3>2. CASE outcome = "none"
      BY <2>7, <3>1, <3>2 DEF Kill, Caller!Settle, Caller!Next
    <3>3. CASE outcome # "none"
      BY <2>7, <3>1, <3>3 DEF Kill, Caller!vars
    <3> QED
      BY <3>2, <3>3
  <2>8. ASSUME NEW c \in Clients, Start(c) \/ (ClientStep(c) /\ res' = res),
               ~ ReadOutput(c), ~ Kill(c)
        PROVE  UNCHANGED Caller!vars
    BY <2>8 DEF Start, ClientStep, ReadStatus, CheckProc, NoFile, ReportError,
       NoOutputYet, OutputGone, CheckRunning, KillFails, UnlinkOutput,
       UnlinkStatus, PollAgain, Leave, job, files, Caller!vars
  <2>9. CASE Finished \/ UNCHANGED vars
    BY <2>9 DEF Finished, vars, Caller!vars
  <2> QED
    BY <2>1, <2>2, <2>3, <2>4, <2>5, <2>6, <2>7, <2>8, <2>9 DEF Next
<1> QED
  BY <1>1, <1>2, JobInvHolds, PTL DEF Spec, ImplementsJob, Caller!Spec
=============================================================================
