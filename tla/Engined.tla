------------------------------ MODULE Engined ------------------------------
(***************************************************************************)
(* The engine daemon omv-engined and its callers (Rpc::call).              *)
(*                                                                         *)
(* A caller connects to the socket of the daemon, writes its request and   *)
(* reads the answer until its receive timeout.  The daemon accepts one     *)
(* connection at a time, reads the request and forks a worker for it.  The *)
(* worker answers and exits; the daemon reaps it when it sees SIGCHLD.  On *)
(* SIGTERM the daemon sends SIGTERM to all its workers, waits for them and *)
(* removes the socket.  Signals are only noted when they arrive: their     *)
(* handlers run where the main loop dispatches them.                       *)
(*                                                                         *)
(* The daemon keeps the connection it accepted last open until it accepts  *)
(* the next one.  Its workers inherit the listening socket: when the       *)
(* daemon dies on its own, callers can still connect, to nobody.           *)
(***************************************************************************)
EXTENDS Naturals, Sequences

CONSTANTS
  Requests,        \* the requests, one caller and at most one worker each
  MaxConnections,  \* the connections that wait: $maxConnections
  MaxAttempt,      \* OMV_ENGINED_SO_CONNECT_MAX_ATTEMPT
  MaxFaults,       \* bound: the faults and signals that occur
  NoConn           \* the daemon holds no connection

ASSUME RequestsAssumption == NoConn \notin Requests

ASSUME BoundsAssumption == /\ MaxConnections \in Nat /\ MaxAttempt \in Nat \ {0}
                           /\ MaxFaults \in Nat

VARIABLES
  daemon,    \* where the daemon is in its main loop
  sigs,      \* the signals noted but not dispatched
  sigTerm,   \* the flags of signalHandler
  sigChld,
  children,  \* $children: the workers the daemon has to reap
  unkilled,  \* those killChld has still to signal
  conn,      \* $conn: the connection accepted last
  backlog,   \* the connections that wait to be accepted
  worker,    \* where the worker of each request is
  caller,    \* where the caller of each request is
  attempt,   \* how often it has failed to connect
  sent,      \* the requests that have been written to their connection
  reply,     \* the answer in the connection
  stranded,  \* the connections left in the backlog of a dead daemon
  orphans,   \* auxiliary: the workers whose daemon died without its cleanup
  faults     \* auxiliary: the faults and signals that have occurred

daemonVars == <<daemon, sigs, sigTerm, sigChld, children, unkilled, conn,
                backlog, worker, caller, attempt, sent, reply, stranded,
                orphans, faults>>
flags == <<sigTerm, sigChld>>
calls == <<caller, attempt, sent>>
links == <<reply, stranded>>
others == <<calls, links, orphans, faults>>

DaemonLabels == {"loop", "select", "read", "stop", "down", "failed"}
WorkerLabels == {"none", "fresh", "running", "zombie", "reaped"}
Answers == {"ok", "error"}
CallerLabels == {"connect", "write", "read", "ok", "error", "timeout", "gone"}

Up == daemon \notin {"down", "failed"}

Alive(r) == worker[r] \in {"fresh", "running"}

(* The socket listens while a process has it open.                         *)
Listening == Up \/ (daemon = "failed" /\ \E r \in Requests : Alive(r))

Queued(r) == \E i \in 1 .. Len(backlog) : backlog[i] = r

(* The other end of the connection of r is closed.                         *)
Closed(r) == /\ ~(Queued(r) /\ Listening)
             /\ ~(r \in stranded /\ \E o \in orphans : Alive(o))
             /\ conn # r
             /\ ~Alive(r)

DaemonInit ==
  /\ daemon = "loop"
  /\ sigs = {} /\ sigTerm = FALSE /\ sigChld = FALSE
  /\ children = {} /\ unkilled = {}
  /\ conn = NoConn /\ backlog = <<>> /\ stranded = {}
  /\ worker = [r \in Requests |-> "none"]
  /\ caller = [r \in Requests |-> "connect"]
  /\ attempt = [r \in Requests |-> 0]
  /\ sent = {}
  /\ reply = [r \in Requests |-> "none"]
  /\ orphans = {}
  /\ faults = 0

(* A signal, or a process that dies.                                       *)
Fault == faults < MaxFaults /\ faults' = faults + 1

-----------------------------------------------------------------------------
(* Rpc::call.                                                              *)

CallerTo(r, from, to) ==
  caller[r] = from /\ caller' = [caller EXCEPT ![r] = to]

serverVars == <<daemon, sigs, flags, children, unkilled, conn, worker,
                links, orphans>>

(* connect blocks while the backlog is full.                               *)
Connect(r) ==
  /\ Listening
  /\ Len(backlog) <= MaxConnections
  /\ CallerTo(r, "connect", "write")
  /\ backlog' = Append(backlog, r)
  /\ UNCHANGED <<serverVars, attempt, sent, faults>>

(* Mutant: one attempt too many.                                           *)
ConnectFails_Late(r) ==
  /\ ~Listening
  /\ CallerTo(r, "connect",
              IF attempt[r] < MaxAttempt THEN "connect" ELSE "error")
  /\ attempt' = [attempt EXCEPT ![r] = @ + 1]
  /\ UNCHANGED <<serverVars, backlog, sent, faults>>

ConnectFails(r) ==
  /\ ~Listening
  /\ CallerTo(r, "connect",
              IF attempt[r] + 1 < MaxAttempt THEN "connect" ELSE "error")
  /\ attempt' = [attempt EXCEPT ![r] = @ + 1]
  /\ UNCHANGED <<serverVars, backlog, sent, faults>>

Write(r) ==
  /\ ~Closed(r)
  /\ CallerTo(r, "write", "read")
  /\ sent' = sent \cup {r}
  /\ UNCHANGED <<serverVars, backlog, attempt, faults>>

WriteFails(r) ==
  /\ Closed(r)
  /\ CallerTo(r, "write", "error")
  /\ UNCHANGED <<serverVars, backlog, attempt, sent, faults>>

ReadReply(r) ==
  /\ reply[r] # "none"
  /\ CallerTo(r, "read", reply[r])
  /\ UNCHANGED <<serverVars, backlog, attempt, sent, faults>>

(* No answer comes any more: "Invalid RPC response".                       *)
ReadEnd(r) ==
  /\ reply[r] = "none" /\ Closed(r)
  /\ CallerTo(r, "read", "error")
  /\ UNCHANGED <<serverVars, backlog, attempt, sent, faults>>

(* OMV_ENGINED_SO_RCVTIMEO is over.                                        *)
Timeout(r) ==
  /\ reply[r] = "none"
  /\ CallerTo(r, "read", "timeout")
  /\ UNCHANGED <<serverVars, backlog, attempt, sent, faults>>

CallerDies(r) ==
  /\ Fault
  /\ caller[r] \in {"write", "read"}
  /\ caller' = [caller EXCEPT ![r] = "gone"]
  /\ UNCHANGED <<serverVars, backlog, attempt, sent>>

CallerStep(r) == \/ Connect(r) \/ ConnectFails(r) \/ Write(r) \/ WriteFails(r)
                 \/ ReadReply(r) \/ ReadEnd(r) \/ Timeout(r)

-----------------------------------------------------------------------------
(* The main loop.                                                          *)

DaemonTo(from, to) == daemon = from /\ daemon' = to

Zombies == {r \in children : worker[r] = "zombie"}

(* handleSigChld: waitpid as long as it returns a child.                   *)
HandleSigChld ==
  /\ worker' = [r \in Requests |->
                 IF r \in Zombies THEN "reaped" ELSE worker[r]]
  /\ children' = children \ Zombies
  /\ sigChld' = FALSE

(* pcntl_signal_dispatch                                                   *)
Dispatch == /\ sigTerm' = (sigTerm \/ "TERM" \in sigs)
            /\ sigChld' = (sigChld \/ "CHLD" \in sigs)
            /\ sigs' = {}

(* The end of the loop, which is the beginning of the next one.            *)
Reap ==
  /\ daemon = "loop" /\ sigChld
  /\ HandleSigChld
  /\ UNCHANGED <<daemon, sigs, sigTerm, unkilled, conn, backlog, others>>

Loop ==
  /\ ~sigChld /\ ~sigTerm
  /\ DaemonTo("loop", "select")
  /\ Dispatch
  /\ UNCHANGED <<children, unkilled, conn, backlog, worker, others>>

(* select returns because its second is over ...                           *)
SelectNone ==
  /\ backlog = <<>>
  /\ DaemonTo("select", "loop")
  /\ UNCHANGED <<sigs, flags, children, unkilled, conn, backlog, worker,
                 others>>

(* ... because of a signal that came meanwhile ...                         *)
SelectSignal ==
  /\ sigs # {}
  /\ DaemonTo("select", "loop")
  /\ Dispatch
  /\ UNCHANGED <<children, unkilled, conn, backlog, worker, others>>

(* ... or because a connection waits.                                      *)
Accept ==
  /\ backlog # <<>>
  /\ DaemonTo("select", "read")
  /\ conn' = Head(backlog)
  /\ backlog' = Tail(backlog)
  /\ UNCHANGED <<sigs, flags, children, unkilled, worker, others>>

ForkWorker ==
  /\ DaemonTo("read", "loop")
  /\ worker' = [worker EXCEPT ![conn] = "fresh"]
  /\ UNCHANGED <<sigs, flags, unkilled, conn, backlog, others>>

(* Mutant: only a request that ends as it should ends the loop.            *)
Fork_Complete ==
  /\ ForkWorker
  /\ conn \in sent
  /\ children' = children \cup {conn}

(* Mutant: a worker is not recorded when the daemon is about to stop.      *)
Fork_Unrecorded ==
  /\ ForkWorker
  /\ conn \in sent \/ caller[conn] = "gone"
  /\ children' = IF sigTerm THEN children ELSE children \cup {conn}

(* The request is read, until it is complete or its caller is gone, and a  *)
(* worker forked.                                                          *)
Fork ==
  /\ ForkWorker
  /\ conn \in sent \/ caller[conn] = "gone"
  /\ children' = children \cup {conn}

-----------------------------------------------------------------------------
(* The end of the daemon: killChld and the cleanup.                        *)

Stop ==
  /\ sigTerm /\ ~sigChld
  /\ DaemonTo("loop", "stop")
  /\ unkilled' = children
  /\ UNCHANGED <<sigs, flags, children, conn, backlog, worker, others>>

(* A worker that still has the handlers of the daemon only notes SIGTERM.  *)
KillChild(r) ==
  /\ r \in unkilled
  /\ daemon = "stop"
  /\ unkilled' = unkilled \ {r}
  /\ IF worker[r] = "running"
     THEN /\ worker' = [worker EXCEPT ![r] = "zombie"]
          /\ sigs' = sigs \cup {"CHLD"}
     ELSE UNCHANGED <<worker, sigs>>
  /\ UNCHANGED <<daemon, flags, children, conn, backlog, others>>

(* Mutant: killChld waits for signals it does not dispatch.                *)
Wait_Flagged ==
  /\ children # {} /\ unkilled = {}
  /\ daemon = "stop" /\ sigChld
  /\ HandleSigChld
  /\ UNCHANGED <<daemon, sigs, sigTerm, unkilled, conn, backlog, others>>

Wait ==
  /\ children # {} /\ unkilled = {}
  /\ daemon = "stop"
  /\ HandleSigChld
  /\ UNCHANGED <<daemon, sigs, sigTerm, unkilled, conn, backlog, others>>

Cleanup ==
  /\ children = {}
  /\ DaemonTo("stop", "down")
  /\ conn' = NoConn /\ backlog' = <<>>
  /\ UNCHANGED <<sigs, flags, children, unkilled, worker, others>>

DaemonStep == \/ Reap \/ Loop \/ SelectNone \/ SelectSignal \/ Accept \/ Fork
              \/ Stop \/ Wait \/ Cleanup

-----------------------------------------------------------------------------
(* Signals, and a daemon that fails to fork or is killed: init reaps its   *)
(* workers.                                                                *)

Terminate ==
  /\ Up
  /\ Fault
  /\ sigs' = sigs \cup {"TERM"}
  /\ UNCHANGED <<daemon, flags, children, unkilled, conn, backlog, worker,
                 calls, links, orphans>>

Crash ==
  /\ Up
  /\ Fault
  /\ daemon' = "failed"
  /\ worker' = [r \in Requests |->
                 IF r \in Zombies THEN "reaped" ELSE worker[r]]
  /\ orphans' = orphans \cup children
  /\ children' = {} /\ unkilled' = {}
  /\ conn' = NoConn
  /\ UNCHANGED <<sigs, flags, backlog, calls, links>>

(* The socket is bound anew: who waits at the old one is not served.       *)
Start ==
  /\ ~Up
  /\ daemon' = "loop"
  /\ sigs' = {} /\ sigTerm' = FALSE /\ sigChld' = FALSE
  /\ stranded' = stranded \cup {r \in Requests : Queued(r)}
  /\ backlog' = <<>>
  /\ UNCHANGED <<children, unkilled, conn, worker, calls, reply, orphans,
                 faults>>

-----------------------------------------------------------------------------
(* The workers.                                                            *)

ResetSignals(r) ==
  /\ worker[r] = "fresh"
  /\ worker' = [worker EXCEPT ![r] = "running"]
  /\ UNCHANGED <<daemon, sigs, flags, children, unkilled, conn, backlog,
                 others>>

(* A process that ends is a zombie until its daemon has waited for it.     *)
Exit(r) ==
  /\ worker' = [worker EXCEPT ![r] = IF r \in children THEN "zombie"
                                                       ELSE "reaped"]
  /\ sigs' = IF r \in children THEN sigs \cup {"CHLD"} ELSE sigs
  /\ UNCHANGED <<daemon, flags, children, unkilled, conn, calls, orphans>>

(* A request that was not read to its end, or is no JSON, is an error.     *)
Respond(r, answer) ==
  /\ worker[r] = "running"
  /\ r \notin sent => answer = "error"
  /\ reply' = [reply EXCEPT ![r] = answer]
  /\ Exit(r)
  /\ UNCHANGED <<backlog, stranded, faults>>

WorkerDies(r) ==
  /\ Alive(r)
  /\ Fault
  /\ Exit(r)
  /\ UNCHANGED <<backlog, links>>

WorkerStep(r) == ResetSignals(r) \/ \E answer \in Answers : Respond(r, answer)

DaemonNext ==
  \/ DaemonStep
  \/ \E r \in Requests : KillChild(r)
  \/ Terminate \/ Crash \/ Start
  \/ \E r \in Requests : CallerStep(r) \/ CallerDies(r)
  \/ \E r \in Requests : WorkerStep(r) \/ WorkerDies(r)

DaemonSpec == DaemonInit /\ [][DaemonNext]_daemonVars

-----------------------------------------------------------------------------
DaemonTypeOK ==
  /\ daemon \in DaemonLabels
  /\ sigs \subseteq {"TERM", "CHLD"}
  /\ sigTerm \in BOOLEAN /\ sigChld \in BOOLEAN
  /\ children \subseteq Requests
  /\ unkilled \subseteq children
  /\ conn \in Requests \cup {NoConn}
  /\ backlog \in Seq(Requests)
  /\ worker \in [Requests -> WorkerLabels]
  /\ caller \in [Requests -> CallerLabels]
  /\ attempt \in [Requests -> 0 .. MaxAttempt]
  /\ sent \subseteq Requests
  /\ reply \in [Requests -> Answers \cup {"none"}]
  /\ stranded \subseteq Requests
  /\ orphans \subseteq Requests
  /\ faults \in 0 .. MaxFaults

(* A daemon that has stopped leaves no worker behind, not even one it      *)
(* forked after the signal or one that has swallowed it; only the workers  *)
(* of a daemon that died remain (omv-engined: killChld).                   *)
StopsItsOwn ==
  daemon = "down" => \A r \in Requests : Alive(r) \/ worker[r] = "zombie"
                                           => r \in orphans
=============================================================================
