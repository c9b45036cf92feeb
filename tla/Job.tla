-------------------------------- MODULE Job --------------------------------
(***************************************************************************)
(* What the callers of a background process may rely on: it produces       *)
(* output and then ends, once and for all; a caller is given more and more *)
(* of the output there is, and is told that the process is over when it    *)
(* is, and once.  How callers learn this from two files and from /proc is  *)
(* the subject of BgProc.                                                  *)
(***************************************************************************)
EXTENDS Naturals

CONSTANTS Clients

VARIABLES
  outcome,  \* how the process has ended, "none" while it has not
  made,     \* the pieces of output there are
  got,      \* the pieces each client has been given
  told      \* what each client was told in the end

vars == <<outcome, made, got, told>>

Init ==
  /\ outcome = "none" /\ made = 0
  /\ got = [c \in Clients |-> 0]
  /\ told = [c \in Clients |-> "none"]

Produce ==
  /\ outcome = "none" /\ made' = made + 1
  /\ UNCHANGED <<outcome, got, told>>

Settle ==
  /\ outcome = "none" /\ outcome' \in {"ok", "failed", "died", "stopped"}
  /\ UNCHANGED <<made, got, told>>

Receive(c) ==
  /\ told[c] = "none"
  /\ \E n \in got[c]..made : got' = [got EXCEPT ![c] = n]
  /\ UNCHANGED <<outcome, made, told>>

Tell(c) ==
  /\ outcome # "none" /\ told[c] = "none"
  /\ \E r \in {"finished", "error", "stopped"} : told' = [told EXCEPT ![c] = r]
  /\ UNCHANGED <<outcome, made, got>>

Next == Produce \/ Settle \/ \E c \in Clients : Receive(c) \/ Tell(c)

Spec == Init /\ [][Next]_vars
=============================================================================
