--------------------------- MODULE PendingChanges ---------------------------
(***************************************************************************)
(* What the workbench promises an administrator by its "pending changes"   *)
(* banner: a change of the configuration is pending for the modules it     *)
(* concerns from the moment it is stored, and a module is no longer        *)
(* pending only when it runs with the configuration as it is stored.       *)
(* How this comes about with locks, a list in a file, notifications and    *)
(* concurrent requests is the subject of ConfigApply.                      *)
(***************************************************************************)
CONSTANTS Objects, Modules, Listeners, Values, First

VARIABLES
  content,   \* the configuration that is stored
  running,   \* the configuration each module was last deployed from
  pending    \* the modules with changes that are not applied

vars == <<content, running, pending>>

Current(m) ==
  \A o \in Objects : m \in Listeners[o] => running[m][o] = content[o]

Init ==
  /\ content = [o \in Objects |-> First]
  /\ running = [m \in Modules |-> content]
  /\ pending = {}

Change(o) ==
  /\ \E v \in Values : content' = [content EXCEPT ![o] = v]
  /\ pending' = pending \cup Listeners[o]
  /\ UNCHANGED running

Deploy(m) ==
  /\ running' = [running EXCEPT ![m] = content]
  /\ UNCHANGED <<content, pending>>

(* Some modules, all of them deployed as stored, are applied at once.      *)
Applied ==
  /\ pending' \subseteq pending
  /\ \A m \in pending \ pending' : Current(m)
  /\ UNCHANGED <<content, running>>

Next ==
  \/ \E o \in Objects : Change(o)
  \/ \E m \in Modules : Deploy(m)
  \/ Applied

Spec == Init /\ [][Next]_vars
=============================================================================
