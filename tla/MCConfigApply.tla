--------------------------- MODULE MCConfigApply ---------------------------
(* Instances of ConfigApply for TLC.                                       *)
EXTENDS ConfigApply, TLC

CONSTANTS email, share, postfix, monit

(* A change of the mail settings concerns both modules, one of the shared  *)
(* object only monit.                                                      *)
MCListeners == (email :> {postfix, monit}) @@ (share :> {monit})

(* The backup an administrator may restore is the initial configuration.   *)
MCBackups == {[o \in Objects |-> None]}

(* The two modules wait for each other.                                    *)
MCUnsortable == {{postfix, monit}}

Symmetric == Permutations(Procs)
=============================================================================
