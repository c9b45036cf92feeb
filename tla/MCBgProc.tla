------------------------------ MODULE MCBgProc ------------------------------
(* Instances of BgProc for model checking: the owner and one client that   *)
(* finds the process with enumerate.                                       *)
EXTENDS BgProc

CONSTANTS owner, other

MCClients == {owner, other}

(* The workbench polls the tasks it has started.                           *)
TaskOnly == {"task"}
=============================================================================
