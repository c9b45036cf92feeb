------------------------------ MODULE MCEngine ------------------------------
(* Two deletions meet, or an unmount and an apply.                         *)
EXTENDS Engine

CONSTANTS r1, r2

MCRequests == {r1, r2}

MCMixes == {[r \in MCRequests |-> "delete"],
            [r \in MCRequests |-> IF r = r1 THEN "umount" ELSE "apply"]}
=============================================================================
