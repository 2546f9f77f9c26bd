---------------------------- MODULE MCRunLifecycle ----------------------------
(* Two books; r1 and r2 compete for the first one. *)
EXTENDS RunLifecycleProps

CONSTANTS r1, r2, r3, b1, b2

MCRuns   == {r1, r2, r3}
MCBooks  == {b1, b2}
MCBookOf == [r \in MCRuns |-> IF r = r3 THEN b2 ELSE b1]
===============================================================================
