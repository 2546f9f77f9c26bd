------------------------------ MODULE MCQueryPool ------------------------------
(* Three requests for two threads and slots: one more than the pool admits. *)
EXTENDS QueryPoolProps
===============================================================================
