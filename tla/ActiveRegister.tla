---------------------------- MODULE ActiveRegister ----------------------------
(***************************************************************************)
(* What the run lifecycle promises to the query side: every book has one  *)
(* register that holds the run its readers are served from, or None before *)
(* the first activation.  The only operation replaces the register's value *)
(* by a run of that book in one step; it is never emptied again.           *)
(***************************************************************************)
CONSTANTS Runs, Books, BookOf, None

VARIABLE served

RegisterInit == served = [b \in Books |-> None]

Publish(r) == served' = [served EXCEPT ![BookOf[r]] = r]

RegisterNext == \E r \in Runs : Publish(r)

RegisterSpec == RegisterInit /\ [][RegisterNext]_served
===============================================================================
