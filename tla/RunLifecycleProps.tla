-------------------------- MODULE RunLifecycleProps --------------------------
(***************************************************************************)
(* What the run lifecycle guarantees, and the statements about it that the *)
(* repository makes and the code does not keep.                            *)
(***************************************************************************)
EXTENDS RunLifecycle

\* Queries read through "the active run of the book": whatever commands run
\* side by side and die half way, a book never has two active runs.
\* Activator.activate supersedes and activates in one transaction.
OneActivePerBook ==
  \A r, s \in Runs : /\ status[r] = "active"
                     /\ status[s] = "active"
                     /\ BookOf[r] = BookOf[s]
                     => r = s

ActiveRuns(b) == {r \in Runs : BookOf[r] = b /\ status[r] = "active"}

Sole(A) == IF A = {} THEN None ELSE CHOOSE r \in A : TRUE

\* The run a query of the book is served from.
Served == [b \in Books |-> Sole(ActiveRuns(b))]

Register == INSTANCE ActiveRegister WITH served <- Served

\* The lifecycle implements one atomic register per book: the served run only
\* changes to another run of the same book in a single step, and a failing,
\* abandoned or crashed command never leaves a served book without a run.
ImplementsRegister == Register!RegisterSpec

\* A run gets past validation only because its validator found nothing, or
\* because an operator's activate command walked it there: no interleaving
\* with fail, abandon or a second finish lets a rejected run through.
GateOrForced ==
  \A r \in Runs : status[r] \in {"ready_to_activate", "active", "superseded"}
                  => r \in passed \cup forced

\* Where a process stands tells what has been decided about its run: this is
\* what makes GateOrForced and FinalStatusExits inductive.
ControlInv ==
  \A p \in Procs :
    /\ pc[p] = "promote" => at[p] \in passed
    /\ pc[p] \in {"check", "swap"} => at[p] \in passed \cup forced
    /\ pc[p] = "walk" => /\ current[p] \notin Refused \cup {"absent"}
                         /\ current[p] = "abandoned" => step[p] = 1

LifecycleInv == OneActivePerBook /\ GateOrForced /\ ControlInv

\* How a final status can still be left.  The compare-and-set of transition
\* keeps a command that read the run earlier from dragging a failed or
\* superseded run back into the pipeline; what remains is the hand-over of
\* the served run, Activator's unconditional UPDATE, and the activate
\* command's walk, which does not refuse abandoned runs.
FinalStatusExits ==
  [][\A r \in Runs :
       status[r] \in Terminal /\ status'[r] # status[r]
       => \/ status[r] = "active" /\ status'[r] = "superseded"
          \/ status[r] # "active" /\ status'[r] = "active"
          \/ status[r] = "abandoned" /\ status'[r] = "created"]_status

\* A process that is finishing or activating a run and whose view of it is
\* still the stored one.
Leads(p, r) == /\ at[p] = r
               /\ \/ pc[p] = "walk" /\ status[r] = current[p]
                  \/ pc[p] \in {"gate", "reject", "promote"} /\ status[r] = "validating"
                  \/ pc[p] \in {"check", "swap"} /\ status[r] = "ready_to_activate"

BeingExtracted(r) == \E p \in Procs : at[p] = r /\ pc[p] \in {"begin", "extract"}

\* Commands can make each other's compare-and-set fail, yet a run that is being
\* finished or activated is not left behind: it reaches a final status, or its
\* extraction takes it over, unless a process is killed.
Settles ==
  \A r \in Runs : (\E p \in Procs : Leads(p, r))
                    ~> status[r] \in Terminal \/ BeingExtracted(r) \/ crashes > 0
===============================================================================
