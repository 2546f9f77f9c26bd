----------------------------- MODULE RunLifecycle -----------------------------
(***************************************************************************)
(* The life of an extraction run: RunManager (pipeline/run.py), finish_run *)
(* (pipeline/runner.py), Validator and Activator (pipeline/validation.py)  *)
(* and the CLI commands extract, activate and run-abandon (cli.py).        *)
(*                                                                         *)
(* The database holds one status per run.  Commands are operating system   *)
(* processes that share nothing else, so a command is a sequence of        *)
(* database transactions and everything it read is local to it.  One       *)
(* action is one transaction.  Activator.activate opens a transaction      *)
(* block, but its SELECT runs before the driver has issued BEGIN (the      *)
(* sqlite3 driver's default mode issues it in front of the first UPDATE),  *)
(* so the status check and the two UPDATEs are two steps.                  *)
(***************************************************************************)
EXTENDS Naturals, FiniteSets

CONSTANTS Runs,         \* run ids (uuid based, each is created once)
          Books,
          BookOf,       \* the book a run extracts
          Procs,        \* command processes that can exist at one time
          None,
          MaxCommands,  \* bound on the operator commands issued
          MaxCrashes    \* bound on the processes that die half way

ASSUME LifecycleAssumption ==
  /\ BookOf \in [Runs -> Books]
  /\ None \notin Runs
  /\ MaxCommands \in Nat
  /\ MaxCrashes \in Nat

VARIABLES status,       \* extraction_runs.status; "absent" before the INSERT
          clean,        \* what Validator.issues would find now: TRUE = no issue
          pc,           \* the next step of a process
          at,           \* the run a process works on
          current,      \* _run_activate's local variable of that name
          step,         \* position of its loop in Order
          commands,     \* commands issued so far
          crashes,      \* processes lost so far
          passed,       \* history: runs whose Validator found no issue
          forced        \* history: runs the activate command moved

db      == <<status, clean>>
local   == <<pc, at, current, step>>
history == <<passed, forced>>
vars    == <<db, local, commands, crashes, history>>

Status == {"absent", "created", "running", "validating", "ready_to_activate",
           "active", "failed", "superseded", "abandoned"}

Terminal == {"active", "failed", "superseded", "abandoned"}

\* The targets _run_activate walks through.
Order == <<"created", "running", "validating", "ready_to_activate">>

Pc == {"idle", "begin", "extract", "gate", "reject", "promote",
       "walk", "check", "swap"}

TypeOK == /\ status \in [Runs -> Status]
          /\ clean \in [Runs -> BOOLEAN]
          /\ pc \in [Procs -> Pc]
          /\ at \in [Procs -> Runs \cup {None}]
          /\ current \in [Procs -> Status]
          /\ step \in [Procs -> 1..5]
          /\ commands \in 0..MaxCommands
          /\ crashes \in 0..MaxCrashes
          /\ passed \subseteq Runs
          /\ forced \subseteq Runs
          /\ \A p \in Procs : pc[p] # "idle" => at[p] \in Runs
          /\ \A p \in Procs : pc[p] = "walk" => step[p] \in 1..4

Init == /\ status = [r \in Runs |-> "absent"]
        /\ clean = [r \in Runs |-> FALSE]
        /\ pc = [p \in Procs |-> "idle"]
        /\ at = [p \in Procs |-> None]
        /\ current = [p \in Procs |-> "absent"]
        /\ step = [p \in Procs |-> 1]
        /\ commands = 0
        /\ crashes = 0
        /\ passed = {}
        /\ forced = {}
-------------------------------------------------------------------------------
(* RunManager *)

\* With a mistake: the UPDATE without its status condition.
CanTransitionAlways(r, from) == status[r] # "absent"

\* The row changes only if the run still has the status the caller expects.
CanTransition(r, from) == status[r] = from

SetStatus(r, to) == status' = [status EXCEPT ![r] = to]

Abandonable == {"created", "running", "validating"}

Failable == {"created", "running", "retrying", "validating"}

Goto(p, label) == pc' = [pc EXCEPT ![p] = label]

\* The process ends, by returning, by typer.Exit or by an exception.
Return(p) == /\ Goto(p, "idle")
             /\ at' = [at EXCEPT ![p] = None]
             /\ current' = [current EXCEPT ![p] = "absent"]
             /\ step' = [step EXCEPT ![p] = 1]

\* A command starts in an idle process.
Issue(p) == /\ pc[p] = "idle"
            /\ commands < MaxCommands
            /\ commands' = commands + 1
-------------------------------------------------------------------------------
(* extract: create, start, run the pipeline, end.  The CLI leaves the run  *)
(* running; the evaluation driver goes on to finish_run.                   *)

Create(p, r) == /\ Issue(p)
                /\ status[r] = "absent"
                /\ SetStatus(r, "created")
                /\ Goto(p, "begin")
                /\ at' = [at EXCEPT ![p] = r]
                /\ UNCHANGED <<clean, current, step, crashes, history>>

\* assert mgr.transition(run_id, CREATED, RUNNING)
Begin(p) == /\ pc[p] = "begin"
            /\ IF CanTransition(at[p], "created")
               THEN /\ SetStatus(at[p], "running")
                    /\ Goto(p, "extract")
                    /\ UNCHANGED <<at, current, step>>
               ELSE Return(p) /\ UNCHANGED status
            /\ UNCHANGED <<clean, commands, crashes, history>>

EndExtract(p) == /\ pc[p] = "extract"
                 /\ Return(p)
                 /\ UNCHANGED <<db, commands, crashes, history>>

\* Checkpoints, claims and evidence are written: by the run's own pipeline,
\* but also by an align of any other run over the shared claim rows.
WriteProducts(r) == /\ status[r] # "absent"
                    /\ clean' = [clean EXCEPT ![r] = ~clean[r]]
                    /\ UNCHANGED <<status, local, commands, crashes, history>>
-------------------------------------------------------------------------------
(* finish_run *)

StartFinish(p) == /\ pc[p] = "extract"
                  /\ IF CanTransition(at[p], "running")
                     THEN /\ SetStatus(at[p], "validating")
                          /\ Goto(p, "gate")
                          /\ UNCHANGED <<at, current, step>>
                     ELSE Return(p) /\ UNCHANGED status
                  /\ UNCHANGED <<clean, commands, crashes, history>>

\* With a mistake: the issues are reported and not acted on.
GateAdvisory(p) == /\ pc[p] = "gate"
                   /\ Goto(p, "promote")
                   /\ passed' = IF clean[at[p]] THEN passed \cup {at[p]} ELSE passed
                   /\ UNCHANGED <<db, at, current, step, commands, crashes, forced>>

\* Validator.issues reads; what it found is acted on in a later transaction.
Gate(p) == /\ pc[p] = "gate"
           /\ Goto(p, IF clean[at[p]] THEN "promote" ELSE "reject")
           /\ passed' = IF clean[at[p]] THEN passed \cup {at[p]} ELSE passed
           /\ UNCHANGED <<db, at, current, step, commands, crashes, forced>>

\* mgr.fail
Reject(p) == /\ pc[p] = "reject"
             /\ IF status[at[p]] \in Failable
                THEN SetStatus(at[p], "failed")
                ELSE UNCHANGED status
             /\ Return(p)
             /\ UNCHANGED <<clean, commands, crashes, history>>

\* With a mistake: the activation is left for later.
PromoteOnly(p) == /\ pc[p] = "promote"
                  /\ IF CanTransition(at[p], "validating")
                     THEN SetStatus(at[p], "ready_to_activate")
                     ELSE UNCHANGED status
                  /\ Return(p)
                  /\ UNCHANGED <<clean, commands, crashes, history>>

Promote(p) == /\ pc[p] = "promote"
              /\ IF CanTransition(at[p], "validating")
                 THEN /\ SetStatus(at[p], "ready_to_activate")
                      /\ Goto(p, "check")
                      /\ UNCHANGED <<at, current, step>>
                 ELSE Return(p) /\ UNCHANGED status
              /\ UNCHANGED <<clean, commands, crashes, history>>
-------------------------------------------------------------------------------
(* Activator.activate *)

\* With a mistake: the old run is superseded in a transaction of its own.
CheckSupersedes(p) ==
  /\ pc[p] = "check"
  /\ IF status[at[p]] = "ready_to_activate"
     THEN /\ status' = [r \in Runs |-> IF /\ BookOf[r] = BookOf[at[p]]
                                         /\ status[r] = "active"
                                      THEN "superseded" ELSE status[r]]
          /\ Goto(p, "swap")
          /\ UNCHANGED <<at, current, step>>
     ELSE Return(p) /\ UNCHANGED status
  /\ UNCHANGED <<clean, commands, crashes, history>>

Check(p) == /\ pc[p] = "check"
            /\ IF status[at[p]] = "ready_to_activate"
               THEN Goto(p, "swap") /\ UNCHANGED <<at, current, step>>
               ELSE Return(p)
            /\ UNCHANGED <<db, commands, crashes, history>>

\* With a mistake: the UPDATE of the old run is missing.
SwapOnlyNew(p) == /\ pc[p] = "swap"
                  /\ SetStatus(at[p], "active")
                  /\ Return(p)
                  /\ UNCHANGED <<clean, commands, crashes, history>>

\* One write transaction: the book's active run is superseded, then this run
\* is made active whatever its status is by now.
Swap(p) == /\ pc[p] = "swap"
           /\ status' = [r \in Runs |->
                           IF r = at[p] THEN "active"
                           ELSE IF /\ BookOf[r] = BookOf[at[p]]
                                   /\ status[r] = "active"
                                THEN "superseded"
                                ELSE status[r]]
           /\ Return(p)
           /\ UNCHANGED <<clean, commands, crashes, history>>
-------------------------------------------------------------------------------
(* The activate command: it reads the run, refuses three of the final      *)
(* statuses, and walks the run through Order from whatever it read.        *)

Refused == {"active", "superseded", "failed"}

Activate(p, r) == /\ Issue(p)
                  /\ status[r] \notin Refused \cup {"absent"}
                  /\ Goto(p, "walk")
                  /\ at' = [at EXCEPT ![p] = r]
                  /\ current' = [current EXCEPT ![p] = status[r]]
                  /\ step' = [step EXCEPT ![p] = IF status[r] = Order[1]
                                                 THEN 2 ELSE 1]
                  /\ UNCHANGED <<db, crashes, history>>

Walk(p) ==
  /\ pc[p] = "walk"
  /\ IF CanTransition(at[p], current[p])
     THEN /\ SetStatus(at[p], Order[step[p]])
          /\ current' = [current EXCEPT ![p] = Order[step[p]]]
          /\ step' = [step EXCEPT ![p] = step[p] + 1]
          /\ Goto(p, IF step[p] = 4 THEN "check" ELSE "walk")
          /\ forced' = forced \cup {at[p]}
          /\ UNCHANGED at
     ELSE Return(p) /\ UNCHANGED <<status, forced>>
  /\ UNCHANGED <<clean, commands, crashes, passed>>
-------------------------------------------------------------------------------
(* run-abandon: one guarded UPDATE *)

Abandon(p, r) == /\ Issue(p)
                 /\ status[r] \in Abandonable
                 /\ SetStatus(r, "abandoned")
                 /\ UNCHANGED <<clean, local, crashes, history>>

\* The process is killed, or a write meets a lock for longer than the busy
\* timeout and raises: whatever was committed stays.
Crash(p) == /\ pc[p] # "idle"
            /\ crashes < MaxCrashes
            /\ crashes' = crashes + 1
            /\ Return(p)
            /\ UNCHANGED <<db, commands, history>>
-------------------------------------------------------------------------------
\* The steps a live process takes on its own.
Proceed(p) == \/ Begin(p) \/ EndExtract(p) \/ StartFinish(p)
              \/ Gate(p) \/ Reject(p) \/ Promote(p)
              \/ Check(p) \/ Swap(p) \/ Walk(p)

Next == \/ \E p \in Procs : Proceed(p) \/ Crash(p)
        \/ \E p \in Procs, r \in Runs :
             Create(p, r) \/ Activate(p, r) \/ Abandon(p, r)
        \/ \E r \in Runs : WriteProducts(r)

Spec == Init /\ [][Next]_vars

\* A process that is not killed keeps executing.
FairSpec == Spec /\ \A p \in Procs : WF_vars(Proceed(p))
===============================================================================
