-------------------------- MODULE RunLifecycleProofs --------------------------
(***************************************************************************)
(* Proofs for RunLifecycle, for any number of runs, books, processes,      *)
(* commands and crashes.                                                   *)
(***************************************************************************)
EXTENDS RunLifecycleProps, TLAPS

\* Types: every variable of the lifecycle stays in its declared range, and a
\* process that is inside a command always names an existing run.
THEOREM LifecycleTyping == Spec => []TypeOK
<1> USE LifecycleAssumption DEF TypeOK
<1>1. Init => TypeOK
  BY DEF Init, Status, Pc
<1>2. TypeOK /\ [Next]_vars => TypeOK'
  <2> SUFFICES ASSUME TypeOK, [Next]_vars
               PROVE  TypeOK'
    OBVIOUS
  <2> USE DEF Status, Pc, db, local, history, Goto, Return, Issue, SetStatus,
              CanTransition
  <2>1. ASSUME NEW p \in Procs, NEW r \in Runs, Create(p, r) PROVE TypeOK'
    BY <2>1 DEF Create
  <2>2. ASSUME NEW p \in Procs, Begin(p) PROVE TypeOK'
    BY <2>2 DEF Begin
  <2>3. ASSUME NEW p \in Procs, EndExtract(p) PROVE TypeOK'
    BY <2>3 DEF EndExtract
  <2>4. ASSUME NEW r \in Runs, WriteProducts(r) PROVE TypeOK'
    BY <2>4 DEF WriteProducts
  <2>5. ASSUME NEW p \in Procs, StartFinish(p) PROVE TypeOK'
    BY <2>5 DEF StartFinish
  <2>6. ASSUME NEW p \in Procs, Gate(p) PROVE TypeOK'
    BY <2>6 DEF Gate
  <2>7. ASSUME NEW p \in Procs, Reject(p) PROVE TypeOK'
    BY <2>7 DEF Reject
  <2>8. ASSUME NEW p \in Procs, Promote(p) PROVE TypeOK'
    BY <2>8 DEF Promote
  <2>9. ASSUME NEW p \in Procs, Check(p) PROVE TypeOK'
    BY <2>9 DEF Check
  <2>10. ASSUME NEW p \in Procs, Swap(p) PROVE TypeOK'
    BY <2>10 DEF Swap
  <2>11. ASSUME NEW p \in Procs, NEW r \in Runs, Activate(p, r) PROVE TypeOK'
    BY <2>11 DEF Activate, Order, Refused
  <2>12. ASSUME NEW p \in Procs, Walk(p) PROVE TypeOK'
    BY <2>12 DEF Walk, Order
  <2>13. ASSUME NEW p \in Procs, NEW r \in Runs, Abandon(p, r) PROVE TypeOK'
    BY <2>13 DEF Abandon
  <2>14. ASSUME NEW p \in Procs, Crash(p) PROVE TypeOK'
    BY <2>14 DEF Crash
  <2>15. CASE UNCHANGED vars
    BY <2>15 DEF vars
  <2> QED
    BY <2>1, <2>2, <2>3, <2>4, <2>5, <2>6, <2>7, <2>8, <2>9, <2>10, <2>11,
       <2>12, <2>13, <2>14, <2>15 DEF Next, Proceed
<1> QED
  BY <1>1, <1>2, PTL DEF Spec
-------------------------------------------------------------------------------
\* A transaction that leaves no run active beyond those that were keeps the
\* books at one active run each.
LEMMA NoNewActive ==
  ASSUME OneActivePerBook,
         \A r \in Runs : status'[r] = "active" => status[r] = "active"
  PROVE  OneActivePerBook'
BY DEF OneActivePerBook

\* The inductive invariant: one active run per book, nothing past the gate but
\* validated or forced runs, and what a process's program counter implies.
THEOREM LifecycleInvariance == Spec => []LifecycleInv
<1> USE LifecycleAssumption
<1>1. Init => LifecycleInv
  BY DEF Init, LifecycleInv, OneActivePerBook, GateOrForced, ControlInv
<1>2. TypeOK /\ LifecycleInv /\ [Next]_vars => LifecycleInv'
  <2> SUFFICES ASSUME TypeOK, LifecycleInv, [Next]_vars
               PROVE  LifecycleInv'
    OBVIOUS
  <2> USE DEF LifecycleInv, GateOrForced, ControlInv, TypeOK, Status,
              db, local, history, Goto, Return, Issue, SetStatus, CanTransition
  <2>1. ASSUME NEW p \in Procs, NEW r \in Runs, Create(p, r) PROVE LifecycleInv'
    BY <2>1, NoNewActive DEF Create
  <2>2. ASSUME NEW p \in Procs, Begin(p) PROVE LifecycleInv'
    BY <2>2, NoNewActive DEF Begin
  <2>3. ASSUME NEW p \in Procs, EndExtract(p) PROVE LifecycleInv'
    BY <2>3, NoNewActive DEF EndExtract
  <2>4. ASSUME NEW r \in Runs, WriteProducts(r) PROVE LifecycleInv'
    BY <2>4, NoNewActive DEF WriteProducts
  <2>5. ASSUME NEW p \in Procs, StartFinish(p) PROVE LifecycleInv'
    BY <2>5, NoNewActive DEF StartFinish
  <2>6. ASSUME NEW p \in Procs, Gate(p) PROVE LifecycleInv'
    BY <2>6, NoNewActive DEF Gate
  <2>7. ASSUME NEW p \in Procs, Reject(p) PROVE LifecycleInv'
    BY <2>7, NoNewActive DEF Reject
  <2>8. ASSUME NEW p \in Procs, Promote(p) PROVE LifecycleInv'
    BY <2>8, NoNewActive DEF Promote
  <2>9. ASSUME NEW p \in Procs, Check(p) PROVE LifecycleInv'
    BY <2>9, NoNewActive DEF Check
  <2>10. ASSUME NEW p \in Procs, Swap(p) PROVE LifecycleInv'
    <3>1. OneActivePerBook'
      BY <2>10 DEF Swap, OneActivePerBook
    <3>2. GateOrForced' /\ ControlInv'
      BY <2>10 DEF Swap
    <3> QED
      BY <3>1, <3>2
  <2>11. ASSUME NEW p \in Procs, NEW r \in Runs, Activate(p, r)
         PROVE  LifecycleInv'
    BY <2>11, NoNewActive DEF Activate, Order
  <2>12. ASSUME NEW p \in Procs, Walk(p) PROVE LifecycleInv'
    <3>1. Order[step[p]] \in {"created", "running", "validating",
                              "ready_to_activate"}
      BY <2>12 DEF Walk, Order
    <3>2. OneActivePerBook'
      BY <2>12, <3>1, NoNewActive DEF Walk
    <3>3. GateOrForced' /\ ControlInv'
      BY <2>12, <3>1 DEF Walk, Refused
    <3> QED
      BY <3>2, <3>3
  <2>13. ASSUME NEW p \in Procs, NEW r \in Runs, Abandon(p, r)
         PROVE  LifecycleInv'
    BY <2>13, NoNewActive DEF Abandon
  <2>14. ASSUME NEW p \in Procs, Crash(p) PROVE LifecycleInv'
    BY <2>14, NoNewActive DEF Crash
  <2>15. CASE UNCHANGED vars
    BY <2>15, NoNewActive DEF vars
  <2> QED
    BY <2>1, <2>2, <2>3, <2>4, <2>5, <2>6, <2>7, <2>8, <2>9, <2>10, <2>11,
       <2>12, <2>13, <2>14, <2>15 DEF Next, Proceed
<1> QED
  BY <1>1, <1>2, LifecycleTyping, PTL DEF Spec

\* No book ever has two active runs.
THEOREM OneActive == Spec => []OneActivePerBook
BY LifecycleInvariance, PTL DEF LifecycleInv

\* A run is ready, active or superseded only if its validator found nothing or
\* an activate command walked it past the gate.
THEOREM GateHolds == Spec => []GateOrForced
BY LifecycleInvariance, PTL DEF LifecycleInv
-------------------------------------------------------------------------------
\* Every action but Swap leaves the set of active runs alone: transition, fail
\* and abandon never start from, or lead to, the status active.
LEMMA OnlySwapActivates ==
  ASSUME TypeOK, LifecycleInv, [Next]_vars,
         \A p \in Procs : ~Swap(p)
  PROVE  \A r \in Runs : status'[r] = "active" <=> status[r] = "active"
<1> USE DEF LifecycleInv, ControlInv, TypeOK, Status, db, local, Goto, Return,
            Issue, SetStatus, CanTransition
<1>1. ASSUME NEW p \in Procs, Walk(p)
      PROVE  \A r \in Runs : status'[r] = "active" <=> status[r] = "active"
  <2>1. Order[step[p]] # "active"
    BY <1>1 DEF Walk, Order
  <2> QED
    BY <1>1, <2>1 DEF Walk, Refused
<1>2. ASSUME NEW p \in Procs,
             \/ Begin(p) \/ EndExtract(p) \/ StartFinish(p) \/ Gate(p)
             \/ Reject(p) \/ Promote(p) \/ Check(p) \/ Crash(p)
      PROVE  \A r \in Runs : status'[r] = "active" <=> status[r] = "active"
  BY <1>2 DEF Begin, EndExtract, StartFinish, Gate, Reject, Promote, Check, Crash,
              Failable
<1>3. ASSUME NEW p \in Procs, NEW s \in Runs,
             Create(p, s) \/ Activate(p, s) \/ Abandon(p, s)
      PROVE  \A r \in Runs : status'[r] = "active" <=> status[r] = "active"
  BY <1>3 DEF Create, Activate, Abandon, Abandonable
<1>4. ASSUME NEW s \in Runs, WriteProducts(s)
      PROVE  \A r \in Runs : status'[r] = "active" <=> status[r] = "active"
  BY <1>4 DEF WriteProducts
<1>5. CASE UNCHANGED vars
  BY <1>5 DEF vars
<1> QED
  BY <1>1, <1>2, <1>3, <1>4, <1>5 DEF Next, Proceed

\* Swap publishes the process's run in its book's register and nothing else.
LEMMA SwapPublishes ==
  ASSUME TypeOK, NEW p \in Procs, NEW r \in Runs, at[p] = r, Swap(p)
  PROVE  Served' = [Served EXCEPT ![BookOf[r]] = r]
<1>1. BookOf[r] \in Books
  BY LifecycleAssumption
<1>2. ActiveRuns(BookOf[r])' = {r}
  BY DEF Swap, ActiveRuns, TypeOK
<1>3. \A b \in Books \ {BookOf[r]} : ActiveRuns(b)' = ActiveRuns(b)
  BY DEF Swap, ActiveRuns, TypeOK
<1>4. Sole({r}) = r
  BY DEF Sole
<1>5. /\ Served = [b \in Books |-> Sole(ActiveRuns(b))]
      /\ Served' = [b \in Books |-> Sole(ActiveRuns(b)')]
  BY DEF Served, Sole
<1>6. ASSUME NEW b \in Books
      PROVE  Sole(ActiveRuns(b)') = IF b = BookOf[r] THEN r
                                   ELSE Sole(ActiveRuns(b))
  <2>1. CASE b = BookOf[r]
    BY <2>1, <1>2, <1>4
  <2>2. CASE b # BookOf[r]
    BY <2>2, <1>3
  <2> QED
    BY <2>1, <2>2
<1>7. Served' = [b \in Books |-> IF b = BookOf[r] THEN r
                                ELSE Sole(ActiveRuns(b))]
  BY <1>5, <1>6
<1> QED
  BY <1>1, <1>5, <1>7

\* The lifecycle implements an atomic register per book.
THEOREM RefinesRegister == Spec => ImplementsRegister
<1> USE LifecycleAssumption
<1>1. Init => Register!RegisterInit
  <2> SUFFICES ASSUME Init
               PROVE  Served = [b \in Books |-> None]
    BY DEF Register!RegisterInit
  <2>1. \A b \in Books : ActiveRuns(b) = {}
    BY DEF Init, ActiveRuns
  <2> QED
    BY <2>1 DEF Served, Sole
<1>2. TypeOK /\ LifecycleInv /\ [Next]_vars => [Register!RegisterNext]_Served
  <2> SUFFICES ASSUME TypeOK, LifecycleInv, [Next]_vars
               PROVE  [Register!RegisterNext]_Served
    OBVIOUS
  <2>1. CASE \E p \in Procs : Swap(p)
    <3>1. PICK p \in Procs : Swap(p)
      BY <2>1
    <3>2. at[p] \in Runs
      BY <3>1 DEF Swap, TypeOK
    <3> QED
      BY <3>1, <3>2, SwapPublishes DEF Register!RegisterNext, Register!Publish
  <2>2. CASE \A p \in Procs : ~Swap(p)
    <3>1. \A b \in Books : ActiveRuns(b)' = ActiveRuns(b)
      BY <2>2, OnlySwapActivates DEF ActiveRuns
    <3>2. /\ Served = [b \in Books |-> Sole(ActiveRuns(b))]
          /\ Served' = [b \in Books |-> Sole(ActiveRuns(b)')]
      BY DEF Served, Sole
    <3> QED
      BY <3>1, <3>2
  <2> QED
    BY <2>1, <2>2
<1> QED
  BY <1>1, <1>2, LifecycleTyping, LifecycleInvariance, PTL
     DEF Spec, ImplementsRegister, Register!RegisterSpec

\* A final status is left only by Activator's swap and, from abandoned, by the
\* activate command's first transition.
THEOREM FinalStatuses == Spec => FinalStatusExits
<1> DEFINE Exits(r) == status[r] \in Terminal /\ status'[r] # status[r]
                       => \/ status[r] = "active" /\ status'[r] = "superseded"
                          \/ status[r] # "active" /\ status'[r] = "active"
                          \/ status[r] = "abandoned" /\ status'[r] = "created"
<1>1. TypeOK /\ LifecycleInv /\ [Next]_vars => \A r \in Runs : Exits(r)
  <2> SUFFICES ASSUME TypeOK, LifecycleInv, [Next]_vars, NEW r \in Runs
               PROVE  Exits(r)
    OBVIOUS
  <2> USE DEF LifecycleInv, ControlInv, TypeOK, Status, Terminal, db, local, Goto,
              Return, Issue, SetStatus, CanTransition
  <2>1. ASSUME NEW p \in Procs, Walk(p) PROVE Exits(r)
    <3>1. step[p] = 1 => Order[step[p]] = "created"
      BY DEF Order
    <3> QED
      BY <2>1, <3>1 DEF Walk, Refused
  <2>2. ASSUME NEW p \in Procs, Swap(p) PROVE Exits(r)
    BY <2>2 DEF Swap
  <2>3. ASSUME NEW p \in Procs,
               \/ Begin(p) \/ EndExtract(p) \/ StartFinish(p) \/ Gate(p)
               \/ Reject(p) \/ Promote(p) \/ Check(p) \/ Crash(p)
        PROVE  Exits(r)
    BY <2>3 DEF Begin, EndExtract, StartFinish, Gate, Reject, Promote, Check,
                Crash, Failable
  <2>4. ASSUME NEW p \in Procs, NEW s \in Runs,
               Create(p, s) \/ Activate(p, s) \/ Abandon(p, s)
        PROVE  Exits(r)
    BY <2>4 DEF Create, Activate, Abandon, Abandonable
  <2>5. ASSUME NEW s \in Runs, WriteProducts(s) PROVE Exits(r)
    BY <2>5 DEF WriteProducts
  <2>6. CASE UNCHANGED vars
    BY <2>6 DEF vars
  <2> QED
    BY <2>1, <2>2, <2>3, <2>4, <2>5, <2>6 DEF Next, Proceed
<1>2. (\A r \in Runs : Exits(r)) =>
        [\A r \in Runs :
           status[r] \in Terminal /\ status'[r] # status[r]
           => \/ status[r] = "active" /\ status'[r] = "superseded"
              \/ status[r] # "active" /\ status'[r] = "active"
              \/ status[r] = "abandoned" /\ status'[r] = "created"]_status
  OBVIOUS
<1> QED
  BY <1>1, <1>2, LifecycleTyping, LifecycleInvariance, PTL
     DEF Spec, FinalStatusExits
===============================================================================
