------------------------- MODULE ChapterPipelineProofs -------------------------
(***************************************************************************)
(* Proofs for ChapterPipeline, for any number of runs and chapters and any *)
(* queue size, batch size, number of attempts, kills and faults.           *)
(***************************************************************************)
EXTENDS ChapterPipelineProps, FiniteSetTheorems, TLAPS

\* A result that is handed to the writer is well formed.
LEMMA ItemTypes ==
  /\ NoItem \in Items
  /\ NoRow \in Rows
  /\ \A r \in Runs, o \in Outcome : Fresh(r, o) \in Items
  /\ \A i \in Items : RowOf(i) \in Rows /\ RowOf(i).status # "none"
BY DEF NoItem, Items, Kinds, NoRow, Rows, Fresh, Outcome, RowOf, Good

\* The run and the chapter of a task.
LEMMA TaskParts ==
  \A t \in Tasks : Run(t) \in Runs /\ Chap(t) \in Chapters /\ t = <<Run(t), Chap(t)>>
BY DEF Tasks, Run, Chap

\* Types, together with the accounting that bounds the number of calls.
THEOREM PipelineTyping == Spec => [](TypeOK /\ CoroutineInv)
<1> USE PipelineAssumption
<1>1. Init => TypeOK /\ CoroutineInv
  BY ItemTypes DEF Init, TypeOK, CoroutineInv
<1>2. TypeOK /\ CoroutineInv /\ [Next]_vars => (TypeOK /\ CoroutineInv)'
  <2> SUFFICES ASSUME TypeOK, CoroutineInv, [Next]_vars
               PROVE  TypeOK' /\ CoroutineInv'
    OBVIOUS
  <2> USE DEF database, process, At, Move, Deliver, CallEnds, Book
  <2>1. ASSUME NEW r \in Runs, Begin(r) PROVE TypeOK' /\ CoroutineInv'
    BY <2>1 DEF Begin, TypeOK, CoroutineInv
  <2>2. ASSUME NEW t \in Tasks, LookUp(t) PROVE TypeOK' /\ CoroutineInv'
    <3>1. CASE Hits(Chap(t)) = {}
      <4>1. TypeOK'
        BY <2>2, <3>1 DEF LookUp, TypeOK
      <4>2. CoroutineInv'
        BY <2>2, <3>1 DEF LookUp, TypeOK, CoroutineInv
      <4> QED
        BY <4>1, <4>2
    <3>2. CASE Hits(Chap(t)) # {}
      <4> DEFINE Reused(s) ==
            [kind    |-> "reuse",
             payload |-> checkpoint[<<s, Chap(t)>>].payload,
             source  |-> IF checkpoint[<<s, Chap(t)>>].source = None THEN s
                         ELSE checkpoint[<<s, Chap(t)>>].source]
      <4>1. PICK s \in Hits(Chap(t)) :
              /\ item' = [item EXCEPT ![t] = Reused(s)]
              /\ worker' = [worker EXCEPT ![t] = "put"]
        BY <2>2, <3>2 DEF LookUp
      <4>2. s \in Runs /\ <<s, Chap(t)>> \in Tasks
        BY TaskParts DEF Hits, Tasks
      <4>3. checkpoint[<<s, Chap(t)>>] \in Rows
        BY <4>2 DEF TypeOK
      <4>4. Reused(s) \in Items /\ Reused(s).kind = "reuse"
        BY <4>2, <4>3 DEF Items, Kinds, Rows
      <4> HIDE DEF Reused
      <4>5. /\ phase[Run(t)] = "live"
            /\ worker[t] = "start"
            /\ UNCHANGED <<database, phase, misses, queue, batch, taken, stats,
                           kills, faults, calls, known>>
        BY <2>2 DEF LookUp
      <4>6. TypeOK'
        BY <4>1, <4>4, <4>5 DEF TypeOK
      <4>7. CoroutineInv'
        BY <4>1, <4>4, <4>5 DEF TypeOK, CoroutineInv
      <4> QED
        BY <4>6, <4>7
    <3> QED
      BY <3>1, <3>2
  <2>3. ASSUME NEW t \in Tasks, Wake(t) PROVE TypeOK' /\ CoroutineInv'
    BY <2>3 DEF Wake, TypeOK, CoroutineInv
  <2>4. ASSUME NEW t \in Tasks, Put(t) PROVE TypeOK' /\ CoroutineInv'
    <3>1. /\ phase[Run(t)] = "live"
          /\ worker[t] = "put"
          /\ worker' = [worker EXCEPT ![t] = "end"]
          /\ UNCHANGED <<phase, calls, misses, booked, item>>
      BY <2>4 DEF Put
    <3>2. queue' \in [Runs -> Seq(Chapters)]
      <4>1. Run(t) \in Runs /\ Chap(t) \in Chapters
        BY TaskParts
      <4>2. Append(queue[Run(t)], Chap(t)) \in Seq(Chapters)
        BY <4>1 DEF TypeOK
      <4>3. queue' = [queue EXCEPT ![Run(t)] = Append(queue[Run(t)], Chap(t))]
        BY <2>4 DEF Put
      <4> QED
        BY <4>1, <4>2, <4>3 DEF TypeOK
    <3>3. TypeOK'
      BY <2>4, <3>1, <3>2 DEF Put, TypeOK
    <3>4. CoroutineInv'
      BY <3>1 DEF TypeOK, CoroutineInv
    <3> QED
      BY <3>3, <3>4
  <2>5. ASSUME NEW t \in Tasks, NEW o \in {"ok", "failed"}, CallSettles(t, o)
        PROVE  TypeOK' /\ CoroutineInv'
    <3>1. Fresh(Run(t), o) \in Items /\ Fresh(Run(t), o).kind = o
      BY ItemTypes, TaskParts DEF Outcome, Fresh
    <3>2. TypeOK'
      BY <2>5, <3>1 DEF CallSettles, TypeOK, CoroutineInv
    <3>3. CoroutineInv'
      BY <2>5, <3>1 DEF CallSettles, TypeOK, CoroutineInv
    <3> QED
      BY <3>2, <3>3
  <2>6. ASSUME NEW t \in Tasks, CallRejected(t) PROVE TypeOK' /\ CoroutineInv'
    <3>1. /\ Fresh(Run(t), "rejected") \in Items
          /\ Fresh(Run(t), "rejected").kind = "rejected"
      BY ItemTypes, TaskParts DEF Outcome, Fresh
    <3>2. TypeOK'
      BY <2>6, <3>1 DEF CallRejected, TypeOK, CoroutineInv
    <3>3. CoroutineInv'
      BY <2>6, <3>1 DEF CallRejected, TypeOK, CoroutineInv
    <3> QED
      BY <3>2, <3>3
  <2>7. ASSUME NEW t \in Tasks, CallMisses(t) \/ BookingFails(t)
        PROVE  TypeOK' /\ CoroutineInv'
    <3>1. /\ Fresh(Run(t), "failed") \in Items
          /\ Fresh(Run(t), "failed").kind = "failed"
      BY ItemTypes, TaskParts DEF Outcome, Fresh
    <3>2. /\ worker[t] = "calling"
          /\ calls[t] = misses[t] /\ misses[t] < MaxAttempts /\ booked[t] = 0
          /\ calls' = [calls EXCEPT ![t] = calls[t] + 1]
          /\ misses' = [misses EXCEPT ![t] = misses[t] + 1]
          /\ faults' \in 0..MaxFaults
          /\ UNCHANGED <<checkpoint, draft, phase, queue, batch, taken, stats,
                         kills, known>>
      BY <2>7 DEF CallMisses, BookingFails, Miss, TypeOK, CoroutineInv
    <3>3. /\ calls' \in [Tasks -> 0..MaxAttempts]
          /\ misses' \in [Tasks -> 0..MaxAttempts]
      BY <3>2 DEF TypeOK
    <3>4. CASE misses[t] + 1 >= MaxAttempts
      <4>1. /\ booked' = [booked EXCEPT ![t] = booked[t] + (misses[t] + 1)]
            /\ item' = [item EXCEPT ![t] = Fresh(Run(t), "failed")]
            /\ worker' = [worker EXCEPT ![t] = "put"]
        BY <2>7, <3>4 DEF CallMisses, BookingFails, Miss
      <4>2. TypeOK'
        BY <3>1, <3>2, <3>3, <4>1 DEF TypeOK
      <4>3. CoroutineInv'
        BY <3>1, <3>2, <4>1 DEF TypeOK, CoroutineInv
      <4> QED
        BY <4>2, <4>3
    <3>5. CASE ~(misses[t] + 1 >= MaxAttempts)
      <4>1. worker' = [worker EXCEPT ![t] = "backoff"] /\ UNCHANGED <<booked, item>>
        BY <2>7, <3>5 DEF CallMisses, BookingFails, Miss
      <4>2. TypeOK'
        BY <3>2, <3>3, <4>1 DEF TypeOK
      <4>3. CoroutineInv'
        BY <3>2, <3>5, <4>1 DEF TypeOK, CoroutineInv
      <4> QED
        BY <4>2, <4>3
    <3> QED
      BY <3>4, <3>5
  <2>8. ASSUME NEW r \in Runs, Take(r) PROVE TypeOK' /\ CoroutineInv'
    <3> DEFINE b == batch[r] \cup {Head(queue[r])}
    <3>1. b \subseteq Chapters /\ Head(queue[r]) \in Chapters
      BY <2>8 DEF Take, TypeOK
    <3>2. /\ queue' = [queue EXCEPT ![r] = Tail(@)]
          /\ taken' = [taken EXCEPT ![r] = @ \cup {Head(queue[r])}]
          /\ batch' = [batch EXCEPT ![r] = {}] \/ batch' = [batch EXCEPT ![r] = b]
          /\ faults' \in 0..MaxFaults
          /\ UNCHANGED <<booked, phase, worker, misses, item, kills, calls, known>>
      BY <2>8 DEF Take, TypeOK
    <3>3. \/ Commit(r, b) /\ Tally(r, b, 0)
          \/ UNCHANGED <<checkpoint, draft>> /\ Tally(r, b, 1)
          \/ UNCHANGED <<checkpoint, draft, stats>>
      BY <2>8 DEF Take
    <3> HIDE DEF b
    <3>4. checkpoint' \in [Tasks -> Rows]
      <4>1. \A t \in Tasks : RowOf(item[t]) \in Rows
        BY ItemTypes DEF TypeOK
      <4>2. CASE Commit(r, b)
        <5> DEFINE New(t) == IF Run(t) = r /\ Chap(t) \in b /\ checkpoint[t] = NoRow
                             THEN RowOf(item[t]) ELSE checkpoint[t]
        <5>1. checkpoint' = [t \in Tasks |-> New(t)]
          BY <4>2 DEF Commit
        <5>2. \A t \in Tasks : New(t) \in Rows
          BY <4>1 DEF TypeOK
        <5> HIDE DEF New
        <5> QED
          BY <5>1, <5>2
      <4> QED
        BY <3>3, <4>2 DEF TypeOK
    <3>5. draft' \in [Tasks -> {"none", "valid", "failed"}]
      BY <3>3 DEF Commit, DraftOf, TypeOK
    <3>6. stats' \in [Runs -> [new : SUBSET Chapters, reuse : SUBSET Chapters,
                               failed : SUBSET Chapters, lost : Nat]]
      <4>1. stats[r] \in [new : SUBSET Chapters, reuse : SUBSET Chapters,
                          failed : SUBSET Chapters, lost : Nat]
        BY DEF TypeOK
      <4>2. ASSUME NEW n \in {0, 1}, Tally(r, b, n)
            PROVE  \E N, R, F \in SUBSET b :
                     stats' = [stats EXCEPT
                       ![r] = [new    |-> stats[r].new \cup N,
                               reuse  |-> stats[r].reuse \cup R,
                               failed |-> stats[r].failed \cup F,
                               lost   |-> stats[r].lost + n]]
        <5> DEFINE Kind(K) == {c \in b : item[<<r, c>>].kind \in K}
        <5>1. \A K : Kind(K) \in SUBSET b
          OBVIOUS
        <5>2. stats' = [stats EXCEPT
                ![r] = [new    |-> stats[r].new \cup Kind({"ok"}),
                        reuse  |-> stats[r].reuse \cup Kind({"reuse"}),
                        failed |-> stats[r].failed \cup Kind({"failed", "rejected"}),
                        lost   |-> stats[r].lost + n]]
          BY <4>2 DEF Tally
        <5> HIDE DEF Kind
        <5> QED
          BY <5>1, <5>2
      <4>3. ASSUME NEW n \in {0, 1}, Tally(r, b, n)
            PROVE  stats' \in [Runs -> [new : SUBSET Chapters, reuse : SUBSET Chapters,
                                        failed : SUBSET Chapters, lost : Nat]]
        <5>1. PICK N, R, F \in SUBSET b :
                stats' = [stats EXCEPT
                  ![r] = [new    |-> stats[r].new \cup N,
                          reuse  |-> stats[r].reuse \cup R,
                          failed |-> stats[r].failed \cup F,
                          lost   |-> stats[r].lost + n]]
          BY <4>2, <4>3
        <5>2. [new    |-> stats[r].new \cup N, reuse |-> stats[r].reuse \cup R,
               failed |-> stats[r].failed \cup F, lost |-> stats[r].lost + n]
              \in [new : SUBSET Chapters, reuse : SUBSET Chapters,
                   failed : SUBSET Chapters, lost : Nat]
          BY <3>1, <4>1
        <5> QED
          BY <5>1, <5>2 DEF TypeOK
      <4> QED
        BY <3>3, <4>3 DEF TypeOK
    <3>7. queue' \in [Runs -> Seq(Chapters)] /\ batch' \in [Runs -> SUBSET Chapters]
          /\ taken' \in [Runs -> SUBSET Chapters]
      <4>1. Tail(queue[r]) \in Seq(Chapters)
        BY <2>8 DEF Take, TypeOK
      <4> QED
        BY <3>1, <3>2, <4>1 DEF TypeOK
    <3>8. TypeOK'
      BY <3>2, <3>4, <3>5, <3>6, <3>7 DEF TypeOK
    <3>9. CoroutineInv'
      BY <3>2 DEF CoroutineInv
    <3> QED
      BY <3>8, <3>9
  <2>9. ASSUME NEW r \in Runs, Return(r) \/ Kill(r)
        PROVE  TypeOK' /\ CoroutineInv'
    <3>1. CASE Return(r)
      BY <3>1 DEF Return, TypeOK, CoroutineInv
    <3>2. CASE Kill(r)
      BY <3>2 DEF Kill, TypeOK, CoroutineInv
    <3> QED
      BY <2>9, <3>1, <3>2
  <2>10. CASE UNCHANGED vars
    BY <2>10 DEF vars, TypeOK, CoroutineInv
  <2> QED
    BY <2>1, <2>2, <2>3, <2>4, <2>5, <2>6, <2>7, <2>8, <2>9, <2>10
       DEF Next, Process
<1> QED
  BY <1>1, <1>2, PTL DEF Spec

\* A commit writes checkpoint and staging row of a chapter together, and leaves
\* rows that are there alone.
LEMMA CommitKeepsStore ==
  ASSUME TypeOK, DraftMatchesCheckpoint, StoreInv,
         NEW r \in Runs, NEW b \in SUBSET Chapters, Commit(r, b)
  PROVE  /\ DraftMatchesCheckpoint' /\ StoreInv'
         /\ \A t \in Tasks : checkpoint[t].status = "done"
                              => checkpoint'[t] = checkpoint[t]
<1>1. ASSUME NEW t \in Tasks,
             Run(t) = r, Chap(t) \in b, checkpoint[t] = NoRow
      PROVE  /\ draft[t] = "none"
             /\ checkpoint'[t] = RowOf(item[t])
             /\ draft'[t] = IF item[t].kind \in Good THEN "valid" ELSE "failed"
  <2>1. draft[t] = "none"
    BY <1>1 DEF StoreInv, NoRow
  <2> QED
    BY <1>1, <2>1 DEF Commit, DraftOf
<1>2. ASSUME NEW t \in Tasks,
             ~(Run(t) = r /\ Chap(t) \in b /\ checkpoint[t] = NoRow)
      PROVE  checkpoint'[t] = checkpoint[t] /\ draft'[t] = draft[t]
  <2>1. Run(t) = r /\ Chap(t) \in b => draft[t] # "none"
    BY <1>2 DEF StoreInv
  <2> QED
    BY <1>2, <2>1 DEF Commit
<1>3. ASSUME NEW t \in Tasks
      PROVE  /\ checkpoint'[t].status = "done" <=> draft'[t] = "valid"
             /\ checkpoint'[t].status = "failed" <=> draft'[t] = "failed"
             /\ checkpoint'[t].status = "none" => checkpoint'[t] = NoRow
             /\ checkpoint'[t].status = "none" <=> draft'[t] = "none"
             /\ checkpoint[t].status = "done" => checkpoint'[t] = checkpoint[t]
  <2>1. CASE Run(t) = r /\ Chap(t) \in b /\ checkpoint[t] = NoRow
    <3>1. RowOf(item[t]).status = IF item[t].kind \in Good THEN "done" ELSE "failed"
      BY DEF RowOf
    <3>2. checkpoint[t].status = "none"
      BY <2>1 DEF NoRow
    <3> QED
      BY <1>1, <2>1, <3>1, <3>2
  <2>2. CASE ~(Run(t) = r /\ Chap(t) \in b /\ checkpoint[t] = NoRow)
    BY <1>2, <2>2 DEF DraftMatchesCheckpoint, StoreInv
  <2> QED
    BY <2>1, <2>2
<1> QED
  BY <1>3 DEF DraftMatchesCheckpoint, StoreInv

\* A chapter some run has done remains done as long as done rows remain.
LEMMA HitsStay ==
  ASSUME \A t \in Tasks : checkpoint[t].status = "done"
                           => checkpoint'[t] = checkpoint[t],
         NEW c \in Chapters, Hits(c) # {}
  PROVE  Hits(c)' # {}
BY DEF Hits, Done, Tasks

\* PipelineInv is an invariant: checkpoints and staging rows agree and are never
\* half written, and a chapter that was done when a run began is never sent to
\* the provider by it.
THEOREM PipelineSafety == Spec => []PipelineInv
<1> DEFINE Safe == DraftMatchesCheckpoint /\ StoreInv /\ PendingInv
<1>1. Init => Safe
  BY DEF Init, Tasks, NoRow, DraftMatchesCheckpoint, StoreInv, PendingInv
<1>2. TypeOK /\ CoroutineInv /\ Safe /\ [Next]_vars => Safe'
  <2> SUFFICES ASSUME TypeOK, CoroutineInv, Safe, [Next]_vars
               PROVE  Safe'
    OBVIOUS
  <2>1. ASSUME UNCHANGED <<checkpoint, draft>>
        PROVE  /\ DraftMatchesCheckpoint' /\ StoreInv'
               /\ \A c \in Chapters : Hits(c)' = Hits(c)
    BY <2>1 DEF DraftMatchesCheckpoint, StoreInv, Hits, Done
  <2>2. \A r \in Runs : \A c \in known[r] : /\ c \in Chapters
                                          /\ <<r, c>> \in Tasks
                                          /\ Run(<<r, c>>) = r
                                          /\ Chap(<<r, c>>) = c
    BY DEF TypeOK, Tasks, Run, Chap
  \* A step of one coroutine that is past the look-up disturbs no pending one.
  <2>3. ASSUME NEW t \in Tasks, worker[t] \in {"calling", "backoff"},
               UNCHANGED <<checkpoint, draft, known>>,
               \A u \in Tasks \ {t} : worker'[u] = worker[u] /\ calls'[u] = calls[u]
        PROVE  Safe'
    BY <2>1, <2>2, <2>3 DEF PendingInv
  <2>4. ASSUME UNCHANGED <<checkpoint, draft, known, worker, calls>>
        PROVE  Safe'
    BY <2>1, <2>2, <2>4 DEF PendingInv
  <2>5. ASSUME NEW r \in Runs, Begin(r) PROVE Safe'
    <3>1. UNCHANGED <<checkpoint, draft, worker, calls>>
      BY <2>5 DEF Begin, database
    <3>2. known' = [known EXCEPT ![r] = {c \in Chapters : Hits(c) # {}}]
      BY <2>5 DEF Begin
    <3>3. ASSUME NEW c \in Chapters
          PROVE  worker[<<r, c>>] = "start" /\ calls[<<r, c>>] = 0
      <4>1. <<r, c>> \in Tasks /\ Run(<<r, c>>) = r /\ phase[r] = "new"
        BY <2>5 DEF Tasks, Run, Begin
      <4> QED
        BY <4>1 DEF CoroutineInv
    <3>4. ASSUME NEW s \in Runs, NEW c \in known'[s]
          PROVE  /\ Hits(c)' # {}
                 /\ worker'[<<s, c>>] \in {"start", "put", "end"}
                 /\ calls'[<<s, c>>] = 0
      <4>1. CASE s = r
        <5>1. c \in Chapters /\ Hits(c) # {}
          BY <3>2, <3>4, <4>1 DEF TypeOK
        <5> QED
          BY <2>1, <3>1, <3>3, <4>1, <5>1
      <4>2. CASE s # r
        <5>1. c \in known[s]
          BY <3>2, <3>4, <4>2 DEF TypeOK
        <5> QED
          BY <2>1, <2>2, <3>1, <5>1 DEF PendingInv
      <4> QED
        BY <4>1, <4>2
    <3> QED
      BY <2>1, <3>1, <3>4 DEF PendingInv
  <2>6. ASSUME NEW t \in Tasks, LookUp(t) PROVE Safe'
    <3>1. UNCHANGED <<checkpoint, draft, known, calls>>
      BY <2>6 DEF LookUp, database
    <3>2. \A u \in Tasks \ {t} : worker'[u] = worker[u]
      BY <2>6 DEF LookUp, Move, Deliver, TypeOK
    <3>3. Hits(Chap(t)) # {} => worker'[t] = "put"
      BY <2>6 DEF LookUp, Move, Deliver, TypeOK
    <3>4. ASSUME NEW r \in Runs, NEW c \in known[r]
          PROVE  worker'[<<r, c>>] \in {"start", "put", "end"}
      <4>1. CASE <<r, c>> = t
        BY <2>2, <3>3, <4>1 DEF PendingInv
      <4>2. CASE <<r, c>> # t
        BY <2>2, <3>2, <4>2 DEF PendingInv
      <4> QED
        BY <4>1, <4>2
    <3> QED
      BY <2>1, <2>2, <3>1, <3>4 DEF PendingInv
  <2>7. ASSUME NEW t \in Tasks, Put(t) PROVE Safe'
    <3>1. UNCHANGED <<checkpoint, draft, known, calls>>
      BY <2>7 DEF Put, database
    <3>2. worker' = [worker EXCEPT ![t] = "end"]
      BY <2>7 DEF Put, Move
    <3>3. ASSUME NEW r \in Runs, NEW c \in known[r]
          PROVE  worker'[<<r, c>>] \in {"start", "put", "end"}
      BY <2>2, <3>2 DEF PendingInv, TypeOK
    <3> QED
      BY <2>1, <2>2, <3>1, <3>3 DEF PendingInv
  <2>8. ASSUME NEW t \in Tasks, Wake(t) PROVE Safe'
    <3>1. /\ worker[t] = "backoff"
          /\ UNCHANGED <<checkpoint, draft, known, calls>>
          /\ \A u \in Tasks \ {t} : worker'[u] = worker[u]
      BY <2>8 DEF Wake, At, Move, database, TypeOK
    <3> QED
      BY <2>3, <3>1
  <2>9. ASSUME NEW t \in Tasks,
               \/ \E o \in {"ok", "failed"} : CallSettles(t, o)
               \/ CallRejected(t) \/ CallMisses(t) \/ BookingFails(t)
        PROVE  Safe'
    <3>1. CallEnds(t)
      BY <2>9 DEF CallSettles, CallRejected, CallMisses, BookingFails
    <3>2. \A u \in Tasks \ {t} : worker'[u] = worker[u]
      <4>1. \E label : worker' = [worker EXCEPT ![t] = label]
        BY <2>9 DEF CallSettles, CallRejected, CallMisses, BookingFails, Miss,
                    Deliver, Move
      <4> QED
        BY <4>1 DEF TypeOK
    <3>3. /\ worker[t] = "calling"
          /\ UNCHANGED <<checkpoint, draft, known>>
          /\ \A u \in Tasks \ {t} : calls'[u] = calls[u]
      BY <3>1 DEF CallEnds, At, TypeOK
    <3> QED
      BY <2>3, <3>2, <3>3
  <2>10. ASSUME NEW r \in Runs, Take(r) PROVE Safe'
    <3> DEFINE b == batch[r] \cup {Head(queue[r])}
    <3>1. UNCHANGED <<known, worker, calls>>
      BY <2>10 DEF Take
    <3>2. b \in SUBSET Chapters
      BY <2>10 DEF Take, TypeOK
    <3>3. Commit(r, b) \/ UNCHANGED <<checkpoint, draft>>
      BY <2>10 DEF Take
    <3> HIDE DEF b
    <3>4. CASE Commit(r, b)
      <4>1. /\ DraftMatchesCheckpoint' /\ StoreInv'
            /\ \A t \in Tasks : checkpoint[t].status = "done"
                                 => checkpoint'[t] = checkpoint[t]
        BY <3>2, <3>4, CommitKeepsStore
      <4>2. \A c \in Chapters : Hits(c) # {} => Hits(c)' # {}
        BY <4>1, HitsStay
      <4> QED
        BY <2>2, <3>1, <4>1, <4>2 DEF PendingInv
    <3>5. CASE UNCHANGED <<checkpoint, draft>>
      BY <2>4, <3>1, <3>5
    <3> QED
      BY <3>3, <3>4, <3>5
  <2>11. ASSUME NEW r \in Runs, Return(r) \/ Kill(r) PROVE Safe'
    BY <2>4, <2>11 DEF Return, Kill, database
  <2>12. CASE UNCHANGED vars
    BY <2>4, <2>12 DEF vars, database, process
  <2> QED
    BY <2>5, <2>6, <2>7, <2>8, <2>9, <2>10, <2>11, <2>12 DEF Next, Process
<1> QED
  BY <1>1, <1>2, PipelineTyping, PTL DEF Spec, PipelineInv

\* Checkpoints and drafts agree for any number of runs, batches and faults.
THEOREM StoresAgree == Spec => []DraftMatchesCheckpoint
<1>1. PipelineInv => DraftMatchesCheckpoint
  BY DEF PipelineInv
<1> QED
  BY <1>1, PipelineSafety, PTL

\* OnlyPendingCalled for any number of runs, processes and interruptions.
THEOREM ResumeIsIncremental == Spec => []OnlyPendingCalled
<1>1. PipelineInv => OnlyPendingCalled
  BY DEF PipelineInv, PendingInv, OnlyPendingCalled
<1> QED
  BY <1>1, PipelineSafety, PTL

\* CallsBooked for any number of attempts and any pattern of failed bookings.
THEOREM LedgerComplete == Spec => []CallsBooked
<1>1. PipelineInv => CallsBooked
  BY DEF PipelineInv, CoroutineInv, CallsBooked
<1> QED
  BY <1>1, PipelineSafety, PTL

\* GateComplete for any number of chapters: the gate compares two numbers, and
\* equal numbers of a finite set and of a part of it make them equal.
THEOREM GateIsComplete == Spec => []GateComplete
<1>1. TypeOK /\ PipelineInv => GateComplete
  <2> SUFFICES ASSUME PipelineInv, NEW r \in Runs, GateOpen(r), NEW c \in Chapters
               PROVE  draft[<<r, c>>] = "valid"
    BY DEF GateComplete
  <2>1. Done(r) \subseteq Chapters /\ IsFiniteSet(Chapters)
    BY PipelineAssumption DEF Done
  <2>2. /\ IsFiniteSet(Done(r))
        /\ Cardinality(Done(r)) <= Cardinality(Chapters)
        /\ Cardinality(Done(r)) = Cardinality(Chapters) => Done(r) = Chapters
    BY <2>1, FS_Subset
  <2>3. Cardinality(Done(r)) \in Nat /\ Cardinality(Chapters) \in Nat
    BY <2>1, <2>2, FS_CardinalityType
  <2>4. Cardinality(Done(r)) >= Cardinality(Chapters)
    BY DEF GateOpen
  <2>5. Done(r) = Chapters
    BY <2>2, <2>3, <2>4
  <2>6. checkpoint[<<r, c>>].status = "done" /\ <<r, c>> \in Tasks
    BY <2>5 DEF Done, Tasks
  <2> QED
    BY <2>6 DEF PipelineInv, DraftMatchesCheckpoint
<1> QED
  BY <1>1, PipelineTyping, PipelineSafety, PTL

\* Who made an answer goes on having made it.
LEMMA MadeStays ==
  ASSUME TypeOK,
         \A t \in Tasks : checkpoint[t].status = "done" => checkpoint'[t] = checkpoint[t],
         \A t \in Tasks : calls'[t] \in Nat /\ calls'[t] >= calls[t],
         NEW s \in Runs, NEW c \in Chapters, Made(s, c)
  PROVE  Made(s, c)'
<1>1. <<s, c>> \in Tasks
  BY DEF Tasks
<1>2. calls[<<s, c>>] \in Nat
  BY <1>1 DEF TypeOK
<1> QED
  BY <1>1, <1>2 DEF Made

\* SourceIsOrigin for any number of runs: a reused row is attributed to the run
\* that made it, however many runs it went through.
THEOREM ReuseNamesOrigin == Spec => []SourceIsOrigin
<1>1. Init => OriginInv
  BY DEF Init, OriginInv, NoRow, NoItem, Good
<1>2. TypeOK /\ CoroutineInv /\ OriginInv /\ DraftMatchesCheckpoint /\ StoreInv /\ [Next]_vars
      => OriginInv'
  <2> SUFFICES ASSUME TypeOK, CoroutineInv, OriginInv, DraftMatchesCheckpoint, StoreInv,
                      [Next]_vars
               PROVE  OriginInv'
    OBVIOUS
  <2> DEFINE RowOrigin(t) ==
               checkpoint[t].status = "done" =>
                 IF checkpoint[t].source = None
                 THEN checkpoint[t].payload = Run(t) /\ calls[t] > 0
                 ELSE /\ checkpoint[t].payload = checkpoint[t].source
                      /\ Made(checkpoint[t].source, Chap(t))
             ItemOrigin(t) ==
               item[t].kind \in Good =>
                 IF item[t].source = None
                 THEN item[t].payload = Run(t) /\ calls[t] > 0
                 ELSE /\ item[t].payload = item[t].source
                      /\ Made(item[t].source, Chap(t))
  <2>0. \A t \in Tasks : RowOrigin(t) /\ ItemOrigin(t)
    BY DEF OriginInv
  <2> SUFFICES ASSUME NEW t \in Tasks PROVE RowOrigin(t)' /\ ItemOrigin(t)'
    BY DEF OriginInv
  <2>1. /\ Run(t) \in Runs /\ Chap(t) \in Chapters /\ t = <<Run(t), Chap(t)>>
        /\ checkpoint[t].source \in Runs \cup {None}
        /\ item[t].source \in Runs \cup {None}
        /\ calls[t] \in Nat
    BY TaskParts DEF TypeOK, Rows, Items
  \* A row, or a result, that does not change keeps its origin.
  <2>2. ASSUME \A u \in Tasks : checkpoint[u].status = "done"
                                => checkpoint'[u] = checkpoint[u],
               \A u \in Tasks : calls'[u] \in Nat /\ calls'[u] >= calls[u]
        PROVE  /\ checkpoint'[t] = checkpoint[t] => RowOrigin(t)'
               /\ item'[t] = item[t] => ItemOrigin(t)'
    <3>1. \A s \in Runs : Made(s, Chap(t)) => Made(s, Chap(t))'
      BY <2>1, <2>2, MadeStays
    <3>2. calls[t] > 0 => calls'[t] > 0
      BY <2>1, <2>2
    <3>3. checkpoint'[t] = checkpoint[t] => RowOrigin(t)'
      BY <2>0, <2>1, <3>1, <3>2
    <3>4. item'[t] = item[t] => ItemOrigin(t)'
      BY <2>0, <2>1, <3>1, <3>2
    <3> QED
      BY <3>3, <3>4
  <2>3. ASSUME UNCHANGED <<checkpoint, item, calls>>
        PROVE  RowOrigin(t)' /\ ItemOrigin(t)'
    <3>1. \A u \in Tasks : calls[u] \in Nat
      BY DEF TypeOK
    <3> QED
      BY <2>2, <2>3, <3>1
  <2>4. ASSUME NEW u \in Tasks, LookUp(u) PROVE RowOrigin(t)' /\ ItemOrigin(t)'
    <3>1. UNCHANGED <<checkpoint, calls>> /\ \A v \in Tasks : calls[v] \in Nat
      BY <2>4 DEF LookUp, database, TypeOK
    <3>2. RowOrigin(t)'
      BY <2>2, <3>1
    <3>3. CASE item'[t] = item[t]
      BY <2>2, <3>1, <3>2, <3>3
    <3>4. CASE item'[t] # item[t]
      <4> DEFINE Reused(s) ==
            [kind    |-> "reuse",
             payload |-> checkpoint[<<s, Chap(t)>>].payload,
             source  |-> IF checkpoint[<<s, Chap(t)>>].source = None THEN s
                         ELSE checkpoint[<<s, Chap(t)>>].source]
      <4>1. u = t /\ Hits(Chap(t)) # {}
        BY <2>4, <3>4 DEF LookUp, Deliver, TypeOK
      <4>2. PICK s \in Hits(Chap(t)) : item' = [item EXCEPT ![t] = Reused(s)]
        BY <2>4, <4>1 DEF LookUp, Deliver
      <4>3. item'[t] = Reused(s)
        BY <4>2 DEF TypeOK
      <4>4. /\ s \in Runs /\ <<s, Chap(t)>> \in Tasks
            /\ Run(<<s, Chap(t)>>) = s /\ Chap(<<s, Chap(t)>>) = Chap(t)
            /\ checkpoint[<<s, Chap(t)>>].status = "done"
        BY <2>1 DEF Hits, Done, Tasks, Run, Chap
      <4>5. CASE checkpoint[<<s, Chap(t)>>].source = None
        <5>1. Made(s, Chap(t)) /\ checkpoint[<<s, Chap(t)>>].payload = s
          BY <2>0, <4>4, <4>5 DEF Made
        <5>2. Made(s, Chap(t))'
          BY <3>1, <5>1 DEF Made
        <5> QED
          BY <3>2, <4>3, <4>4, <4>5, <5>1, <5>2, PipelineAssumption
      <4>6. CASE checkpoint[<<s, Chap(t)>>].source # None
        <5>1. PICK org \in Runs : /\ org = checkpoint[<<s, Chap(t)>>].source
                                 /\ org = checkpoint[<<s, Chap(t)>>].payload
                                 /\ Made(org, Chap(t))
          BY <2>0, <4>4, <4>6 DEF TypeOK, Rows
        <5>2. Made(org, Chap(t))'
          BY <3>1, <5>1 DEF Made
        <5>3. item'[t].payload = org /\ item'[t].source = org /\ org # None
          BY <4>3, <4>6, <5>1, PipelineAssumption
        <5> QED
          BY <3>2, <5>2, <5>3
      <4> QED
        BY <4>5, <4>6
    <3> QED
      BY <3>3, <3>4
  <2>5. ASSUME NEW u \in Tasks,
               \/ \E o \in {"ok", "failed"} : CallSettles(u, o)
               \/ CallRejected(u) \/ CallMisses(u) \/ BookingFails(u)
        PROVE  RowOrigin(t)' /\ ItemOrigin(t)'
    <3>1. CallEnds(u)
      BY <2>5 DEF CallSettles, CallRejected, CallMisses, BookingFails
    <3>2. UNCHANGED checkpoint /\ calls' = [calls EXCEPT ![u] = calls[u] + 1]
      BY <3>1 DEF CallEnds
    <3>3. \A v \in Tasks : calls'[v] \in Nat /\ calls'[v] >= calls[v]
      BY <3>2 DEF TypeOK
    <3>4. RowOrigin(t)'
      BY <2>2, <3>2, <3>3
    <3>5. CASE item'[t] = item[t]
      BY <2>2, <3>2, <3>3, <3>4, <3>5
    <3>6. CASE item'[t] # item[t]
      <4>1. u = t /\ \E o \in Outcome : item'[t] = Fresh(Run(t), o)
        BY <2>5, <3>6
        DEF CallSettles, CallRejected, CallMisses, BookingFails, Miss, Deliver, TypeOK, Outcome
      <4>2. calls'[t] > 0
        BY <2>1, <3>2, <4>1 DEF TypeOK
      <4> QED
        BY <3>4, <4>1, <4>2 DEF Fresh, Good, Outcome
    <3> QED
      BY <3>5, <3>6
  <2>6. ASSUME NEW r \in Runs, Take(r) PROVE RowOrigin(t)' /\ ItemOrigin(t)'
    <3> DEFINE b == batch[r] \cup {Head(queue[r])}
    <3>1. UNCHANGED <<item, calls>> /\ \A u \in Tasks : calls[u] \in Nat
      BY <2>6 DEF Take, TypeOK
    <3>2. Commit(r, b) \/ UNCHANGED checkpoint
      BY <2>6 DEF Take
    <3>3. b \in SUBSET Chapters
      BY <2>6 DEF Take, TypeOK
    <3> HIDE DEF b
    <3>4. CASE Commit(r, b)
      <4>1. \A u \in Tasks : checkpoint[u].status = "done" => checkpoint'[u] = checkpoint[u]
        BY <3>3, <3>4, CommitKeepsStore
      <4>2. ItemOrigin(t)' /\ (checkpoint'[t] = checkpoint[t] => RowOrigin(t)')
        BY <2>2, <3>1, <4>1
      <4>3. checkpoint'[t] = checkpoint[t] \/ checkpoint'[t] = RowOf(item[t])
        BY <3>4 DEF Commit
      <4>4. CASE checkpoint'[t] = RowOf(item[t])
        BY <3>1, <4>2, <4>4 DEF RowOf, Good
      <4> QED
        BY <4>2, <4>3, <4>4
    <3>5. CASE UNCHANGED checkpoint
      BY <2>3, <3>1, <3>5
    <3> QED
      BY <3>2, <3>4, <3>5
  <2>7. ASSUME NEW r \in Runs, Begin(r) \/ Return(r) \/ Kill(r)
        PROVE  RowOrigin(t)' /\ ItemOrigin(t)'
    BY <2>3, <2>7 DEF Begin, Return, Kill, database
  <2>8. ASSUME NEW u \in Tasks, Wake(u) \/ Put(u) PROVE RowOrigin(t)' /\ ItemOrigin(t)'
    BY <2>3, <2>8 DEF Wake, Put, database
  <2>9. CASE UNCHANGED vars
    BY <2>3, <2>9 DEF vars, database, process
  <2> QED
    BY <2>4, <2>5, <2>6, <2>7, <2>8, <2>9 DEF Next, Process
<1>3. TypeOK /\ OriginInv => SourceIsOrigin
  <2> SUFFICES ASSUME TypeOK, OriginInv, NEW r \in Runs, NEW c \in Chapters,
                      checkpoint[<<r, c>>].status = "done"
               PROVE  LET row == checkpoint[<<r, c>>]
                          org == IF row.source = None THEN r ELSE row.source
                      IN  /\ row.payload = org
                          /\ checkpoint[<<org, c>>].status = "done"
                          /\ checkpoint[<<org, c>>].source = None
                          /\ calls[<<org, c>>] > 0
    BY DEF SourceIsOrigin
  <2>1. <<r, c>> \in Tasks /\ Run(<<r, c>>) = r /\ Chap(<<r, c>>) = c
    BY DEF Tasks, Run, Chap
  <2> QED
    BY <2>1 DEF OriginInv, Made
<1>4. Spec => [](TypeOK /\ CoroutineInv) /\ []PipelineInv
  BY PipelineTyping, PipelineSafety, PTL
<1> QED
  BY <1>1, <1>2, <1>3, <1>4, PTL DEF Spec, PipelineInv

\* What a coroutine's step does to its result and to its run's queue: a result
\* that was delivered stays as it is, and only a delivered one is put in.
LEMMA ProcessSteps ==
  ASSUME TypeOK, NEW t \in Tasks, Process(t)
  PROVE  /\ UNCHANGED <<phase, batch, taken, stats, checkpoint, draft>>
         /\ \A u \in Tasks : u # t => worker'[u] = worker[u] /\ item'[u] = item[u]
         /\ worker[t] # "end"
         /\ worker'[t] = "put" => item'[t].kind # "none"
         /\ \/ UNCHANGED queue
            \/ /\ worker[t] = "put" /\ worker'[t] = "end" /\ item'[t] = item[t]
               /\ queue' = [queue EXCEPT ![Run(t)] = Append(@, Chap(t))]
<1>1. UNCHANGED <<phase, batch, taken, stats, checkpoint, draft>>
  BY DEF Process, LookUp, Wake, Put, CallSettles, CallRejected, CallMisses, BookingFails,
         CallEnds, database
<1>2. worker[t] # "end"
  BY DEF Process, LookUp, Wake, Put, CallSettles, CallRejected, CallMisses, BookingFails,
         CallEnds, At
<1>3. CASE LookUp(t)
  <2>1. UNCHANGED queue
    BY <1>3 DEF LookUp
  <2>2. \/ worker' = [worker EXCEPT ![t] = "calling"] /\ UNCHANGED item
        \/ \E i : i.kind = "reuse" /\ item' = [item EXCEPT ![t] = i] /\ worker' = [worker EXCEPT ![t] = "put"]
    BY <1>3 DEF LookUp, Move, Deliver
  <2> QED
    BY <1>1, <1>2, <2>1, <2>2 DEF TypeOK
<1>4. CASE Wake(t)
  BY <1>1, <1>2, <1>4 DEF Wake, Move, TypeOK
<1>5. CASE Put(t)
  <2>1. /\ worker[t] = "put" /\ worker' = [worker EXCEPT ![t] = "end"] /\ UNCHANGED item
        /\ queue' = [queue EXCEPT ![Run(t)] = Append(@, Chap(t))]
    BY <1>5 DEF Put, At, Move
  <2> QED
    BY <1>1, <2>1 DEF TypeOK
<1>6. ASSUME \/ \E o \in {"ok", "failed"} : CallSettles(t, o)
             \/ CallRejected(t) \/ CallMisses(t) \/ BookingFails(t)
      PROVE  /\ UNCHANGED queue
             /\ \A u \in Tasks : u # t => worker'[u] = worker[u] /\ item'[u] = item[u]
             /\ worker'[t] = "put" => item'[t].kind # "none"
  <2>1. UNCHANGED queue
    BY <1>6 DEF CallSettles, CallRejected, CallMisses, BookingFails, CallEnds
  <2>2. \/ worker' = [worker EXCEPT ![t] = "backoff"] /\ UNCHANGED item
        \/ \E o \in Outcome : /\ item' = [item EXCEPT ![t] = Fresh(Run(t), o)]
                              /\ worker' = [worker EXCEPT ![t] = "put"]
    BY <1>6 DEF CallSettles, CallRejected, CallMisses, BookingFails, Miss, Move, Deliver, Outcome
  <2>3. \A o \in Outcome : Fresh(Run(t), o).kind # "none"
    BY DEF Fresh, Outcome
  <2> QED
    BY <2>1, <2>2, <2>3 DEF TypeOK
<1> QED
  BY <1>1, <1>2, <1>3, <1>4, <1>5, <1>6 DEF Process

\* Given and Counted speak of one run's coroutines, writer and rows.
LEMMA OtherRuns ==
  ASSUME NEW r \in Runs, Given(r), Counted(r),
         \A c \in Chapters : /\ worker'[<<r, c>>] = worker[<<r, c>>]
                             /\ item'[<<r, c>>] = item[<<r, c>>]
                             /\ checkpoint'[<<r, c>>] = checkpoint[<<r, c>>],
         queue[r] \in Seq(Chapters), batch[r] \subseteq Chapters,
         queue'[r] = queue[r], batch'[r] = batch[r], taken'[r] = taken[r], stats'[r] = stats[r]
  PROVE  Given(r)' /\ Counted(r)'
<1>1. \A i \in DOMAIN queue[r] : queue[r][i] \in Chapters
  OBVIOUS
<1>2. \A c \in Chapters : Delivered(r, c) => Delivered(r, c)'
  BY DEF Delivered
<1>3. Given(r)'
  BY <1>1, <1>2 DEF Given
<1>4. Counted(r)'
  BY <1>2 DEF Counted
<1> QED
  BY <1>3, <1>4

\* A batch that is counted adds each of its chapters to the count of its kind.
LEMMA TallyAdds ==
  ASSUME TypeOK, NEW r \in Runs, NEW b \in SUBSET Chapters, NEW n \in {0, 1}, Tally(r, b, n)
  PROVE  /\ \A s \in Runs : s # r => stats'[s] = stats[s]
         /\ \A c \in Chapters :
              /\ c \in stats'[r].new <=> c \in stats[r].new \/ (c \in b /\ item[<<r, c>>].kind = "ok")
              /\ c \in stats'[r].reuse
                   <=> c \in stats[r].reuse \/ (c \in b /\ item[<<r, c>>].kind = "reuse")
              /\ c \in stats'[r].failed
                   <=> c \in stats[r].failed
                       \/ (c \in b /\ item[<<r, c>>].kind \in {"failed", "rejected"})
         /\ stats'[r].lost = stats[r].lost + n /\ stats[r].lost \in Nat
<1> DEFINE Kind(K) == {c \in b : item[<<r, c>>].kind \in K}
           new == [new    |-> stats[r].new \cup Kind({"ok"}),
                   reuse  |-> stats[r].reuse \cup Kind({"reuse"}),
                   failed |-> stats[r].failed \cup Kind({"failed", "rejected"}),
                   lost   |-> stats[r].lost + n]
<1>1. stats' = [stats EXCEPT ![r] = new]
  BY DEF Tally
<1>2. stats'[r] = new /\ \A s \in Runs : s # r => stats'[s] = stats[s]
  <2> HIDE DEF new
  <2> QED
    BY <1>1 DEF TypeOK
<1>3. \A K, c : c \in Kind(K) <=> c \in b /\ item[<<r, c>>].kind \in K
  OBVIOUS
<1>4. stats[r].lost \in Nat
  BY DEF TypeOK
<1> HIDE DEF Kind
<1>5. /\ stats'[r].new = stats[r].new \cup Kind({"ok"})
      /\ stats'[r].reuse = stats[r].reuse \cup Kind({"reuse"})
      /\ stats'[r].failed = stats[r].failed \cup Kind({"failed", "rejected"})
      /\ stats'[r].lost = stats[r].lost + n
  BY <1>2
<1> QED
  BY <1>2, <1>3, <1>4, <1>5

\* The writer's step keeps the books: what it takes is in the batch or counted,
\* and a row appears only together with its count.
LEMMA TakeTallies ==
  ASSUME TypeOK, StoreInv, TallyInv, NEW r \in Runs, Take(r)
  PROVE  TallyInv'
<1> DEFINE h == Head(queue[r])
           b == batch[r] \cup {h}
<1>1. /\ queue[r] # <<>> /\ queue[r] \in Seq(Chapters) /\ h \in Chapters
      /\ batch[r] \subseteq Chapters /\ b \subseteq Chapters /\ taken[r] \subseteq Chapters
  BY DEF Take, TypeOK
<1>2. /\ queue' = [queue EXCEPT ![r] = Tail(@)]
      /\ taken' = [taken EXCEPT ![r] = @ \cup {h}]
      /\ UNCHANGED <<worker, item>>
  BY DEF Take
<1>3. /\ queue'[r] = Tail(queue[r]) /\ taken'[r] = taken[r] \cup {h}
      /\ \A s \in Runs : s # r => queue'[s] = queue[s] /\ taken'[s] = taken[s]
  BY <1>2 DEF TypeOK
<1>4. \/ batch' = [batch EXCEPT ![r] = {}] /\ Commit(r, b) /\ Tally(r, b, 0)
      \/ batch' = [batch EXCEPT ![r] = {}] /\ UNCHANGED checkpoint /\ Tally(r, b, 1)
      \/ batch' = [batch EXCEPT ![r] = b] /\ UNCHANGED <<checkpoint, stats>> /\ taken'[r] # Chapters
  BY DEF Take
<1>5. Given(r) /\ Counted(r)
  BY DEF TallyInv
<1>6. Delivered(r, h) /\ \A i \in DOMAIN Tail(queue[r]) : Delivered(r, Tail(queue[r])[i])
  <2>1. h = queue[r][1] /\ 1 \in DOMAIN queue[r]
    BY <1>1
  <2>2. \A i \in DOMAIN Tail(queue[r]) : /\ i + 1 \in DOMAIN queue[r]
                                         /\ Tail(queue[r])[i] = queue[r][i + 1]
    BY <1>1
  <2> QED
    BY <1>5, <2>1, <2>2 DEF Given
<1>7. \A x \in b : Delivered(r, x)
  BY <1>5, <1>6 DEF Given
<1>8. \A x : Delivered(r, x)' <=> Delivered(r, x)
  BY <1>2 DEF Delivered
<1> HIDE DEF b, h
<1>9. \A s \in Runs : s # r => Given(s)' /\ Counted(s)'
  <2> SUFFICES ASSUME NEW s \in Runs, s # r PROVE Given(s)' /\ Counted(s)'
    OBVIOUS
  <2>1. batch'[s] = batch[s]
    BY <1>4 DEF TypeOK
  <2>2. stats'[s] = stats[s]
    <3>1. \A n \in {0, 1} : Tally(r, b, n) => stats'[s] = stats[s]
      BY <1>1, TallyAdds
    <3> QED
      BY <1>4, <3>1
  <2>3. \A c \in Chapters : checkpoint'[<<s, c>>] = checkpoint[<<s, c>>]
    BY <1>4 DEF Commit, Tasks, Run
  <2>4. queue[s] \in Seq(Chapters) /\ batch[s] \subseteq Chapters /\ Given(s) /\ Counted(s)
    BY DEF TypeOK, TallyInv
  <2> QED
    BY <1>2, <1>3, <2>1, <2>2, <2>3, <2>4, OtherRuns
<1>10. CASE batch' = [batch EXCEPT ![r] = b] /\ UNCHANGED <<checkpoint, stats>> /\ taken'[r] # Chapters
  <2>1. batch'[r] = b
    BY <1>10 DEF TypeOK
  <2>2. taken'[r] \subseteq b \cup stats[r].new \cup stats[r].reuse \cup stats[r].failed
    BY <1>3, <1>5 DEF Given, b
  <2>3. Given(r)'
    BY <1>2, <1>3, <1>5, <1>6, <1>7, <1>8, <1>10, <2>1, <2>2 DEF Given
  <2>4. Counted(r)'
    BY <1>2, <1>5, <1>8, <1>10 DEF Counted
  <2> QED
    BY <1>9, <2>3, <2>4 DEF TallyInv
<1>11. ASSUME NEW n \in {0, 1}, batch' = [batch EXCEPT ![r] = {}], Tally(r, b, n),
              \/ n = 0 /\ Commit(r, b)
              \/ n = 1 /\ UNCHANGED checkpoint
       PROVE  TallyInv'
  <2>1. batch'[r] = {}
    BY <1>11 DEF TypeOK
  <2>2. /\ \A c \in Chapters :
             /\ c \in stats'[r].new <=> c \in stats[r].new \/ (c \in b /\ item[<<r, c>>].kind = "ok")
             /\ c \in stats'[r].reuse
                  <=> c \in stats[r].reuse \/ (c \in b /\ item[<<r, c>>].kind = "reuse")
             /\ c \in stats'[r].failed
                  <=> c \in stats[r].failed
                      \/ (c \in b /\ item[<<r, c>>].kind \in {"failed", "rejected"})
        /\ stats'[r].lost = stats[r].lost + n /\ stats[r].lost \in Nat
    BY <1>1, <1>11, TallyAdds
  <2>3. \A x \in b : x \in stats'[r].new \cup stats'[r].reuse \cup stats'[r].failed
    BY <1>1, <1>7, <2>2 DEF Delivered, Outcome
  <2>4. taken'[r] \subseteq stats'[r].new \cup stats'[r].reuse \cup stats'[r].failed
    <3>1. ASSUME NEW x \in taken'[r] PROVE x \in stats'[r].new \cup stats'[r].reuse \cup stats'[r].failed
      <4>1. CASE x \in b
        BY <2>3, <4>1
      <4>2. CASE x \notin b
        BY <1>1, <1>3, <1>5, <2>2, <3>1, <4>2 DEF Given, b
      <4> QED
        BY <4>1, <4>2
    <3> QED
      BY <3>1
  <2>5. Given(r)'
    BY <1>2, <1>3, <1>5, <1>6, <1>8, <2>1, <2>4 DEF Given
  <2>6. ASSUME NEW c \in Chapters
        PROVE  /\ c \in stats'[r].new \cup stats'[r].reuse \cup stats'[r].failed => Delivered(r, c)
               /\ c \in stats'[r].new \cup stats'[r].reuse => item[<<r, c>>].kind \in Good
               /\ c \in stats'[r].failed => item[<<r, c>>].kind \notin Good
    BY <1>5, <1>7, <2>2 DEF Counted, Good
  <2>7. ASSUME NEW c \in Chapters
        PROVE  /\ checkpoint'[<<r, c>>].status = "done" => c \in stats'[r].new \cup stats'[r].reuse
               /\ checkpoint'[<<r, c>>].status = "failed" => c \in stats'[r].failed
               /\ stats'[r].lost = 0 /\ c \in stats'[r].new \cup stats'[r].reuse \cup stats'[r].failed
                    => checkpoint'[<<r, c>>].status # "none"
    <3> DEFINE t == <<r, c>>
    <3>1. t \in Tasks /\ Run(t) = r /\ Chap(t) = c
      BY DEF Tasks, Run, Chap
    <3>2. CASE checkpoint'[t] = checkpoint[t] /\ ~(n = 0 /\ c \in b /\ checkpoint[t] = NoRow)
      <4>1. c \in b /\ n = 0 => checkpoint[t].status # "none"
        BY <3>1, <3>2 DEF StoreInv
      <4>2. stats'[r].lost = 0 => stats[r].lost = 0 /\ n = 0
        BY <2>2
      <4> QED
        BY <1>5, <2>2, <3>2, <4>1, <4>2 DEF Counted
    <3>3. CASE n = 0 /\ c \in b /\ checkpoint[t] = NoRow
      <4>1. checkpoint'[t] = RowOf(item[t])
        BY <1>11, <3>1, <3>3 DEF Commit
      <4>2. /\ checkpoint'[t].status = "done" => item[t].kind \in Good
            /\ checkpoint'[t].status = "failed" => item[t].kind \notin Good
            /\ checkpoint'[t].status # "none"
        BY <4>1 DEF RowOf
      <4>3. Delivered(r, c)
        BY <1>7, <3>3
      <4> QED
        BY <2>2, <3>3, <4>2, <4>3 DEF Delivered, Outcome, Good
    <3>4. checkpoint'[t] = checkpoint[t] \/ (n = 0 /\ c \in b /\ checkpoint[t] = NoRow)
      BY <1>11, <3>1 DEF Commit
    <3> QED
      BY <3>2, <3>3, <3>4
  <2>8. Counted(r)'
    <3>1. \A c \in Chapters : item'[<<r, c>>] = item[<<r, c>>]
      BY <1>2
    <3> QED
      BY <1>8, <2>6, <2>7, <3>1 DEF Counted
  <2> QED
    BY <1>9, <2>5, <2>8 DEF TallyInv
<1> QED
  BY <1>4, <1>10, <1>11

\* SummaryMatchesStore for any number of runs, chapters and batches: when no
\* flush failed, a run that returned has the rows its summary counts.
THEOREM SummaryIsTheStore == Spec => []SummaryMatchesStore
<1>1. Init => TallyInv
  BY DEF Init, TallyInv, Given, Counted, Tasks, NoRow, NoItem
<1>2. TypeOK /\ StoreInv /\ TallyInv /\ [Next]_vars => TallyInv'
  <2> SUFFICES ASSUME TypeOK, StoreInv, TallyInv, [Next]_vars PROVE TallyInv'
    OBVIOUS
  <2>1. \A r \in Runs : queue[r] \in Seq(Chapters) /\ batch[r] \subseteq Chapters
                        /\ taken[r] \subseteq Chapters
    BY DEF TypeOK
  <2>2. ASSUME UNCHANGED <<worker, item, checkpoint, queue, batch, taken, stats>> PROVE TallyInv'
    BY <2>1, <2>2, OtherRuns DEF TallyInv
  <2>3. ASSUME NEW t \in Tasks, Process(t) PROVE TallyInv'
    <3>1. /\ UNCHANGED <<phase, batch, taken, stats, checkpoint, draft>>
          /\ \A u \in Tasks : u # t => worker'[u] = worker[u] /\ item'[u] = item[u]
          /\ worker[t] # "end"
          /\ worker'[t] = "put" => item'[t].kind # "none"
          /\ \/ UNCHANGED queue
             \/ /\ worker[t] = "put" /\ worker'[t] = "end" /\ item'[t] = item[t]
                /\ queue' = [queue EXCEPT ![Run(t)] = Append(@, Chap(t))]
      BY <2>3, ProcessSteps
    <3> SUFFICES ASSUME NEW r \in Runs PROVE Given(r)' /\ Counted(r)'
      BY DEF TallyInv
    <3>2. Given(r) /\ Counted(r)
      BY DEF TallyInv
    <3>3. \A c \in Chapters : <<r, c>> \in Tasks
      BY DEF Tasks
    <3>4. \A c \in Chapters : /\ Delivered(r, c) => <<r, c>> # t
                              /\ Delivered(r, c) => Delivered(r, c)'
                              /\ Delivered(r, c) => item'[<<r, c>>] = item[<<r, c>>]
      BY <3>1, <3>3 DEF Delivered
    <3>5. \A c \in Chapters : worker'[<<r, c>>] = "put" => item'[<<r, c>>].kind # "none"
      BY <3>1, <3>2, <3>3 DEF Given
    <3>6. \A i \in DOMAIN queue'[r] : /\ worker'[<<r, queue'[r][i]>>] = "end"
                                      /\ item'[<<r, queue'[r][i]>>].kind \in {"reuse"} \cup Outcome
      <4> SUFFICES ASSUME NEW i \in DOMAIN queue'[r], NEW c, c = queue'[r][i]
                   PROVE  /\ worker'[<<r, c>>] = "end"
                          /\ item'[<<r, c>>].kind \in {"reuse"} \cup Outcome
        OBVIOUS
      <4>1. ASSUME c \in Chapters, Delivered(r, c)
            PROVE  /\ worker'[<<r, c>>] = "end"
                   /\ item'[<<r, c>>].kind \in {"reuse"} \cup Outcome
        BY <3>4, <4>1 DEF Delivered
      <4>2. CASE queue'[r] = queue[r]
        <5>1. c \in Chapters /\ Delivered(r, c)
          BY <2>1, <3>2, <4>2 DEF Given
        <5> QED
          BY <4>1, <5>1
      <4>3. CASE queue'[r] # queue[r]
        <5>1. /\ r = Run(t) /\ queue'[r] = Append(queue[r], Chap(t))
              /\ worker[t] = "put" /\ worker'[t] = "end" /\ item'[t] = item[t]
          BY <3>1, <4>3, TaskParts DEF TypeOK
        <5>2. t = <<r, Chap(t)>> /\ Chap(t) \in Chapters
          BY <5>1, TaskParts
        <5>3. item[t].kind # "none" /\ item[t].kind \in Kinds
          BY <3>2, <5>1, <5>2 DEF Given, TypeOK, Items
        <5>4. \/ i \in DOMAIN queue[r] /\ c = queue[r][i] /\ c \in Chapters
              \/ c = Chap(t)
          BY <2>1, <5>1, <5>2
        <5>5. CASE c = Chap(t)
          BY <5>1, <5>2, <5>3, <5>5 DEF Kinds
        <5>6. CASE i \in DOMAIN queue[r] /\ c = queue[r][i] /\ c \in Chapters
          BY <3>2, <4>1, <5>6 DEF Given
        <5> QED
          BY <5>4, <5>5, <5>6
      <4> QED
        BY <4>2, <4>3
    <3>7. Given(r)'
      <4>1. \A i \in DOMAIN queue'[r] : Delivered(r, queue[r][i])'
        BY <3>6 DEF Delivered
      <4>2. \A c \in batch'[r] : Delivered(r, c)'
        BY <2>1, <3>1, <3>2, <3>4 DEF Given
      <4> QED
        BY <3>1, <3>2, <3>5, <4>1, <4>2 DEF Given
    <3>8. Counted(r)'
      BY <3>1, <3>2, <3>4 DEF Counted
    <3> QED
      BY <3>7, <3>8
  <2>4. ASSUME NEW r \in Runs, Begin(r) \/ Return(r) \/ Kill(r) PROVE TallyInv'
    BY <2>2, <2>4 DEF Begin, Return, Kill, database
  <2>5. CASE UNCHANGED vars
    BY <2>2, <2>5 DEF vars, database, process
  <2> QED
    BY <2>3, <2>4, <2>5, TakeTallies DEF Next
<1>3. TypeOK /\ TallyInv /\ AllTaken => SummaryMatchesStore
  <2> SUFFICES ASSUME TypeOK, TallyInv, AllTaken, NEW r \in Runs,
                      phase[r] = "returned", stats[r].lost = 0
               PROVE  /\ Done(r) = stats[r].new \cup stats[r].reuse
                      /\ Failed(r) = stats[r].failed
                      /\ Done(r) \cup Failed(r) = Chapters
    BY DEF SummaryMatchesStore
  <2>1. /\ taken[r] = Chapters /\ Given(r) /\ Counted(r)
        /\ stats[r].new \subseteq Chapters /\ stats[r].reuse \subseteq Chapters
        /\ stats[r].failed \subseteq Chapters
    BY DEF AllTaken, TallyInv, TypeOK
  <2>2. Chapters \subseteq stats[r].new \cup stats[r].reuse \cup stats[r].failed
    BY <2>1 DEF Given
  <2>3. ASSUME NEW c \in Chapters
        PROVE  checkpoint[<<r, c>>].status \in {"none", "done", "failed"}
    BY DEF TypeOK, Tasks, Rows
  <2>4. ASSUME NEW c \in Chapters
        PROVE  /\ checkpoint[<<r, c>>].status = "done" <=> c \in stats[r].new \cup stats[r].reuse
               /\ checkpoint[<<r, c>>].status = "failed" <=> c \in stats[r].failed
    BY <2>1, <2>2, <2>3 DEF Counted
  <2> QED
    BY <2>1, <2>2, <2>4 DEF Done, Failed
<1>4. Init => AllTaken
  BY DEF Init, AllTaken
<1>5. TypeOK /\ AllTaken /\ [Next]_vars => AllTaken'
  <2> SUFFICES ASSUME TypeOK, AllTaken, [Next]_vars, NEW r \in Runs, phase'[r] = "returned"
               PROVE  taken'[r] = Chapters
    BY DEF AllTaken
  <2>1. ASSUME UNCHANGED <<phase, taken>> PROVE taken'[r] = Chapters
    BY <2>1 DEF AllTaken
  <2>2. ASSUME NEW s \in Runs, Begin(s) \/ Return(s) \/ Kill(s) PROVE taken'[r] = Chapters
    BY <2>2 DEF Begin, Return, Kill, AllTaken, TypeOK
  <2>3. ASSUME NEW s \in Runs, Take(s) PROVE taken'[r] = Chapters
    BY <2>3 DEF Take, AllTaken, TypeOK
  <2>4. ASSUME NEW t \in Tasks, Process(t) PROVE taken'[r] = Chapters
    BY <2>1, <2>4, ProcessSteps
  <2>5. CASE UNCHANGED vars
    BY <2>1, <2>5 DEF vars, process
  <2> QED
    BY <2>2, <2>3, <2>4, <2>5 DEF Next
<1>6. Spec => []TypeOK
  BY PipelineTyping
<1>7. Spec => []StoreInv
  BY PipelineSafety, PTL DEF PipelineInv
<1> QED
  BY <1>1, <1>2, <1>3, <1>4, <1>5, <1>6, <1>7, PTL DEF Spec
===============================================================================
