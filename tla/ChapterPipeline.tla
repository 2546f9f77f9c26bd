---------------------------- MODULE ChapterPipeline ----------------------------
(***************************************************************************)
(* PipelineRunner.run (pipeline/runner.py) with its checkpoints, ledger    *)
(* and staging rows: one coroutine per chapter calls the provider with     *)
(* retries and puts its result into a bounded queue; one writer takes the  *)
(* results out and commits them in batches.                                *)
(*                                                                         *)
(* A run is executed once, by one process; processes of several runs of    *)
(* the book may be alive together and share only the database.  All runs   *)
(* use the same versions and contents, so a checkpoint key is a chapter.   *)
(* A step is what happens between two awaits, or one transaction.          *)
(***************************************************************************)
EXTENDS Naturals, Sequences, FiniteSets

CONSTANTS Runs,
          Chapters,
          None,
          QueueSize,     \* capacity of the queue
          BatchSize,     \* results per write transaction
          MaxAttempts,   \* RetryPolicy.max_attempts
          Exempt,        \* failed chapters the gate's error ratio tolerates
          MaxKills,      \* bound on the processes that die
          MaxFaults      \* bound on the database errors that are survived

ASSUME PipelineAssumption ==
  /\ IsFiniteSet(Chapters)
  /\ None \notin Runs
  /\ QueueSize \in Nat \ {0}
  /\ BatchSize \in Nat \ {0}
  /\ MaxAttempts \in Nat \ {0}
  /\ {Exempt, MaxKills, MaxFaults} \subseteq Nat

\* A task is the work on one chapter in one run.
Tasks == Runs \X Chapters

Run(t)  == t[1]
Chap(t) == t[2]

VARIABLES checkpoint,  \* run_checkpoints per run and chapter
          draft,       \* map_drafts.status per run and chapter
          booked,      \* provider calls the token ledger accounts for
          phase,       \* of the process executing a run
          worker,      \* where the coroutine of a chapter is
          misses,      \* its failed attempts so far (retry_usage)
          item,        \* the result it produced
          queue,       \* asyncio.Queue of a run: chapters whose item is inside
          batch,       \* the writer's batch
          taken,       \* chapters the writer has taken (processed)
          stats,       \* chapters counted per kind, and failed flushes
          kills, faults,
          calls,       \* history: provider calls that ended
          known        \* history: chapters done in some run when a run began

database == <<checkpoint, draft, booked>>
process  == <<phase, worker, misses, item, queue, batch, taken, stats>>
vars     == <<database, process, kills, faults, calls, known>>

Outcome == {"ok", "failed", "rejected"}

\* What a row or an item holds besides its kind: the run whose provider answer
\* is the payload, and the run it is attributed to (source_run_id).
NoItem       == [kind |-> "none", payload |-> None, source |-> None]
Fresh(r, o)  == [kind |-> o, payload |-> IF o = "ok" THEN r ELSE None,
                 source |-> None]

Kinds == {"none", "reuse"} \cup Outcome
Items == [kind : Kinds, payload : Runs \cup {None}, source : Runs \cup {None}]

NoRow == [status |-> "none", payload |-> None, source |-> None]
Rows  == [status : {"none", "done", "failed"},
          payload : Runs \cup {None}, source : Runs \cup {None}]

TypeOK == /\ checkpoint \in [Tasks -> Rows]
          /\ draft \in [Tasks -> {"none", "valid", "failed"}]
          /\ booked \in [Tasks -> Nat]
          /\ phase \in [Runs -> {"new", "live", "returned", "dead"}]
          /\ worker \in [Tasks -> {"start", "calling", "backoff", "put", "end"}]
          /\ misses \in [Tasks -> 0..MaxAttempts]
          /\ item \in [Tasks -> Items]
          /\ queue \in [Runs -> Seq(Chapters)]
          /\ batch \in [Runs -> SUBSET Chapters]
          /\ taken \in [Runs -> SUBSET Chapters]
          /\ stats \in [Runs -> [new : SUBSET Chapters, reuse : SUBSET Chapters,
                                 failed : SUBSET Chapters, lost : Nat]]
          /\ kills \in 0..MaxKills
          /\ faults \in 0..MaxFaults
          /\ calls \in [Tasks -> 0..MaxAttempts]
          /\ known \in [Runs -> SUBSET Chapters]

Init == /\ checkpoint = [t \in Tasks |-> NoRow]
        /\ draft = [t \in Tasks |-> "none"]
        /\ booked = [t \in Tasks |-> 0]
        /\ phase = [r \in Runs |-> "new"]
        /\ worker = [t \in Tasks |-> "start"]
        /\ misses = [t \in Tasks |-> 0]
        /\ item = [t \in Tasks |-> NoItem]
        /\ queue = [r \in Runs |-> <<>>]
        /\ batch = [r \in Runs |-> {}]
        /\ taken = [r \in Runs |-> {}]
        /\ stats = [r \in Runs |-> [new |-> {}, reuse |-> {}, failed |-> {},
                                    lost |-> 0]]
        /\ kills = 0
        /\ faults = 0
        /\ calls = [t \in Tasks |-> 0]
        /\ known = [r \in Runs |-> {}]
-------------------------------------------------------------------------------
Done(r)   == {c \in Chapters : checkpoint[<<r, c>>].status = "done"}
Failed(r) == {c \in Chapters : checkpoint[<<r, c>>].status = "failed"}

\* CheckpointService.find_done: any row of any run, in no particular order.
Hits(c) == {r \in Runs : c \in Done(r)}

\* run() creates one task per chapter, and the writer.
Begin(r) == /\ phase[r] = "new"
            /\ phase' = [phase EXCEPT ![r] = "live"]
            /\ known' = [known EXCEPT ![r] = {c \in Chapters : Hits(c) # {}}]
            /\ UNCHANGED <<database, worker, misses, item, queue, batch, taken,
                           stats, kills, faults, calls>>

At(t, label) == phase[Run(t)] = "live" /\ worker[t] = label

Move(t, label) == worker' = [worker EXCEPT ![t] = label]

Deliver(t, i) == /\ item' = [item EXCEPT ![t] = i]
                 /\ Move(t, "put")

\* With a mistake: only the run's own checkpoints are looked at.
LookUpOwn(t) ==
  /\ At(t, "start")
  /\ checkpoint[t].status # "done"
  /\ Move(t, "calling")
  /\ UNCHANGED <<database, phase, misses, item, queue, batch, taken, stats, kills,
                 faults, calls, known>>

LookUp(t) ==
  /\ At(t, "start")
  /\ IF Hits(Chap(t)) = {}
     THEN Move(t, "calling") /\ UNCHANGED item
     ELSE \E s \in Hits(Chap(t)) :
            LET row == checkpoint[<<s, Chap(t)>>]
            IN  Deliver(t, [kind    |-> "reuse",
                            payload |-> row.payload,
                            source  |-> IF row.source = None THEN s
                                        ELSE row.source])
  /\ UNCHANGED <<database, phase, misses, queue, batch, taken, stats, kills,
                 faults, calls, known>>
-------------------------------------------------------------------------------
(* _process_with_retry *)

CallEnds(t) == /\ At(t, "calling")
               /\ calls' = [calls EXCEPT ![t] = @ + 1]
               /\ UNCHANGED <<checkpoint, draft, phase, queue, batch, taken,
                              stats, kills, known>>

Book(t, n) == booked' = [booked EXCEPT ![t] = @ + n]

\* With a mistake: the attempts before the last one are forgotten.
CallSettlesAlone(t, o) == /\ CallEnds(t)
                          /\ Book(t, 1)
                          /\ Deliver(t, Fresh(Run(t), o))
                          /\ UNCHANGED <<misses, faults>>

\* process_fn returned: a good result, a structured failure or a payload the
\* schema check refuses.  The attempts before it are booked with it.
CallSettles(t, o) == /\ CallEnds(t)
                     /\ Book(t, misses[t] + 1)
                     /\ Deliver(t, Fresh(Run(t), o))
                     /\ UNCHANGED <<misses, faults>>

\* With a mistake: a rejected chapter ends without a result for the writer.
CallRejectedMutely(t) == /\ CallEnds(t)
                         /\ Move(t, "end")
                         /\ UNCHANGED <<booked, misses, item, faults>>

\* NonRetryableError: returns at once, past every ledger.record.
CallRejected(t) == /\ CallEnds(t)
                   /\ Deliver(t, Fresh(Run(t), "rejected"))
                   /\ UNCHANGED <<booked, misses, faults>>

\* A timeout or an error counts one more miss; the last allowed one books them
\* all and gives the chapter up.
Miss(t) == /\ misses' = [misses EXCEPT ![t] = @ + 1]
           /\ IF misses[t] + 1 >= MaxAttempts
              THEN /\ Book(t, misses[t] + 1)
                   /\ Deliver(t, Fresh(Run(t), "failed"))
              ELSE Move(t, "backoff") /\ UNCHANGED <<booked, item>>

CallMisses(t) == CallEnds(t) /\ Miss(t) /\ UNCHANGED faults

\* The call succeeded but its ledger row could not be written: the exception
\* lands in the same handler as a provider error.
BookingFails(t) == /\ CallEnds(t)
                   /\ faults < MaxFaults
                   /\ faults' = faults + 1
                   /\ Miss(t)

Wake(t) == /\ At(t, "backoff")
           /\ Move(t, "calling")
           /\ UNCHANGED <<database, phase, misses, item, queue, batch, taken,
                          stats, kills, faults, calls, known>>

\* await queue.put: waits while the queue is full.
Put(t) == /\ At(t, "put")
          /\ Len(queue[Run(t)]) < QueueSize
          /\ queue' = [queue EXCEPT ![Run(t)] = Append(@, Chap(t))]
          /\ Move(t, "end")
          /\ UNCHANGED <<database, phase, misses, item, batch, taken, stats,
                         kills, faults, calls, known>>
-------------------------------------------------------------------------------
(* writer, _flush_batch, CheckpointService.save_with, MapStaging.write *)

Good == {"ok", "reuse"}

\* With a mistake: the status of a failed chapter is left at its default.
RowOfDefault(i) == [status |-> "done", payload |-> i.payload, source |-> i.source]

\* With a mistake: a reused row is saved without the run it came from.
RowOfUnsourced(i) == [status  |-> IF i.kind \in Good THEN "done" ELSE "failed",
                      payload |-> i.payload,
                      source  |-> None]

RowOf(i) == [status  |-> IF i.kind \in Good THEN "done" ELSE "failed",
             payload |-> i.payload,
             source  |-> i.source]

DraftOf(i) == IF i.kind \in Good THEN "valid" ELSE "failed"

\* With a mistake: a failed chapter gets its staging row only.
CommitGood(r, b) ==
  /\ checkpoint' = [t \in Tasks |->
       IF /\ Run(t) = r /\ Chap(t) \in b /\ checkpoint[t] = NoRow
          /\ item[t].kind \in Good
       THEN RowOf(item[t]) ELSE checkpoint[t]]
  /\ draft' = [t \in Tasks |->
       IF Run(t) = r /\ Chap(t) \in b /\ draft[t] = "none"
       THEN DraftOf(item[t]) ELSE draft[t]]

\* INSERT OR IGNORE: a row that is there stays.
Commit(r, b) ==
  /\ checkpoint' = [t \in Tasks |->
       IF Run(t) = r /\ Chap(t) \in b /\ checkpoint[t] = NoRow
       THEN RowOf(item[t]) ELSE checkpoint[t]]
  /\ draft' = [t \in Tasks |->
       IF Run(t) = r /\ Chap(t) \in b /\ draft[t] = "none"
       THEN DraftOf(item[t]) ELSE draft[t]]

\* With a mistake: a failed flush is not counted.
TallyNoLoss(r, b, lost) ==
  LET Kind(K) == {c \in b : item[<<r, c>>].kind \in K}
  IN  stats' = [stats EXCEPT
        ![r] = [new    |-> @.new \cup Kind({"ok"}),
                reuse  |-> @.reuse \cup Kind({"reuse"}),
                failed |-> @.failed \cup Kind({"failed", "rejected"}),
                lost   |-> @.lost]]

\* The batch is counted whether or not it was committed.
Tally(r, b, lost) ==
  LET Kind(K) == {c \in b : item[<<r, c>>].kind \in K}
  IN  stats' = [stats EXCEPT
        ![r] = [new    |-> @.new \cup Kind({"ok"}),
                reuse  |-> @.reuse \cup Kind({"reuse"}),
                failed |-> @.failed \cup Kind({"failed", "rejected"}),
                lost   |-> @.lost + lost]]

Take(r) ==
  /\ phase[r] = "live"
  /\ queue[r] # <<>>
  /\ LET c == Head(queue[r])
         b == batch[r] \cup {c}
     IN  /\ queue' = [queue EXCEPT ![r] = Tail(@)]
         /\ taken' = [taken EXCEPT ![r] = @ \cup {c}]
         /\ IF Cardinality(b) >= BatchSize \/ taken'[r] = Chapters
            THEN /\ batch' = [batch EXCEPT ![r] = {}]
                 /\ \/ Commit(r, b) /\ Tally(r, b, 0) /\ UNCHANGED faults
                    \/ /\ faults < MaxFaults
                       /\ faults' = faults + 1
                       /\ Tally(r, b, 1)
                       /\ UNCHANGED <<checkpoint, draft>>
            ELSE /\ batch' = [batch EXCEPT ![r] = b]
                 /\ UNCHANGED <<checkpoint, draft, stats, faults>>
  /\ UNCHANGED <<booked, phase, worker, misses, item, kills, calls, known>>

\* gather, queue.join and the writer have all come to their end.
Return(r) == /\ phase[r] = "live"
             /\ \A c \in Chapters : worker[<<r, c>>] = "end"
             /\ taken[r] = Chapters
             /\ phase' = [phase EXCEPT ![r] = "returned"]
             /\ UNCHANGED <<database, worker, misses, item, queue, batch, taken,
                            stats, kills, faults, calls, known>>

\* The process is killed, or a database error escapes from a coroutine (out of
\* find_done, or out of the last ledger.record) and cancels all the others.
Kill(r) == /\ phase[r] = "live"
           /\ kills < MaxKills
           /\ kills' = kills + 1
           /\ phase' = [phase EXCEPT ![r] = "dead"]
           /\ UNCHANGED <<database, worker, misses, item, queue, batch, taken,
                          stats, faults, calls, known>>
-------------------------------------------------------------------------------
Process(t) == \/ LookUp(t) \/ Wake(t) \/ Put(t)
              \/ \E o \in {"ok", "failed"} : CallSettles(t, o)
              \/ CallRejected(t) \/ CallMisses(t) \/ BookingFails(t)

Next == \/ \E r \in Runs : Begin(r) \/ Take(r) \/ Return(r) \/ Kill(r)
        \/ \E t \in Tasks : Process(t)

Spec == Init /\ [][Next]_vars

\* The event loop serves every coroutine that is ready, and a call ends: the
\* client and wait_for both have a timeout.
FairSpec == /\ Spec
            /\ \A r \in Runs : WF_vars(Take(r)) /\ WF_vars(Return(r))
            /\ \A t \in Tasks : WF_vars(Process(t))
===============================================================================
