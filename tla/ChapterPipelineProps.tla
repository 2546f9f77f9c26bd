------------------------- MODULE ChapterPipelineProps -------------------------
(***************************************************************************)
(* What the chapter pipeline guarantees for its checkpoints, its ledger,   *)
(* its summary and the activation gate that reads the checkpoints.         *)
(***************************************************************************)
EXTENDS ChapterPipeline

\* The checkpoint part of Validator.issues finds nothing.
GateOpen(r) == /\ Cardinality(Done(r)) >= Cardinality(Chapters)
               /\ IF Exempt = 0 THEN Failed(r) = {}
                  ELSE Cardinality(Failed(r)) <= Exempt

\* Checkpoint and staging row of a chapter are committed together or not at
\* all, also for reused and failed chapters and when batches are rolled back.
DraftMatchesCheckpoint ==
  \A t \in Tasks : /\ checkpoint[t].status = "done" <=> draft[t] = "valid"
                   /\ checkpoint[t].status = "failed" <=> draft[t] = "failed"

\* A checkpoint that was reused names the run whose provider answer it holds,
\* over any chain of runs that reused each other's: its source is a run with
\* a checkpoint of its own making, and the payload is that run's answer.
SourceIsOrigin ==
  \A r \in Runs, c \in Chapters :
    LET row == checkpoint[<<r, c>>]
        org == IF row.source = None THEN r ELSE row.source
    IN  row.status = "done" => /\ row.payload = org
                               /\ checkpoint[<<org, c>>].status = "done"
                               /\ checkpoint[<<org, c>>].source = None
                               /\ calls[<<org, c>>] > 0

\* After an interruption only what is missing is run again: a chapter some run
\* had finished when this run began costs it no provider call.
OnlyPendingCalled ==
  \A r \in Runs : \A c \in known[r] : calls[<<r, c>>] = 0

\* A chapter's provider calls are all in the ledger once its result is on its
\* way to the writer, whatever retries and failed bookings came before, unless
\* the provider rejected the input.
CallsBooked ==
  \A t \in Tasks : worker[t] \in {"put", "end"} /\ item[t].kind # "rejected"
                   => booked[t] = calls[t]

\* When no flush failed, the summary of a run that returned is the database:
\* every chapter is counted once and has the row its count says.
SummaryMatchesStore ==
  \A r \in Runs : phase[r] = "returned" /\ stats[r].lost = 0
                  => /\ Done(r) = stats[r].new \cup stats[r].reuse
                     /\ Failed(r) = stats[r].failed
                     /\ Done(r) \cup Failed(r) = Chapters

\* Where a coroutine stands tells how its calls, misses and bookings relate:
\* the strengthening that makes the accounting inductive.
CoroutineInv ==
  \A t \in Tasks :
    /\ phase[Run(t)] = "new" => worker[t] = "start"
    /\ worker[t] = "start" => calls[t] = 0 /\ misses[t] = 0
    /\ worker[t] \in {"start", "calling", "backoff"}
         => /\ calls[t] = misses[t]
            /\ misses[t] < MaxAttempts
            /\ booked[t] = 0
    /\ worker[t] \in {"put", "end"} /\ item[t].kind # "rejected"
         => booked[t] = calls[t]

\* A chapter that was done when the run began stays done, and its coroutine
\* never gets to the provider.
PendingInv ==
  \A r \in Runs : \A c \in known[r] :
    /\ Hits(c) # {}
    /\ worker[<<r, c>>] \in {"start", "put", "end"}
    /\ calls[<<r, c>>] = 0

\* A missing checkpoint is missing altogether, and so is its staging row.
StoreInv ==
  \A t \in Tasks : /\ checkpoint[t].status = "none" => checkpoint[t] = NoRow
                   /\ checkpoint[t].status = "none" <=> draft[t] = "none"

\* Whoever made the answer that a row or a result carries has a checkpoint of
\* its own making: the strengthening that makes SourceIsOrigin inductive.
Made(s, c) == /\ checkpoint[<<s, c>>].status = "done"
              /\ checkpoint[<<s, c>>].source = None
              /\ calls[<<s, c>>] > 0

OriginInv ==
  \A t \in Tasks :
    /\ checkpoint[t].status = "done" =>
         IF checkpoint[t].source = None
         THEN checkpoint[t].payload = Run(t) /\ calls[t] > 0
         ELSE /\ checkpoint[t].payload = checkpoint[t].source
              /\ Made(checkpoint[t].source, Chap(t))
    /\ item[t].kind \in Good =>
         IF item[t].source = None
         THEN item[t].payload = Run(t) /\ calls[t] > 0
         ELSE /\ item[t].payload = item[t].source
              /\ Made(item[t].source, Chap(t))

\* What the writer has been given, has collected, counted and committed: the
\* strengthening that makes SummaryMatchesStore inductive.
Delivered(r, c) == /\ worker[<<r, c>>] = "end"
                   /\ item[<<r, c>>].kind \in {"reuse"} \cup Outcome

Given(r) == /\ \A c \in Chapters : worker[<<r, c>>] = "put" => item[<<r, c>>].kind # "none"
            /\ \A i \in DOMAIN queue[r] : Delivered(r, queue[r][i])
            /\ \A c \in batch[r] : Delivered(r, c)
            /\ taken[r] \subseteq batch[r] \cup stats[r].new \cup stats[r].reuse \cup stats[r].failed
            /\ taken[r] = Chapters => batch[r] = {}

Counted(r) == \A c \in Chapters :
  /\ c \in stats[r].new \cup stats[r].reuse \cup stats[r].failed => Delivered(r, c)
  /\ c \in stats[r].new \cup stats[r].reuse => item[<<r, c>>].kind \in Good
  /\ c \in stats[r].failed => item[<<r, c>>].kind \notin Good
  /\ checkpoint[<<r, c>>].status = "done" => c \in stats[r].new \cup stats[r].reuse
  /\ checkpoint[<<r, c>>].status = "failed" => c \in stats[r].failed
  /\ stats[r].lost = 0 /\ c \in stats[r].new \cup stats[r].reuse \cup stats[r].failed
       => checkpoint[<<r, c>>].status # "none"

TallyInv == \A r \in Runs : Given(r) /\ Counted(r)

AllTaken == \A r \in Runs : phase[r] = "returned" => taken[r] = Chapters

PipelineInv == /\ DraftMatchesCheckpoint /\ StoreInv
               /\ CoroutineInv /\ PendingInv

\* The gate lets a run through only if every chapter has a valid draft in it,
\* also after rolled back batches, which the summary does not show.
GateComplete ==
  \A r \in Runs : GateOpen(r) => \A c \in Chapters : draft[<<r, c>>] = "valid"

\* No chapter of a run is skipped in silence, and nobody waits for ever on the
\* full queue or on an unfilled batch: unless it is killed, a run returns.
RunReturns == \A r \in Runs : phase[r] = "live" ~> phase[r] = "returned"
===============================================================================
