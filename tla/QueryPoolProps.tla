---------------------------- MODULE QueryPoolProps ----------------------------
(***************************************************************************)
(* What admission, cancellation and shutdown of the query pool guarantee.  *)
(***************************************************************************)
EXTENDS QueryPool

Undone == {q \in Requests : future[q] \in {"pending", "running"}}

\* Requests that are counted in inFlight.
Holding == {q \in Requests : /\ stage[q] \notin {"new", "submitted", "overloaded",
                                                 "refused"}
                             /\ callback[q] # "called"}

\* The pool never has more queries to do than threads, although a client that
\* was told "timeout" is gone while its query still runs.
UndoneBounded == Cardinality(Undone) <= MaxInFlight

\* A slot is held only for a query that is not done, or whose end is just about
\* to call back: slots are neither lost nor given back twice.
SlotsAccounted ==
  /\ inFlight = Cardinality(Holding)
  /\ \A q \in Requests :
       callback[q] = "set" /\ Done(q)
       => \E w \in Workers : worker[w] = "notify" /\ job[w] = q

\* How a request's stage, its future and its callback go together.
RequestInv ==
  \A q \in Requests :
    /\ future[q] = "none" <=> stage[q] \in {"new", "overloaded", "refused"}
    /\ callback[q] = "none" <=> stage[q] \notin {"waiting", "answered", "failed",
                                               "timeout"}
    /\ callback[q] = "called" => Done(q)
    /\ stage[q] = "timeout" => future[q] # "pending"

\* One request at a time is in the handler, none during shutdown, and a request
\* that has been submitted and not been counted still has its slot.
HandlerInv ==
  /\ \A q, r \in Requests : stage[q] \in InHandler /\ stage[r] \in InHandler => q = r
  /\ \A q \in Requests : stage[q] = "submitted" => inFlight < MaxInFlight
  /\ closer \in {"drain", "wake"} => \A q \in Requests : stage[q] \notin InHandler

InQueue(q) == \E i \in 1..Len(queue) : queue[i] = q

HeldBy(w, q) == worker[w] = "picked" /\ job[w] = q

\* A thread holds a request, and executes only what was started; the exit
\* sentinels come into the queue after draining.
HeldInv ==
  /\ \A w \in Workers :
       /\ worker[w] \in {"picked", "run", "notify"} => job[w] \in Requests
       /\ worker[w] = "run" => future[job[w]] \notin {"none", "pending"}
       /\ worker[w] = "notify" => Done(job[w])
  /\ closer \in {"open", "drain"} => queue \in Seq(Requests)

\* Nothing is lost between queue and threads; a drained queue stays empty.
ThreadInv ==
  \A q \in Requests :
    /\ future[q] = "running" => \E w \in Workers : worker[w] = "run" /\ job[w] = q
    /\ future[q] = "pending" => InQueue(q) \/ \E w \in Workers : HeldBy(w, q)
    /\ CancelFutures /\ closer \in {"wake", "closed"} => ~InQueue(q)

PoolInv == SlotsAccounted /\ RequestInv /\ HandlerInv /\ HeldInv /\ ThreadInv

\* A client is told "timeout" and its query is started afterwards: never.
ExpiredNeverStarts ==
  [][\A q \in Requests : stage[q] = "timeout" /\ future[q] # "running"
                         => future'[q] # "running"]_vars

\* After shutdown has returned and the threads are gone, no accepted query is
\* left undone.  A thread that found the queue empty reads the flag later, when
\* a query may have been queued behind its back.
NobodyStranded == /\ closer = "closed"
                  /\ \A w \in Workers : worker[w] = "exited"
                  => Undone = {}

\* An admitted query is started or cancelled even if every other query hangs.
NoneWaitsBehindStuck ==
  \A q \in Requests : future[q] = "pending" ~> future[q] # "pending"

\* Once queries end, as the clients below them have timeouts, a saturated pool
\* admits again, whether or not anybody still waits for the answers.
PoolRecovers == QueriesEnd => (Saturated ~> ~Saturated)
===============================================================================
