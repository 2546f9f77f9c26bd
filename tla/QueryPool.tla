------------------------------- MODULE QueryPool -------------------------------
(***************************************************************************)
(* The query endpoint of the API and the thread pool behind it (api.py:    *)
(* _execute_query and _DaemonQueryPool).  The event loop admits a query if *)
(* fewer than MaxInFlight are in flight, submits it, counts it and polls   *)
(* its future; worker threads execute it; a done callback gives the slot   *)
(* back.  A thread cannot be stopped: a query that timed out goes on, and  *)
(* only its end frees its slot.                                            *)
(*                                                                         *)
(* Endpoint and shutdown run in the event loop, so they do not overlap;    *)
(* threads interleave with every step of theirs.  The interpreter executes *)
(* the counter's += and -= without switching threads.                      *)
(***************************************************************************)
EXTENDS Integers, Sequences, FiniteSets

CONSTANTS Requests,
          Workers,        \* worker threads
          None,           \* the exit sentinel in the queue; no job
          MaxInFlight,    \* _POOL_MAX_WORKERS, the admission bound
          CancelFutures   \* the parameter of shutdown

ASSUME PoolAssumption ==
  /\ IsFiniteSet(Requests) /\ IsFiniteSet(Workers)
  /\ Workers # {}
  /\ None \notin Requests
  /\ MaxInFlight = Cardinality(Workers)
  /\ CancelFutures \in BOOLEAN

VARIABLES stage,      \* of a request: in the handler, or its response
          future,     \* state of its Future
          callback,   \* its done callback: registered, or already called
          inFlight,   \* _in_flight
          queue,      \* _queue
          worker,     \* where a thread is in _run
          job,        \* the request it holds
          closer,     \* where shutdown is; it sets _shutdown first
          sentinels   \* exit sentinels put so far

requests == <<stage, future, callback>>
threads  == <<worker, job>>
vars     == <<requests, inFlight, queue, threads, closer, sentinels>>

InHandler == {"submitted", "counted"}
Responses == {"answered", "failed", "timeout", "overloaded", "refused"}

TypeOK == /\ stage \in [Requests -> {"new", "waiting"} \cup InHandler \cup Responses]
          /\ future \in [Requests -> {"none", "pending", "running", "cancelled",
                                      "finished"}]
          /\ callback \in [Requests -> {"none", "set", "called"}]
          /\ inFlight \in 0..MaxInFlight
          /\ queue \in Seq(Requests \cup {None})
          /\ worker \in [Workers -> {"get", "expired", "picked", "run", "notify",
                                     "exited"}]
          /\ job \in [Workers -> Requests \cup {None}]
          /\ closer \in {"open", "drain", "wake", "closed"}
          /\ sentinels \in 0..Cardinality(Workers)

Init == /\ stage = [q \in Requests |-> "new"]
        /\ future = [q \in Requests |-> "none"]
        /\ callback = [q \in Requests |-> "none"]
        /\ inFlight = 0
        /\ queue = <<>>
        /\ worker = [w \in Workers |-> "get"]
        /\ job = [w \in Workers |-> None]
        /\ closer = "open"
        /\ sentinels = 0
-------------------------------------------------------------------------------
(* Future *)

Done(q) == future[q] \in {"cancelled", "finished"}

\* The done callback _release_slot, called once.
ReleaseSlot(q) == /\ callback' = [callback EXCEPT ![q] = "called"]
                  /\ inFlight' = inFlight - 1

CallBack(q) == IF callback[q] = "set" THEN ReleaseSlot(q)
               ELSE UNCHANGED <<callback, inFlight>>

\* cancel: takes effect only on a future that no thread has started.
Cancel(q) == IF future[q] = "pending"
             THEN future' = [future EXCEPT ![q] = "cancelled"] /\ CallBack(q)
             ELSE UNCHANGED <<future, callback, inFlight>>
-------------------------------------------------------------------------------
(* _execute_query *)

\* The event loop is not inside a handler or inside shutdown.
LoopFree == /\ \A q \in Requests : stage[q] \notin InHandler
            /\ closer \in {"open", "closed"}

Stage(q, s) == stage' = [stage EXCEPT ![q] = s]

\* With a mistake: one query too many.
SaturatedLate == inFlight > MaxInFlight

Saturated == inFlight >= MaxInFlight

Overload(q) == /\ LoopFree /\ stage[q] = "new" /\ Saturated
               /\ Stage(q, "overloaded")
               /\ UNCHANGED <<future, callback, inFlight, queue, threads, closer,
                              sentinels>>

\* submit raises after shutdown.
Refuse(q) == /\ LoopFree /\ stage[q] = "new" /\ ~Saturated
             /\ closer # "open"
             /\ Stage(q, "refused")
             /\ UNCHANGED <<future, callback, inFlight, queue, threads, closer,
                            sentinels>>

Submit(q) == /\ LoopFree /\ stage[q] = "new" /\ ~Saturated
             /\ closer = "open"
             /\ Stage(q, "submitted")
             /\ future' = [future EXCEPT ![q] = "pending"]
             /\ queue' = Append(queue, q)
             /\ UNCHANGED <<callback, inFlight, threads, closer, sentinels>>

Count(q) == /\ stage[q] = "submitted"
            /\ Stage(q, "counted")
            /\ inFlight' = inFlight + 1
            /\ UNCHANGED <<future, callback, queue, threads, closer, sentinels>>

\* With a mistake: a future that is done already never calls back.
WatchLate(q) == /\ stage[q] = "counted"
                /\ Stage(q, "waiting")
                /\ callback' = [callback EXCEPT ![q] = "set"]
                /\ UNCHANGED <<future, inFlight, queue, threads, closer, sentinels>>

\* add_done_callback: the query may be done by now.
Watch(q) == /\ stage[q] = "counted"
            /\ Stage(q, "waiting")
            /\ IF Done(q) THEN ReleaseSlot(q)
               ELSE /\ callback' = [callback EXCEPT ![q] = "set"]
                    /\ UNCHANGED inFlight
            /\ UNCHANGED <<future, queue, threads, closer, sentinels>>

\* The poll finds the future done.
Answer(q) == /\ LoopFree /\ stage[q] = "waiting" /\ Done(q)
             /\ Stage(q, IF future[q] = "finished" THEN "answered" ELSE "failed")
             /\ UNCHANGED <<future, callback, inFlight, queue, threads, closer,
                            sentinels>>

\* The poll finds it not done and the deadline reached; a thread may finish it
\* before the cancel.
Expire(q) == /\ LoopFree /\ stage[q] = "waiting" /\ future[q] # "cancelled"
             /\ Stage(q, "timeout")
             /\ Cancel(q)
             /\ UNCHANGED <<queue, threads, closer, sentinels>>
-------------------------------------------------------------------------------
(* _DaemonQueryPool._run *)

Goto(w, l) == worker' = [worker EXCEPT ![w] = l]

Take(w) == /\ worker[w] = "get"
           /\ queue # <<>>
           /\ queue' = Tail(queue)
           /\ job' = [job EXCEPT ![w] = Head(queue)]
           /\ Goto(w, IF Head(queue) = None THEN "exited" ELSE "picked")
           /\ UNCHANGED <<requests, inFlight, closer, sentinels>>

\* queue.get times out; the shutdown flag is read without the lock, later.
Idle(w) == /\ worker[w] = "get"
           /\ queue = <<>>
           /\ Goto(w, "expired")
           /\ UNCHANGED <<requests, inFlight, queue, job, closer, sentinels>>

Recheck(w) == /\ worker[w] = "expired"
              /\ Goto(w, IF closer = "open" THEN "get" ELSE "exited")
              /\ UNCHANGED <<requests, inFlight, queue, job, closer, sentinels>>

\* With a mistake: the outcome of set_running_or_notify_cancel is ignored.
StartAny(w) == /\ worker[w] = "picked"
               /\ future' = [future EXCEPT ![job[w]] = "running"]
               /\ Goto(w, "run")
               /\ UNCHANGED <<stage, callback, inFlight, queue, job, closer, sentinels>>

Start(w) == /\ worker[w] = "picked"
            /\ IF future[job[w]] = "pending"
               THEN /\ future' = [future EXCEPT ![job[w]] = "running"]
                    /\ Goto(w, "run")
                    /\ UNCHANGED job
               ELSE /\ Goto(w, "get")
                    /\ job' = [job EXCEPT ![w] = None]
                    /\ UNCHANGED future
            /\ UNCHANGED <<stage, callback, inFlight, queue, closer, sentinels>>

\* The query returns or raises: the future is finished, then it calls back.
Finish(w) == /\ worker[w] = "run"
             /\ future' = [future EXCEPT ![job[w]] = "finished"]
             /\ Goto(w, "notify")
             /\ UNCHANGED <<stage, callback, inFlight, queue, job, closer, sentinels>>

\* With a mistake: the slot is released only while the client still waits.
NotifyAwaited(w) == /\ worker[w] = "notify"
                    /\ IF stage[job[w]] = "timeout"
                       THEN UNCHANGED <<callback, inFlight>>
                       ELSE CallBack(job[w])
                    /\ Goto(w, "get")
                    /\ job' = [job EXCEPT ![w] = None]
                    /\ UNCHANGED <<stage, future, queue, closer, sentinels>>

Notify(w) == /\ worker[w] = "notify"
             /\ CallBack(job[w])
             /\ Goto(w, "get")
             /\ job' = [job EXCEPT ![w] = None]
             /\ UNCHANGED <<stage, future, queue, closer, sentinels>>
-------------------------------------------------------------------------------
(* shutdown, under the lock that submit takes *)

\* With a mistake: the queue is never drained.
CloseOnly == /\ LoopFree /\ closer = "open"
             /\ closer' = "wake"
             /\ UNCHANGED <<requests, inFlight, queue, threads, sentinels>>

Close == /\ LoopFree /\ closer = "open"
         /\ closer' = IF CancelFutures THEN "drain" ELSE "wake"
         /\ UNCHANGED <<requests, inFlight, queue, threads, sentinels>>

Drain == /\ closer = "drain"
         /\ IF queue = <<>>
            THEN closer' = "wake" /\ UNCHANGED <<queue, future, callback, inFlight>>
            ELSE /\ queue' = Tail(queue)
                 /\ Cancel(Head(queue))
                 /\ UNCHANGED closer
         /\ UNCHANGED <<stage, threads, sentinels>>

Wake == /\ closer = "wake"
        /\ IF sentinels = Cardinality(Workers)
           THEN closer' = "closed" /\ UNCHANGED <<queue, sentinels>>
           ELSE /\ queue' = Append(queue, None)
                /\ sentinels' = sentinels + 1
                /\ UNCHANGED closer
        /\ UNCHANGED <<requests, inFlight, threads>>
-------------------------------------------------------------------------------
Handle(q) == Count(q) \/ Watch(q)

Serve(w) == Take(w) \/ Idle(w) \/ Recheck(w) \/ Start(w) \/ Notify(w)

Next == \/ \E q \in Requests : \/ Overload(q) \/ Refuse(q) \/ Submit(q)
                               \/ Handle(q) \/ Answer(q) \/ Expire(q)
        \/ \E w \in Workers : Serve(w) \/ Finish(w)
        \/ Close \/ Drain \/ Wake

Spec == Init /\ [][Next]_vars

\* Threads are scheduled and the event loop keeps running; a query that a
\* thread executes may hang.
FairSpec == /\ Spec
            /\ \A q \in Requests : WF_vars(Handle(q))
            /\ \A w \in Workers : WF_vars(Serve(w))
            /\ WF_vars(Drain \/ Wake)

\* What the timeouts of the clients below a query are for.
QueriesEnd == \A w \in Workers : WF_vars(Finish(w))
===============================================================================
