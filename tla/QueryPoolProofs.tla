---------------------------- MODULE QueryPoolProofs ----------------------------
(***************************************************************************)
(* Proofs for QueryPool, for any number of requests and threads.           *)
(***************************************************************************)
EXTENDS QueryPoolProps, FiniteSetTheorems, TLAPS

\* The part of the invariant that counts slots.
CountInv == SlotsAccounted /\ RequestInv /\ HandlerInv /\ HeldInv

\* A request enters Holding or leaves it: the count follows.
LEMMA HoldingIsFinite == IsFiniteSet(Holding) /\ Cardinality(Holding) \in Nat
BY PoolAssumption, FS_Subset, FS_CardinalityType DEF Holding

\* A request that takes a slot is one more that holds one.
LEMMA HoldingGrows ==
  ASSUME NEW q, q \notin Holding, Holding' = Holding \cup {q}
  PROVE  Cardinality(Holding') = Cardinality(Holding) + 1
BY HoldingIsFinite, FS_AddElement

\* A request that gives its slot back is one fewer.
LEMMA HoldingShrinks ==
  ASSUME NEW q, q \in Holding, Holding' = Holding \ {q}
  PROVE  Cardinality(Holding') = Cardinality(Holding) - 1
BY HoldingIsFinite, FS_RemoveElement

\* The slot of a request that holds one is given back once.
LEMMA Releasing ==
  ASSUME TypeOK, CountInv, NEW q \in Requests,
         stage[q] \in {"counted", "waiting", "answered", "failed", "timeout"},
         callback[q] # "called",
         ReleaseSlot(q),
         \A r \in Requests :
           stage'[r] = stage[r]
           \/ (r = q /\ stage'[r] \in {"waiting", "answered", "failed", "timeout"})
  PROVE  /\ inFlight' = Cardinality(Holding')
         /\ inFlight' \in 0..MaxInFlight
         /\ inFlight' < inFlight
<1>1. q \in Holding /\ Holding' = Holding \ {q}
  BY DEF Holding, ReleaseSlot, TypeOK
<1>2. inFlight' = inFlight - 1 /\ inFlight = Cardinality(Holding)
  BY DEF ReleaseSlot, CountInv, SlotsAccounted
<1>3. Cardinality(Holding') = Cardinality(Holding) - 1
  BY <1>1, HoldingShrinks
<1>4. Cardinality(Holding') \in Nat
  BY <1>1, HoldingIsFinite, FS_RemoveElement, FS_CardinalityType
<1>5. inFlight \in 0..MaxInFlight /\ MaxInFlight \in Nat
  BY PoolAssumption, FS_CardinalityType DEF TypeOK
<1> QED
  BY <1>2, <1>3, <1>4, <1>5

\* A step that moves no request and calls no callback counts nothing.
LEMMA HoldingStays ==
  ASSUME CountInv, UNCHANGED <<callback, inFlight>>,
         {q \in Requests : stage'[q] \notin {"new", "submitted", "overloaded", "refused"}}
         = {q \in Requests : stage[q] \notin {"new", "submitted", "overloaded", "refused"}}
  PROVE  inFlight' = Cardinality(Holding')
<1>1. Holding' = Holding
  BY DEF Holding
<1> QED
  BY <1>1 DEF CountInv, SlotsAccounted

\* Cancelling a request that has been counted.
LEMMA Cancelling ==
  ASSUME TypeOK, CountInv, NEW q \in Requests, Cancel(q),
         stage[q] \notin InHandler,
         \A r \in Requests : stage'[r] = stage[r]
                             \/ (r = q /\ stage[q] = "waiting" /\ stage'[r] = "timeout")
  PROVE  /\ inFlight' = Cardinality(Holding')
         /\ inFlight' \in 0..MaxInFlight
         /\ inFlight' <= inFlight
<1>1. CASE future[q] = "pending"
  <2>1. callback[q] = "set" /\ ReleaseSlot(q)
    BY <1>1 DEF Cancel, CallBack, CountInv, RequestInv, Done, TypeOK, InHandler,
                Responses
  <2>2. stage[q] \in {"waiting", "answered", "failed", "timeout"}
    BY <1>1 DEF CountInv, RequestInv, TypeOK, InHandler, Responses
  <2> QED
    BY <2>1, <2>2, Releasing, PoolAssumption, FS_CardinalityType DEF TypeOK
<1>2. CASE future[q] # "pending"
  <2>1. UNCHANGED <<callback, inFlight>>
    BY <1>2 DEF Cancel
  <2>2. inFlight' = Cardinality(Holding')
    BY <2>1, HoldingStays
  <2> QED
    BY <2>1, <2>2, PoolAssumption, FS_CardinalityType DEF TypeOK
<1> QED
  BY <1>1, <1>2

\* Whatever requests, threads and shutdown do, every variable keeps its type and the
\* admission counter stays between none and all of the slots.
THEOREM PoolCounting == Spec => [](TypeOK /\ CountInv)
<1> USE PoolAssumption
<1>0. MaxInFlight \in Nat /\ MaxInFlight > 0
  <2>1. MaxInFlight \in Nat
    BY FS_CardinalityType
  <2>2. MaxInFlight # 0
    BY FS_EmptySet
  <2> QED
    BY <2>1, <2>2
<1>1. Init => TypeOK /\ CountInv
  <2> SUFFICES ASSUME Init PROVE TypeOK /\ CountInv
    OBVIOUS
  <2> USE DEF Init
  <2>1. TypeOK
    BY <1>0 DEF TypeOK
  <2>2. Holding = {}
    BY DEF Holding
  <2>3. SlotsAccounted
    BY <2>2, FS_EmptySet DEF SlotsAccounted
  <2>4. RequestInv /\ HandlerInv /\ HeldInv
    BY DEF RequestInv, HandlerInv, HeldInv, Done, InHandler
  <2> QED
    BY <2>1, <2>3, <2>4 DEF CountInv
<1>2. TypeOK /\ CountInv /\ [Next]_vars => (TypeOK /\ CountInv)'
  <2> SUFFICES ASSUME TypeOK, CountInv, [Next]_vars
               PROVE  TypeOK' /\ CountInv'
    OBVIOUS
  <2> USE <1>0 DEF requests, threads, InHandler, Responses, Done
  <2>1. ASSUME NEW q \in Requests, Overload(q) \/ Refuse(q) PROVE TypeOK' /\ CountInv'
    <3>1. /\ stage[q] = "new"
          /\ \E s \in {"overloaded", "refused"} : stage' = [stage EXCEPT ![q] = s]
          /\ UNCHANGED <<future, callback, inFlight, queue, worker, job, closer,
                         sentinels>>
      BY <2>1 DEF Overload, Refuse, Stage
    <3>2. inFlight' = Cardinality(Holding')
      BY <3>1, HoldingStays DEF TypeOK
    <3>3. TypeOK'
      BY <3>1 DEF TypeOK
    <3>4. RequestInv' /\ HandlerInv' /\ HeldInv'
      BY <3>1 DEF RequestInv, HandlerInv, HeldInv, CountInv, TypeOK
    <3>5. SlotsAccounted'
      BY <3>1, <3>2 DEF SlotsAccounted, CountInv
    <3> QED
      BY <3>3, <3>4, <3>5 DEF CountInv
  <2>2. ASSUME NEW q \in Requests, Submit(q) PROVE TypeOK' /\ CountInv'
    <3> USE <2>2 DEF Submit, Stage, LoopFree, Saturated
    <3>1. TypeOK'
      BY DEF TypeOK
    <3>2. inFlight' = Cardinality(Holding')
      BY HoldingStays DEF TypeOK
    <3>3. RequestInv' /\ HandlerInv'
      BY DEF RequestInv, HandlerInv, CountInv, TypeOK
    <3>4. HeldInv'
      <4>1. queue \in Seq(Requests) /\ queue' \in Seq(Requests)
        BY DEF HeldInv, CountInv
      <4>2. future[q] = "none"
        BY DEF RequestInv, CountInv
      <4> QED
        BY <4>1, <4>2 DEF HeldInv, CountInv, TypeOK
    <3>5. SlotsAccounted'
      BY <3>2 DEF SlotsAccounted, CountInv, TypeOK
    <3> QED
      BY <3>1, <3>3, <3>4, <3>5 DEF CountInv
  <2>3. ASSUME NEW q \in Requests, Count(q) PROVE TypeOK' /\ CountInv'
    <3> USE <2>3 DEF Count, Stage
    <3>1. q \notin Holding /\ Holding' = Holding \cup {q}
      BY DEF Holding, CountInv, RequestInv, TypeOK
    <3>2. inFlight' = Cardinality(Holding')
      BY <3>1, HoldingGrows DEF CountInv, SlotsAccounted
    <3>3. TypeOK'
      BY DEF TypeOK, CountInv, HandlerInv
    <3>4. RequestInv' /\ HandlerInv' /\ HeldInv'
      BY DEF RequestInv, HandlerInv, HeldInv, CountInv, TypeOK
    <3>5. SlotsAccounted'
      BY <3>2 DEF SlotsAccounted, CountInv
    <3> QED
      BY <3>3, <3>4, <3>5 DEF CountInv
  <2>4. ASSUME NEW q \in Requests, Watch(q) PROVE TypeOK' /\ CountInv'
    <3>1. CASE Done(q)
      <4>1. ReleaseSlot(q)
        BY <2>4, <3>1 DEF Watch
      <4>2. callback[q] # "called"
        BY <2>4 DEF Watch, CountInv, RequestInv, TypeOK
      <4>3. /\ inFlight' = Cardinality(Holding')
            /\ inFlight' \in 0..MaxInFlight
            /\ inFlight' < inFlight
        <5>1. /\ stage[q] = "counted"
              /\ \A r \in Requests : stage'[r] = stage[r] \/ (r = q /\ stage'[r] = "waiting")
          BY <2>4 DEF Watch, Stage, TypeOK
        <5> QED
          BY <4>1, <4>2, <5>1, Releasing
      <4>4. TypeOK'
        BY <2>4, <4>1, <4>3 DEF Watch, Stage, ReleaseSlot, TypeOK
      <4>5. RequestInv' /\ HandlerInv' /\ HeldInv'
        BY <2>4, <3>1, <4>1, <4>3
        DEF Watch, Stage, ReleaseSlot, RequestInv, HandlerInv, HeldInv, CountInv, TypeOK
      <4>6. SlotsAccounted'
        BY <2>4, <4>1, <4>3
        DEF Watch, ReleaseSlot, SlotsAccounted, CountInv, TypeOK
      <4> QED
        BY <4>4, <4>5, <4>6 DEF CountInv
    <3>2. CASE ~Done(q)
      <4> USE <2>4, <3>2 DEF Watch, Stage
      <4>1. TypeOK'
        BY DEF TypeOK
      <4>2. Holding' = Holding
        BY DEF Holding, CountInv, RequestInv, TypeOK
      <4>3. SlotsAccounted'
        BY <4>2 DEF SlotsAccounted, CountInv, TypeOK
      <4>4. RequestInv' /\ HandlerInv' /\ HeldInv'
        BY DEF RequestInv, HandlerInv, HeldInv, CountInv, TypeOK
      <4> QED
        BY <4>1, <4>3, <4>4 DEF CountInv
    <3> QED
      BY <3>1, <3>2
  <2>5. ASSUME NEW q \in Requests, Answer(q) PROVE TypeOK' /\ CountInv'
    <3> USE <2>5 DEF Answer, Stage
    <3>1. TypeOK'
      BY DEF TypeOK
    <3>2. inFlight' = Cardinality(Holding')
      BY HoldingStays DEF TypeOK
    <3>3. RequestInv' /\ HandlerInv' /\ HeldInv'
      BY DEF RequestInv, HandlerInv, HeldInv, CountInv, TypeOK
    <3>4. SlotsAccounted'
      BY <3>2 DEF SlotsAccounted, CountInv
    <3> QED
      BY <3>1, <3>3, <3>4 DEF CountInv
  <2>6. ASSUME NEW q \in Requests, Expire(q) PROVE TypeOK' /\ CountInv'
    <3> USE <2>6 DEF Expire, Stage
    <3>1. /\ inFlight' = Cardinality(Holding')
          /\ inFlight' \in 0..MaxInFlight
          /\ inFlight' <= inFlight
      <4>1. /\ stage[q] = "waiting"
            /\ \A r \in Requests : stage'[r] = stage[r] \/ (r = q /\ stage'[r] = "timeout")
        BY DEF TypeOK
      <4>2. Cancel(q) /\ stage[q] \notin InHandler
        BY <4>1
      <4> QED
        BY <4>1, <4>2, Cancelling
    <3>2. \/ /\ future[q] = "pending"
             /\ future' = [future EXCEPT ![q] = "cancelled"]
             /\ callback' = [callback EXCEPT ![q] = "called"]
          \/ /\ future[q] # "pending"
             /\ UNCHANGED <<future, callback>>
      BY DEF Cancel, CallBack, ReleaseSlot, CountInv, RequestInv, TypeOK
    <3>3. TypeOK'
      BY <3>1, <3>2 DEF TypeOK
    <3>4. RequestInv' /\ HeldInv'
      BY <3>2 DEF RequestInv, HeldInv, CountInv, TypeOK
    <3>5. HandlerInv'
      BY <3>1 DEF HandlerInv, CountInv, TypeOK, LoopFree
    <3>6. SlotsAccounted'
      BY <3>1, <3>2 DEF SlotsAccounted, CountInv, TypeOK
    <3> QED
      BY <3>3, <3>4, <3>5, <3>6 DEF CountInv
  <2>7. ASSUME NEW w \in Workers, Take(w) PROVE TypeOK' /\ CountInv'
    <3> USE <2>7 DEF Take, Goto
    <3>1. Head(queue) \in Requests \cup {None} /\ queue' \in Seq(Requests \cup {None})
      BY DEF TypeOK
    <3>2. TypeOK'
      BY <3>1 DEF TypeOK
    <3>3. inFlight' = Cardinality(Holding')
      BY HoldingStays
    <3>4. RequestInv' /\ HandlerInv'
      BY DEF RequestInv, HandlerInv, CountInv
    <3>5. HeldInv'
      BY <3>1 DEF HeldInv, CountInv, TypeOK
    <3>6. SlotsAccounted'
      BY <3>3 DEF SlotsAccounted, CountInv, TypeOK
    <3> QED
      BY <3>2, <3>4, <3>5, <3>6 DEF CountInv
  <2>8. ASSUME NEW w \in Workers, Idle(w) \/ Recheck(w) PROVE TypeOK' /\ CountInv'
    <3> USE <2>8 DEF Idle, Recheck, Goto
    <3>1. TypeOK'
      BY DEF TypeOK
    <3>2. inFlight' = Cardinality(Holding')
      BY HoldingStays
    <3>3. RequestInv' /\ HandlerInv'
      BY DEF RequestInv, HandlerInv, CountInv
    <3>4. HeldInv'
      BY DEF HeldInv, CountInv, TypeOK
    <3>5. SlotsAccounted'
      BY <3>2 DEF SlotsAccounted, CountInv, TypeOK
    <3> QED
      BY <3>1, <3>3, <3>4, <3>5 DEF CountInv
  <2>9. ASSUME NEW w \in Workers, Start(w) PROVE TypeOK' /\ CountInv'
    <3> USE <2>9 DEF Start, Goto
    <3>1. job[w] \in Requests
      BY DEF CountInv, HeldInv
    <3>2. TypeOK'
      BY <3>1 DEF TypeOK
    <3>3. inFlight' = Cardinality(Holding')
      BY HoldingStays
    <3>4. RequestInv' /\ HandlerInv'
      BY <3>1 DEF RequestInv, HandlerInv, CountInv, TypeOK
    <3>5. HeldInv'
      BY <3>1 DEF HeldInv, CountInv, TypeOK
    <3>6. SlotsAccounted'
      BY <3>1, <3>3 DEF SlotsAccounted, CountInv, TypeOK
    <3> QED
      BY <3>2, <3>4, <3>5, <3>6 DEF CountInv
  <2>10. ASSUME NEW w \in Workers, Finish(w) PROVE TypeOK' /\ CountInv'
    <3> USE <2>10 DEF Finish, Goto
    <3>1. job[w] \in Requests /\ future[job[w]] \notin {"none", "pending"}
      BY DEF CountInv, HeldInv
    <3>2. TypeOK'
      BY <3>1 DEF TypeOK
    <3>3. inFlight' = Cardinality(Holding')
      BY HoldingStays
    <3>4. RequestInv' /\ HandlerInv'
      BY <3>1 DEF RequestInv, HandlerInv, CountInv, TypeOK
    <3>5. HeldInv'
      BY <3>1 DEF HeldInv, CountInv, TypeOK
    <3>6. SlotsAccounted'
      BY <3>1, <3>3 DEF SlotsAccounted, CountInv, TypeOK
    <3> QED
      BY <3>2, <3>4, <3>5, <3>6 DEF CountInv
  <2>11. ASSUME NEW w \in Workers, Notify(w) PROVE TypeOK' /\ CountInv'
    <3> DEFINE q == job[w]
    <3> USE <2>11 DEF Notify, Goto
    <3>1. q \in Requests
      BY DEF CountInv, HeldInv
    <3>2. CASE callback[q] = "set"
      <4>1. ReleaseSlot(q)
        BY <3>2 DEF CallBack
      <4>2. stage[q] \in {"waiting", "answered", "failed", "timeout"}
        BY <3>1, <3>2 DEF CountInv, RequestInv, TypeOK
      <4>3. /\ inFlight' = Cardinality(Holding')
            /\ inFlight' \in 0..MaxInFlight
            /\ inFlight' < inFlight
        <5>1. \A r \in Requests : stage'[r] = stage[r]
          OBVIOUS
        <5>2. callback[q] # "called"
          BY <3>2
        <5> QED
          BY <3>1, <4>1, <4>2, <5>1, <5>2, Releasing
      <4>4. TypeOK'
        BY <3>1, <4>1, <4>3 DEF ReleaseSlot, TypeOK
      <4>5. Done(q)
        BY <3>1, <3>2 DEF CountInv, HeldInv
      <4>6. RequestInv' /\ HandlerInv' /\ HeldInv'
        BY <3>1, <4>1, <4>2, <4>3, <4>5
        DEF ReleaseSlot, RequestInv, HandlerInv, HeldInv, CountInv, TypeOK
      <4>7. SlotsAccounted'
        BY <3>1, <4>1, <4>3 DEF ReleaseSlot, SlotsAccounted, CountInv, TypeOK
      <4> QED
        BY <4>4, <4>6, <4>7 DEF CountInv
    <3>3. CASE callback[q] # "set"
      <4>1. UNCHANGED <<callback, inFlight>>
        BY <3>3 DEF CallBack
      <4>2. inFlight' = Cardinality(Holding')
        BY <4>1, HoldingStays
      <4>3. TypeOK'
        BY <4>1 DEF TypeOK
      <4>4. RequestInv' /\ HandlerInv' /\ HeldInv'
        BY <4>1 DEF RequestInv, HandlerInv, HeldInv, CountInv, TypeOK
      <4>5. SlotsAccounted'
        BY <3>3, <4>1, <4>2 DEF SlotsAccounted, CountInv, TypeOK
      <4> QED
        BY <4>3, <4>4, <4>5 DEF CountInv
    <3> QED
      BY <3>2, <3>3
  <2>12. ASSUME Close PROVE TypeOK' /\ CountInv'
    <3> USE <2>12 DEF Close, LoopFree
    <3>1. TypeOK'
      BY DEF TypeOK
    <3>2. inFlight' = Cardinality(Holding')
      BY HoldingStays
    <3>3. RequestInv' /\ HandlerInv' /\ HeldInv'
      BY DEF RequestInv, HandlerInv, HeldInv, CountInv
    <3>4. SlotsAccounted'
      BY <3>2 DEF SlotsAccounted, CountInv
    <3> QED
      BY <3>1, <3>3, <3>4 DEF CountInv
  <2>13. ASSUME Drain PROVE TypeOK' /\ CountInv'
    <3>1. CASE queue = <<>>
      <4> USE <2>13, <3>1 DEF Drain
      <4>1. TypeOK'
        BY DEF TypeOK
      <4>2. inFlight' = Cardinality(Holding')
        BY HoldingStays
      <4>3. RequestInv' /\ HandlerInv' /\ HeldInv'
        BY DEF RequestInv, HandlerInv, HeldInv, CountInv
      <4>4. SlotsAccounted'
        BY <4>2 DEF SlotsAccounted, CountInv
      <4> QED
        BY <4>1, <4>3, <4>4 DEF CountInv
    <3>2. CASE queue # <<>>
      <4> DEFINE q == Head(queue)
      <4>1. /\ closer = "drain"
            /\ queue' = Tail(queue)
            /\ Cancel(q)
            /\ UNCHANGED <<closer, stage, worker, job, sentinels>>
        BY <2>13, <3>2 DEF Drain
      <4>2. queue \in Seq(Requests)
        BY <4>1 DEF CountInv, HeldInv
      <4>3. q \in Requests /\ queue' \in Seq(Requests)
        BY <3>2, <4>1, <4>2
      <4>4. queue' \in Seq(Requests \cup {None})
        BY <3>2, <4>1 DEF TypeOK
      <4> HIDE DEF q
      <4>5. stage[q] \notin InHandler
        BY <4>1, <4>3 DEF CountInv, HandlerInv
      <4>6. /\ inFlight' = Cardinality(Holding')
            /\ inFlight' \in 0..MaxInFlight
            /\ inFlight' <= inFlight
        <5>1. \A r \in Requests : stage'[r] = stage[r]
          BY <4>1
        <5> QED
          BY <4>1, <4>3, <4>5, <5>1, Cancelling
      <4>7. \/ /\ future[q] = "pending"
               /\ future' = [future EXCEPT ![q] = "cancelled"]
               /\ callback' = [callback EXCEPT ![q] = "called"]
            \/ /\ future[q] # "pending"
               /\ UNCHANGED <<future, callback>>
        BY <4>1, <4>3, <4>5
        DEF Cancel, CallBack, ReleaseSlot, CountInv, RequestInv, TypeOK
      <4>8. TypeOK'
        BY <4>1, <4>3, <4>4, <4>6, <4>7 DEF TypeOK
      <4>9. RequestInv'
        BY <4>1, <4>3, <4>5, <4>7 DEF RequestInv, CountInv, TypeOK
      <4>10. HandlerInv'
        BY <4>1, <4>6 DEF HandlerInv, CountInv, TypeOK
      <4>11. HeldInv'
        BY <4>1, <4>3, <4>7 DEF HeldInv, CountInv, TypeOK
      <4>12. SlotsAccounted'
        BY <4>1, <4>3, <4>6, <4>7 DEF SlotsAccounted, CountInv, TypeOK
      <4> QED
        BY <4>8, <4>9, <4>10, <4>11, <4>12 DEF CountInv
    <3> QED
      BY <3>1, <3>2
  <2>14. ASSUME Wake PROVE TypeOK' /\ CountInv'
    <3> USE <2>14 DEF Wake
    <3>1. Cardinality(Workers) \in Nat
      BY FS_CardinalityType
    <3>2. TypeOK'
      <4>1. queue' = queue \/ queue' = Append(queue, None)
        OBVIOUS
      <4>2. queue' \in Seq(Requests \cup {None})
        <5> DEFINE Entries == Requests \cup {None}
        <5>1. None \in Entries /\ queue \in Seq(Entries)
          BY DEF TypeOK
        <5> HIDE DEF Entries
        <5>2. queue' \in Seq(Entries)
          BY <4>1, <5>1
        <5> QED
          BY <5>2 DEF Entries
      <4>3. sentinels' \in 0..Cardinality(Workers) /\ closer' \in {"wake", "closed"}
        BY <3>1 DEF TypeOK
      <4> QED
        BY <4>2, <4>3 DEF TypeOK
    <3>3. inFlight' = Cardinality(Holding')
      BY HoldingStays
    <3>4. RequestInv' /\ HandlerInv' /\ HeldInv'
      BY DEF RequestInv, HandlerInv, HeldInv, CountInv
    <3>5. SlotsAccounted'
      BY <3>3 DEF SlotsAccounted, CountInv
    <3> QED
      BY <3>2, <3>4, <3>5 DEF CountInv
  <2>15. CASE UNCHANGED vars
    <3> USE <2>15 DEF vars
    <3>1. TypeOK'
      BY DEF TypeOK
    <3>2. inFlight' = Cardinality(Holding')
      BY HoldingStays
    <3>3. RequestInv' /\ HandlerInv' /\ HeldInv'
      BY DEF RequestInv, HandlerInv, HeldInv, CountInv
    <3>4. SlotsAccounted'
      BY <3>2 DEF SlotsAccounted, CountInv
    <3> QED
      BY <3>1, <3>3, <3>4 DEF CountInv
  <2> QED
    BY <2>1, <2>2, <2>3, <2>4, <2>5, <2>6, <2>7, <2>8, <2>9, <2>10, <2>11, <2>12,
       <2>13, <2>14, <2>15
    DEF Next, Handle, Serve
<1> QED
  BY <1>1, <1>2, PTL DEF Spec

\* Slots are neither lost nor given back twice, whether or not shutdown drains
\* the queue.
THEOREM SlotsAreKept == Spec => []SlotsAccounted
<1>1. CountInv => SlotsAccounted
  BY DEF CountInv
<1> QED
  BY <1>1, PoolCounting, PTL

\* Every undone request holds a slot, but for the one that has been submitted
\* and not yet counted, for which a slot is free.
THEOREM PoolIsBounded == Spec => []UndoneBounded
<1> USE PoolAssumption
<1>1. TypeOK /\ CountInv => UndoneBounded
  <2> SUFFICES ASSUME TypeOK, CountInv PROVE Cardinality(Undone) <= MaxInFlight
    BY DEF UndoneBounded
  <2>1. /\ inFlight = Cardinality(Holding)
        /\ inFlight \in 0..MaxInFlight
        /\ MaxInFlight \in Nat
    BY FS_CardinalityType DEF CountInv, SlotsAccounted, TypeOK
  <2>2. \A q \in Undone : q \in Holding \/ stage[q] = "submitted"
    BY DEF Undone, Holding, CountInv, RequestInv, Done
  <2>3. CASE \E q \in Requests : stage[q] = "submitted"
    <3>1. PICK q \in Requests : stage[q] = "submitted"
      BY <2>3
    <3>2. inFlight < MaxInFlight
      BY <3>1 DEF CountInv, HandlerInv
    <3>3. Undone \subseteq Holding \cup {q}
      BY <2>2, <3>1 DEF CountInv, HandlerInv, InHandler, Undone
    <3>4. /\ IsFiniteSet(Holding \cup {q})
          /\ Cardinality(Holding \cup {q}) <= Cardinality(Holding) + 1
      <4>1. IsFiniteSet(Holding) /\ Cardinality(Holding) \in Nat
        BY HoldingIsFinite
      <4>2. /\ IsFiniteSet(Holding \cup {q})
            /\ \/ Cardinality(Holding \cup {q}) = Cardinality(Holding)
               \/ Cardinality(Holding \cup {q}) = Cardinality(Holding) + 1
        BY <4>1, FS_AddElement
      <4> QED
        BY <4>1, <4>2
    <3>5. Cardinality(Undone) <= Cardinality(Holding \cup {q})
      BY <3>3, <3>4, FS_Subset
    <3>6. IsFiniteSet(Undone) /\ Cardinality(Undone) \in Nat
      BY <3>3, <3>4, FS_Subset, FS_CardinalityType
    <3>7. Cardinality(Holding \cup {q}) \in Nat
      BY <3>4, FS_CardinalityType
    <3> QED
      BY <2>1, <3>2, <3>4, <3>5, <3>6, <3>7
  <2>4. CASE \A q \in Requests : stage[q] # "submitted"
    <3>1. Undone \subseteq Holding
      BY <2>2, <2>4 DEF Undone
    <3>2. IsFiniteSet(Undone) /\ Cardinality(Undone) <= Cardinality(Holding)
      BY <3>1, HoldingIsFinite, FS_Subset
    <3> QED
      BY <2>1, <3>2, FS_CardinalityType
  <2> QED
    BY <2>3, <2>4
<1> QED
  BY <1>1, PoolCounting, PTL

\* A timed-out request is not pending, and only a pending one is started.
THEOREM NoLateStart == Spec => ExpiredNeverStarts
<1> DEFINE NotStarted == \A q \in Requests : stage[q] = "timeout" /\ future[q] # "running"
                                             => future'[q] # "running"
<1>1. TypeOK /\ CountInv /\ [Next]_vars => [NotStarted]_vars
  <2> SUFFICES ASSUME TypeOK, CountInv, Next,
                      NEW q \in Requests, stage[q] = "timeout", future[q] # "running"
               PROVE  future'[q] # "running"
    OBVIOUS
  <2> USE DEF requests, threads
  <2>1. future[q] # "pending"
    BY DEF CountInv, RequestInv
  <2>2. ASSUME NEW r \in Requests, Handle(r) \/ Overload(r) \/ Refuse(r) \/ Answer(r)
        PROVE  future'[q] # "running"
    BY <2>2 DEF Handle, Count, Watch, Overload, Refuse, Answer
  <2>3. ASSUME NEW r \in Requests, Submit(r) PROVE future'[q] # "running"
    BY <2>3 DEF Submit, TypeOK
  <2>4. ASSUME NEW r \in Requests, Expire(r) PROVE future'[q] # "running"
    BY <2>4 DEF Expire, Cancel, TypeOK
  <2>5. ASSUME NEW w \in Workers, Serve(w) PROVE future'[q] # "running"
    BY <2>1, <2>5 DEF Serve, Take, Idle, Recheck, Start, Notify, TypeOK
  <2>6. ASSUME NEW w \in Workers, Finish(w) PROVE future'[q] # "running"
    BY <2>6 DEF Finish, TypeOK
  <2>7. CASE Close \/ Drain \/ Wake
    BY <2>7 DEF Close, Drain, Wake, Cancel, TypeOK
  <2> QED
    BY <2>2, <2>3, <2>4, <2>5, <2>6, <2>7 DEF Next
<1>2. Spec => [](TypeOK /\ CountInv)
  BY PoolCounting
<1> QED
  BY <1>1, <1>2, PTL DEF Spec, ExpiredNeverStarts

\* Where queries are, when shutdown cancels what is queued.
THEOREM PoolKeepsTrack ==
  ASSUME CancelFutures
  PROVE  Spec => [](TypeOK /\ PoolInv)
<1>1. Init => ThreadInv
  BY DEF Init, ThreadInv
<1>2. TypeOK /\ CountInv /\ ThreadInv /\ [Next]_vars => ThreadInv'
  <2> SUFFICES ASSUME TypeOK, CountInv, ThreadInv, [Next]_vars, NEW r \in Requests
               PROVE  /\ future'[r] = "running"
                         => \E w \in Workers : worker'[w] = "run" /\ job'[w] = r
                      /\ future'[r] = "pending"
                         => InQueue(r)' \/ \E w \in Workers : HeldBy(w, r)'
                      /\ closer' \in {"wake", "closed"} => ~InQueue(r)'
    BY DEF ThreadInv
  <2> DEFINE Tracked ==
        /\ future[r] = "running" => \E w \in Workers : worker[w] = "run" /\ job[w] = r
        /\ future[r] = "pending" => InQueue(r) \/ \E w \in Workers : HeldBy(w, r)
        /\ closer \in {"wake", "closed"} => ~InQueue(r)
  <2>0. Tracked
    BY DEF ThreadInv
  <2> SUFFICES Tracked'
    OBVIOUS
  <2> USE DEF requests, threads
  <2>1. ASSUME UNCHANGED <<queue, worker, job>>, r \in Requests,
               closer' = closer \/ closer' \notin {"wake", "closed"},
               future'[r] = future[r] \/ future'[r] \notin {"pending", "running"}
        PROVE  Tracked'
    BY <2>0, <2>1 DEF InQueue, HeldBy
  <2>2. ASSUME NEW q \in Requests, Handle(q) \/ Overload(q) \/ Refuse(q) \/ Answer(q)
        PROVE  Tracked'
    BY <2>1, <2>2 DEF Handle, Count, Watch, Overload, Refuse, Answer
  <2>3. ASSUME NEW q \in Requests, Expire(q) PROVE Tracked'
    BY <2>1, <2>3 DEF Expire, Cancel, TypeOK
  <2>4. ASSUME NEW q \in Requests, Submit(q) PROVE Tracked'
    <3> USE <2>4 DEF Submit
    <3>1. Len(queue') = Len(queue) + 1 /\ queue'[Len(queue) + 1] = q
      BY DEF TypeOK
    <3>2. \A i \in 1..Len(queue) : queue'[i] = queue[i]
      BY DEF TypeOK
    <3>3. Len(queue) \in Nat
      BY DEF TypeOK
    <3>4. InQueue(q)' /\ (InQueue(r) => InQueue(r)')
      BY <3>1, <3>2, <3>3 DEF InQueue
    <3> QED
      BY <2>0, <3>4 DEF HeldBy, TypeOK
  <2>5. ASSUME NEW w \in Workers, Take(w) PROVE Tracked'
    <3> USE <2>5 DEF Take, Goto
    <3>1. Len(queue) \in Nat \ {0} /\ Len(queue') = Len(queue) - 1 /\ Head(queue) = queue[1]
      BY DEF TypeOK
    <3>2. \A i \in 1..Len(queue') : queue'[i] = queue[i + 1]
      BY DEF TypeOK
    <3>3. InQueue(r)' => InQueue(r)
      BY <3>1, <3>2 DEF InQueue
    <3>4. InQueue(r) => InQueue(r)' \/ Head(queue) = r
      <4> SUFFICES ASSUME NEW i \in 1..Len(queue), queue[i] = r, i # 1
                   PROVE  InQueue(r)'
        BY <3>1 DEF InQueue
      <4>1. i - 1 \in 1..Len(queue') /\ queue'[i - 1] = queue[i]
        BY <3>1, <3>2
      <4> QED
        BY <4>1 DEF InQueue
    <3>5. Head(queue) = r => HeldBy(w, r)'
      BY PoolAssumption DEF HeldBy, TypeOK
    <3>6. \A v \in Workers : HeldBy(v, r) => HeldBy(v, r)'
      BY DEF HeldBy, TypeOK
    <3>7. future[r] = "running" => \E v \in Workers : worker'[v] = "run" /\ job'[v] = r
      BY <2>0 DEF TypeOK
    <3> QED
      BY <2>0, <3>3, <3>4, <3>5, <3>6, <3>7
  <2>6. ASSUME NEW w \in Workers, Idle(w) \/ Recheck(w) PROVE Tracked'
    BY <2>0, <2>6 DEF Idle, Recheck, Goto, InQueue, HeldBy, TypeOK
  <2>7. ASSUME NEW w \in Workers, Start(w) PROVE Tracked'
    <3> USE <2>7 DEF Start, Goto
    <3>1. job[w] \in Requests
      BY DEF CountInv, HeldInv
    <3>2. InQueue(r)' <=> InQueue(r)
      BY DEF InQueue
    <3>3. CASE future[job[w]] = "pending"
      BY <2>0, <3>1, <3>2, <3>3 DEF HeldBy, TypeOK
    <3>4. CASE future[job[w]] # "pending"
      BY <2>0, <3>1, <3>2, <3>4 DEF HeldBy, TypeOK
    <3> QED
      BY <3>3, <3>4
  <2>8. ASSUME NEW w \in Workers, Finish(w) \/ Notify(w) PROVE Tracked'
    <3>1. InQueue(r)' <=> InQueue(r)
      BY <2>8 DEF Finish, Notify, InQueue
    <3>2. CASE Finish(w)
      BY <2>0, <3>1, <3>2 DEF Finish, Goto, HeldBy, CountInv, HeldInv, TypeOK
    <3>3. CASE Notify(w)
      BY <2>0, <3>1, <3>3 DEF Notify, Goto, HeldBy, TypeOK
    <3> QED
      BY <2>8, <3>2, <3>3
  <2>9. CASE Close
    BY <2>1, <2>9 DEF Close
  <2>10. CASE Drain
    <3>1. CASE queue = <<>>
      <4>1. ~InQueue(r) /\ ~InQueue(r)'
        BY <2>10, <3>1 DEF Drain, InQueue
      <4> QED
        BY <2>0, <2>10, <3>1, <4>1 DEF Drain, HeldBy
    <3>2. CASE queue # <<>>
      <4>1. /\ closer = "drain" /\ closer' = "drain"
            /\ queue' = Tail(queue)
            /\ Cancel(Head(queue))
            /\ UNCHANGED <<worker, job>>
        BY <2>10, <3>2 DEF Drain
      <4>2. Head(queue) \in Requests
        BY <3>2, <4>1 DEF CountInv, HeldInv
      <4>3. /\ Len(queue) \in Nat \ {0}
            /\ Len(queue') = Len(queue) - 1
            /\ Head(queue) = queue[1]
            /\ \A i \in 1..Len(queue') : queue'[i] = queue[i + 1]
        BY <3>2, <4>1 DEF TypeOK
      <4>4. InQueue(r) => InQueue(r)' \/ Head(queue) = r
        <5> SUFFICES ASSUME NEW i \in 1..Len(queue), queue[i] = r, i # 1
                     PROVE  InQueue(r)'
          BY <4>3 DEF InQueue
        <5>1. i - 1 \in 1..Len(queue') /\ queue'[i - 1] = queue[i]
          BY <4>3
        <5> QED
          BY <5>1 DEF InQueue
      <4>5. /\ Head(queue) = r => future'[r] # "pending"
            /\ future'[r] = future[r] \/ future'[r] = "cancelled"
        BY <4>1, <4>2 DEF Cancel, TypeOK
      <4> QED
        BY <2>0, <4>1, <4>4, <4>5 DEF HeldBy
    <3> QED
      BY <3>1, <3>2
  <2>11. CASE Wake
    <3>1. closer = "wake" /\ UNCHANGED <<future, worker, job>>
      BY <2>11 DEF Wake
    <3>2. queue' = queue \/ queue' = Append(queue, None)
      BY <2>11 DEF Wake
    <3>3. ~InQueue(r)
      BY <2>0, <3>1
    <3>4. ~InQueue(r)'
      <4>1. CASE queue' = queue
        BY <3>3, <4>1 DEF InQueue
      <4>2. CASE queue' = Append(queue, None)
        <5>1. /\ Len(queue) \in Nat
              /\ Len(queue') = Len(queue) + 1
              /\ queue'[Len(queue) + 1] = None
          BY <4>2 DEF TypeOK
        <5>2. \A i \in 1..Len(queue) : queue'[i] = queue[i]
          BY <4>2 DEF TypeOK
        <5>3. \A i \in 1..Len(queue') : i = Len(queue) + 1 \/ i \in 1..Len(queue)
          BY <5>1
        <5> QED
          BY <3>3, <5>1, <5>2, <5>3, PoolAssumption DEF InQueue
      <4> QED
        BY <3>2, <4>1, <4>2
    <3> QED
      BY <2>0, <3>1, <3>3, <3>4 DEF HeldBy
  <2>12. CASE UNCHANGED vars
    BY <2>1, <2>12 DEF vars
  <2> QED
    BY <2>2, <2>3, <2>4, <2>5, <2>6, <2>7, <2>8, <2>9, <2>10, <2>11, <2>12
    DEF Next, Serve
<1>3. Spec => [](TypeOK /\ CountInv)
  BY PoolCounting
<1>4. TypeOK /\ CountInv /\ ThreadInv => TypeOK /\ PoolInv
  BY DEF CountInv, PoolInv
<1> QED
  BY <1>1, <1>2, <1>3, <1>4, PTL DEF Spec

\* With the threads gone, whatever is undone would be in the drained queue.
THEOREM NobodyIsStranded ==
  ASSUME CancelFutures
  PROVE  Spec => []NobodyStranded
<1>1. TypeOK /\ PoolInv => NobodyStranded
  BY DEF NobodyStranded, Undone, PoolInv, ThreadInv, HeldBy
<1> QED
  BY <1>1, PoolKeepsTrack, PTL
===============================================================================
