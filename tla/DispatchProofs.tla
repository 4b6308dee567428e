---------------------------- MODULE DispatchProofs ----------------------------
(***************************************************************************)
(* What holds of Dispatch for any number of events, webhooks, workers and  *)
(* retention workers, and any capacity and limits: it keeps the promise of *)
(* WebhookStream, but for its liveness.                                    *)
(***************************************************************************)
EXTENDS Dispatch, FiniteSetTheorems, SequenceTheorems, TLAPS

\* An event is in one place of the queue, or with one worker, or dropped.
Owns(w, e) == worker[w].event = e \/ \E d \in joinSet[w] : d[1] = e

QueuedOnce == \A i \in 1 .. Len(queue) :
    /\ queue[i] \in 1 .. offered /\ queue[i] \notin dropped
    /\ \A j \in 1 .. Len(queue) : queue[i] = queue[j] => i = j

OwnedOnce == \A w \in Workers, e \in Events : Owns(w, e) =>
    /\ e <= offered /\ e \notin dropped /\ e \notin Queued
    /\ \A v \in Workers \ {w} : ~Owns(v, e)

\* Where a worker is tells what it holds; it leaves only a closed, empty queue.
WorkersFit == \A w \in Workers :
    /\ At(w, "recv") <=> lock = w
    /\ worker[w].event # 0 <=> At(w, "fetch") \/ At(w, "fan")
    /\ At(w, "drain") \/ At(w, "gone") => queue = <<>> /\ phase # "serving"
    /\ At(w, "gone") => joinSet[w] = {}
    /\ phase = "stopped" => At(w, "gone")
    /\ Cardinality(joinSet[w]) <= MaxInflight

\* A delivery begins once, from the worker that holds its event, and is in a join set for
\* as long as it runs.
DeliveriesFit == \A d \in Deliveries :
    /\ delivery[d].step \in Running => \E w \in Workers : d \in joinSet[w]
    /\ delivery[d].step # "none" =>
          /\ d[1] <= offered /\ d[1] \notin dropped /\ d[1] \notin Queued
          /\ \A w \in Workers : worker[w].event = d[1] =>
                At(w, "fan") /\ d[2] \notin worker[w].todo
    /\ delivery[d].step = "backoff" => MayRetry(delivery[d].attempt)

IInv == TypeOK /\ QueuedOnce /\ OwnedOnce /\ WorkersFit /\ DeliveriesFit

-----------------------------------------------------------------------------
(* Lemmas *)

LEMMA JoinSetsFinite ==
    ASSUME TypeOK, NEW w \in Workers
    PROVE  IsFiniteSet(joinSet[w]) /\ Cardinality(joinSet[w]) \in Nat
<1>1. IsFiniteSet(Deliveries)
  <2>1. IsFiniteSet(Events) /\ IsFiniteSet(Hooks)
    BY EventsAssumption, WorkersAssumption, FS_Interval DEF Events
  <2> QED BY <2>1, FS_Product DEF Deliveries
<1>2. joinSet[w] \subseteq Deliveries
  BY DEF TypeOK
<1> QED BY <1>1, <1>2, FS_Subset, FS_CardinalityType

\* The other workers keep what they do when w goes on to r.
LEMMA Moved ==
    ASSUME TypeOK, NEW w \in Workers, NEW r \in Worker, worker' = [worker EXCEPT ![w] = r]
    PROVE  /\ worker' \in [Workers -> Worker] /\ worker'[w] = r
           /\ \A v \in Workers \ {w} : worker'[v] = worker[v]
BY DEF TypeOK

LEMMA Went ==
    ASSUME TypeOK, NEW w \in Workers, NEW step \in {"lock", "recv", "fetch", "fan", "drain", "gone"},
           Goto(w, step)
    PROVE  /\ worker' \in [Workers -> Worker] /\ worker'[w].step = step
           /\ worker'[w].event = worker[w].event /\ worker'[w].todo = worker[w].todo
           /\ \A v \in Workers \ {w} : worker'[v] = worker[v]
BY DEF TypeOK, Goto, Worker

\* A head taken off the queue is in it no more, and the rest keeps its order.
LEMMA Taken ==
    ASSUME TypeOK, QueuedOnce, queue # <<>>, queue' = Tail(queue), UNCHANGED <<offered, dropped>>
    PROVE  /\ queue' \in Seq(Events) /\ Len(queue') <= Capacity /\ QueuedOnce'
           /\ Head(queue) \in Queued /\ Queued' = Queued \ {Head(queue)}
           /\ Head(queue) \in 1 .. offered /\ Head(queue) \notin dropped
<1>1. queue \in Seq(Events) /\ Len(queue) \in Nat \ {0} /\ Len(queue) <= Capacity
  BY EmptySeq DEF TypeOK
<1>2. /\ queue' \in Seq(Events) /\ Len(queue') = Len(queue) - 1
      /\ \A i \in 1 .. Len(queue') : queue'[i] = queue[i + 1]
  BY <1>1, HeadTailProperties
<1>3. Head(queue) = queue[1] /\ 1 \in 1 .. Len(queue)
  BY <1>1
<1>4. \A i \in 1 .. Len(queue') : i + 1 \in 1 .. Len(queue)
  BY <1>1, <1>2
<1>5. QueuedOnce'
  <2> SUFFICES ASSUME NEW i \in 1 .. Len(queue')
               PROVE  /\ queue'[i] \in 1 .. offered /\ queue'[i] \notin dropped
                      /\ \A j \in 1 .. Len(queue') : queue'[i] = queue'[j] => i = j
    BY DEF QueuedOnce
  <2>1. ASSUME NEW j \in 1 .. Len(queue'), queue'[i] = queue'[j] PROVE i = j
    <3>1. i + 1 = j + 1
      BY <1>2, <1>4, <2>1 DEF QueuedOnce
    <3> QED BY <3>1
  <2> QED BY <1>2, <1>4, <2>1 DEF QueuedOnce
<1>6. Queued' = Queued \ {queue[1]}
  <2>1. ASSUME NEW e \in Queued' PROVE e \in Queued /\ e # queue[1]
    <3>1. PICK i \in 1 .. Len(queue') : e = queue'[i]
      BY DEF Queued
    <3>2. e = queue[i + 1] /\ i + 1 \in 1 .. Len(queue) /\ i + 1 # 1
      BY <1>2, <1>4, <3>1
    <3> QED BY <1>3, <3>2 DEF Queued, QueuedOnce
  <2>2. ASSUME NEW e \in Queued, e # queue[1] PROVE e \in Queued'
    <3>1. PICK i \in 1 .. Len(queue) : e = queue[i]
      BY DEF Queued
    <3>2. i - 1 \in 1 .. Len(queue')
      BY <1>1, <1>2, <2>2, <3>1
    <3>3. e = queue'[i - 1]
      BY <1>2, <3>1, <3>2
    <3> QED BY <3>2, <3>3 DEF Queued
  <2> QED BY <2>1, <2>2
<1>7. /\ Head(queue) \in Queued
      /\ Head(queue) \in 1 .. offered /\ Head(queue) \notin dropped
  BY <1>3 DEF QueuedOnce, Queued
<1>8. Len(queue') <= Capacity
  BY <1>1, <1>2, LimitsAssumption
<1> QED BY <1>2, <1>3, <1>5, <1>6, <1>7, <1>8

\* An event put on the queue comes after those it holds.
LEMMA Put ==
    ASSUME TypeOK, QueuedOnce, offered < MaxEvents, offered' = offered + 1,
           Len(queue) < Capacity, queue' = Append(queue, offered + 1), UNCHANGED dropped
    PROVE  /\ queue' \in Seq(Events) /\ Len(queue') <= Capacity /\ QueuedOnce'
           /\ Queued' = Queued \cup {offered + 1}
<1>1. /\ queue \in Seq(Events) /\ Len(queue) \in Nat /\ Capacity \in Nat
      /\ offered \in Nat /\ offered + 1 \in Events
  BY EventsAssumption, LimitsAssumption, LenProperties DEF TypeOK, Events
<1>2. /\ queue' \in Seq(Events) /\ Len(queue') = Len(queue) + 1
      /\ \A i \in 1 .. Len(queue) : queue'[i] = queue[i]
      /\ queue'[Len(queue) + 1] = offered + 1
  BY <1>1, AppendProperties
<1>3. \A i \in 1 .. Len(queue') : i \in 1 .. Len(queue) \/ i = Len(queue) + 1
  BY <1>1, <1>2
<1>4. offered + 1 \notin dropped /\ \A i \in 1 .. Len(queue) : queue[i] # offered + 1
  BY <1>1 DEF QueuedOnce, TypeOK
<1>5. QueuedOnce'
  <2> SUFFICES ASSUME NEW i \in 1 .. Len(queue')
               PROVE  /\ queue'[i] \in 1 .. (offered + 1) /\ queue'[i] \notin dropped
                      /\ \A j \in 1 .. Len(queue') : queue'[i] = queue'[j] => i = j
    BY DEF QueuedOnce
  <2>1. CASE i \in 1 .. Len(queue)
    BY <1>1, <1>2, <1>3, <1>4, <2>1 DEF QueuedOnce
  <2>2. CASE i = Len(queue) + 1
    BY <1>1, <1>2, <1>3, <1>4, <2>2
  <2> QED BY <1>3, <2>1, <2>2
<1>6. Queued' = Queued \cup {offered + 1}
  <2>1. Len(queue) + 1 \in 1 .. Len(queue')
    BY <1>1, <1>2
  <2>2. \A i \in 1 .. Len(queue) : i \in 1 .. Len(queue')
    BY <1>1, <1>2
  <2> QED BY <1>2, <1>3, <2>1, <2>2 DEF Queued
<1> QED BY <1>1, <1>2, <1>5, <1>6

-----------------------------------------------------------------------------
(* The invariant *)

LEMMA DispatchInit == Init => IInv
<1> SUFFICES ASSUME Init PROVE IInv
  OBVIOUS
<1> USE DEF Init
<1>1. TypeOK
  <2>1. queue \in Seq(Events) /\ Len(queue) <= Capacity
    BY EmptySeq, LimitsAssumption
  <2>2. Awaiting \in Worker
    BY EventsAssumption DEF Awaiting, Worker
  <2>3. [step |-> "none", attempt |-> 0] \in Delivery
    BY LimitsAssumption DEF Delivery
  <2> QED BY <2>1, <2>2, <2>3, EventsAssumption DEF TypeOK
<1>2. QueuedOnce /\ Queued = {}
  BY EmptySeq DEF QueuedOnce, Queued
<1>3. OwnedOnce
  BY DEF OwnedOnce, Owns, Awaiting, Events
<1>4. WorkersFit
  <2>1. \A w \in Workers : Cardinality(joinSet[w]) <= MaxInflight
    BY FS_EmptySet, LimitsAssumption
  <2> QED BY <2>1, WorkersAssumption DEF WorkersFit, At, Awaiting
<1>5. DeliveriesFit
  BY DEF DeliveriesFit, Running
<1> QED BY <1>1, <1>2, <1>3, <1>4, <1>5 DEF IInv

LEMMA EnqueueStep == IInv /\ Enqueue => IInv'
<1> SUFFICES ASSUME IInv, Enqueue PROVE IInv'
  OBVIOUS
<1>0. TypeOK /\ QueuedOnce /\ OwnedOnce /\ WorkersFit /\ DeliveriesFit
  BY DEF IInv
<1>1. /\ phase = "serving" /\ offered < MaxEvents /\ offered' = offered + 1
      /\ UNCHANGED <<phase, lock, worker, joinSet, delivery, sweeper>>
      /\ offered \in Nat /\ offered + 1 \in Events /\ MaxEvents \in Nat
  BY <1>0, EventsAssumption DEF Enqueue, TypeOK, Events
<1>2. /\ queue' \in Seq(Events) /\ Len(queue') <= Capacity /\ QueuedOnce'
      /\ \/ Queued' = Queued \cup {offered + 1} /\ dropped' = dropped /\ queue' # <<>>
         \/ Queued' = Queued /\ dropped' = dropped \cup {offered + 1} /\ queue' = queue
  <2>1. CASE Len(queue) < Capacity
    <3>1. queue' = Append(queue, offered + 1) /\ dropped' = dropped
      BY <2>1 DEF Enqueue
    <3> QED BY <1>0, <1>1, <2>1, <3>1, Put, AppendProperties DEF TypeOK
  <2>2. CASE ~(Len(queue) < Capacity)
    <3>1. queue' = queue /\ dropped' = dropped \cup {offered + 1}
      BY <2>2 DEF Enqueue
    <3> QED BY <1>0, <1>1, <3>1 DEF QueuedOnce, Queued, TypeOK
  <2> QED BY <2>1, <2>2
<1>3. TypeOK'
  <2>1. offered' \in 0 .. MaxEvents
    BY <1>1
  <2>2. dropped' \subseteq 1 .. offered'
    <3>1. dropped' \subseteq dropped \cup {offered + 1} /\ dropped \subseteq 1 .. offered
      BY <1>0, <1>2 DEF TypeOK
    <3> QED BY <1>1, <3>1
  <2> QED BY <1>0, <1>1, <1>2, <2>1, <2>2 DEF TypeOK
<1>4. OwnedOnce'
  BY <1>0, <1>1, <1>2 DEF OwnedOnce, Owns, Events
<1>5. WorkersFit'
  BY <1>0, <1>1, <1>2 DEF WorkersFit, At
<1>6. DeliveriesFit'
  BY <1>0, <1>1, <1>2 DEF DeliveriesFit, At, Deliveries, Events
<1> QED BY <1>2, <1>3, <1>4, <1>5, <1>6 DEF IInv

LEMMA TakeLockStep ==
    ASSUME IInv, NEW w \in Workers, TakeLock(w)
    PROVE  IInv'
<1>0. TypeOK /\ QueuedOnce /\ OwnedOnce /\ WorkersFit /\ DeliveriesFit
  BY DEF IInv
<1>1. /\ At(w, "lock") /\ lock = "free" /\ lock' = w
      /\ UNCHANGED <<phase, offered, dropped, queue, joinSet, delivery, sweeper>>
  BY DEF TakeLock
<1>2. /\ worker' \in [Workers -> Worker] /\ worker'[w].step = "recv"
      /\ worker'[w].event = worker[w].event /\ worker'[w].todo = worker[w].todo
      /\ \A v \in Workers \ {w} : worker'[v] = worker[v]
  BY <1>0, Went DEF TakeLock
<1>3. TypeOK'
  BY <1>0, <1>1, <1>2 DEF TypeOK
<1>4. QueuedOnce' /\ OwnedOnce'
  BY <1>0, <1>1, <1>2 DEF QueuedOnce, OwnedOnce, Owns, Queued
<1>5. WorkersFit'
  BY <1>0, <1>1, <1>2, WorkersAssumption DEF WorkersFit, At
<1>6. DeliveriesFit'
  BY <1>0, <1>1, <1>2 DEF DeliveriesFit, At, Queued, WorkersFit
<1> QED BY <1>3, <1>4, <1>5, <1>6 DEF IInv

LEMMA RecvStep ==
    ASSUME IInv, NEW w \in Workers, Recv(w)
    PROVE  IInv'
<1>0. TypeOK /\ QueuedOnce /\ OwnedOnce /\ WorkersFit /\ DeliveriesFit
  BY DEF IInv
<1>1. /\ At(w, "recv") /\ lock = w /\ lock' = "free"
      /\ UNCHANGED <<phase, offered, dropped, joinSet, delivery, sweeper>>
  BY DEF Recv
<1>2. CASE queue # <<>> /\ queue' = Tail(queue)
           /\ worker' = [worker EXCEPT ![w].step = "fetch", ![w].event = Head(queue)]
  <2> DEFINE e == Head(queue)
  <2>1. /\ queue' \in Seq(Events) /\ Len(queue') <= Capacity /\ QueuedOnce'
        /\ e \in Queued /\ Queued' = Queued \ {e}
        /\ e \in 1 .. offered /\ e \notin dropped
    BY <1>0, <1>1, <1>2, Taken
  <2>2. e \in Events
    BY <1>0, <2>1, EventsAssumption DEF TypeOK, Events
  <2>3. /\ worker' \in [Workers -> Worker] /\ worker'[w].step = "fetch"
        /\ worker'[w].event = e /\ worker'[w].todo = worker[w].todo
        /\ \A v \in Workers \ {w} : worker'[v] = worker[v]
    BY <1>0, <1>2, <2>2 DEF TypeOK, Worker
  <2> HIDE DEF e
  <2>4. TypeOK'
    BY <1>0, <1>1, <2>1, <2>3 DEF TypeOK
  <2>5. OwnedOnce'
    <3>1. \A v \in Workers : ~Owns(v, e)
      BY <1>0, <2>1, <2>2 DEF OwnedOnce
    <3>2. \A x \in Events : Owns(w, x)' => x = e \/ Owns(w, x)
      BY <1>1, <2>3 DEF Owns
    <3>3. \A v \in Workers \ {w}, x \in Events : Owns(v, x)' <=> Owns(v, x)
      BY <1>1, <2>3 DEF Owns
    <3> QED BY <1>0, <1>1, <2>1, <2>2, <3>1, <3>2, <3>3 DEF OwnedOnce
  <2>6. WorkersFit'
    <3>1. e # 0
      BY <2>2 DEF Events
    <3> QED BY <1>0, <1>1, <1>2, <2>3, <3>1, WorkersAssumption DEF WorkersFit, At
  <2>7. DeliveriesFit'
    BY <1>0, <1>1, <2>1, <2>3 DEF DeliveriesFit, At
  <2> QED BY <2>1, <2>4, <2>5, <2>6, <2>7 DEF IInv
<1>3. CASE queue = <<>> /\ phase # "serving" /\ Goto(w, "drain") /\ UNCHANGED queue
  <2>1. /\ worker' \in [Workers -> Worker] /\ worker'[w].step = "drain"
        /\ worker'[w].event = worker[w].event /\ worker'[w].todo = worker[w].todo
        /\ \A v \in Workers \ {w} : worker'[v] = worker[v]
    BY <1>0, <1>3, Went
  <2>2. TypeOK'
    BY <1>0, <1>1, <1>3, <2>1 DEF TypeOK
  <2>3. QueuedOnce' /\ OwnedOnce'
    BY <1>0, <1>1, <1>3, <2>1 DEF QueuedOnce, OwnedOnce, Owns, Queued
  <2>4. WorkersFit'
    BY <1>0, <1>1, <1>3, <2>1, WorkersAssumption DEF WorkersFit, At
  <2>5. DeliveriesFit'
    BY <1>0, <1>1, <1>3, <2>1 DEF DeliveriesFit, At, Queued, WorkersFit
  <2> QED BY <2>2, <2>3, <2>4, <2>5 DEF IInv
<1> QED BY <1>2, <1>3 DEF Recv

LEMMA FetchStep ==
    ASSUME IInv, NEW w \in Workers, Fetch(w)
    PROVE  IInv'
<1>0. TypeOK /\ QueuedOnce /\ OwnedOnce /\ WorkersFit /\ DeliveriesFit
  BY DEF IInv
<1>1. /\ At(w, "fetch")
      /\ UNCHANGED <<phase, offered, dropped, queue, lock, joinSet, delivery, sweeper>>
  BY DEF Fetch
<1>2. /\ worker' \in [Workers -> Worker]
      /\ \A v \in Workers \ {w} : worker'[v] = worker[v]
      /\ \/ worker'[w].step = "fan" /\ worker'[w].event = worker[w].event
         \/ worker'[w].step = "lock" /\ worker'[w].event = 0
  <2>1. ASSUME NEW todo \in SUBSET Hooks,
               worker' = [worker EXCEPT ![w].step = "fan", ![w].todo = todo]
        PROVE  /\ worker' \in [Workers -> Worker]
               /\ worker'[w].step = "fan" /\ worker'[w].event = worker[w].event
               /\ \A v \in Workers \ {w} : worker'[v] = worker[v]
    BY <1>0, <2>1 DEF TypeOK, Worker
  <2>2. Awaiting \in Worker /\ Awaiting.step = "lock" /\ Awaiting.event = 0
    BY DEF Awaiting, Worker
  <2>3. CASE worker' = [worker EXCEPT ![w] = Awaiting]
    BY <1>0, <2>2, <2>3, Moved
  <2> QED BY <2>1, <2>3 DEF Fetch
<1>3. TypeOK'
  BY <1>0, <1>1, <1>2 DEF TypeOK
<1>4. QueuedOnce' /\ OwnedOnce'
  BY <1>0, <1>1, <1>2 DEF QueuedOnce, OwnedOnce, Owns, Queued, Events
<1>5. WorkersFit'
  BY <1>0, <1>1, <1>2, WorkersAssumption DEF WorkersFit, At
<1>6. DeliveriesFit'
  <2> SUFFICES ASSUME NEW d \in Deliveries, delivery[d].step # "none", NEW v \in Workers,
                      worker'[v].event = d[1]
               PROVE  worker'[v].step = "fan" /\ d[2] \notin worker'[v].todo
    BY <1>0, <1>1 DEF DeliveriesFit, At, Queued
  <2>1. v # w
    BY <1>0, <1>1, <1>2 DEF DeliveriesFit, At, Deliveries, Events
  <2> QED BY <1>0, <1>2, <2>1 DEF DeliveriesFit, At
<1> QED BY <1>3, <1>4, <1>5, <1>6 DEF IInv

\* A finished delivery leaves a join set, or several do and the worker goes on.
LEMMA ShedStep ==
    ASSUME IInv, NEW w \in Workers, Join(w) \/ Reap(w) \/ Leave(w)
    PROVE  IInv'
<1>0. TypeOK /\ QueuedOnce /\ OwnedOnce /\ WorkersFit /\ DeliveriesFit
  BY DEF IInv
<1>1. UNCHANGED <<phase, offered, dropped, queue, lock, delivery, sweeper>>
  BY DEF Join, Reap, Leave
<1>2. /\ joinSet' \in [Workers -> SUBSET Deliveries]
      /\ joinSet'[w] \subseteq joinSet[w]
      /\ \A d \in joinSet[w] \ joinSet'[w] : Finished(d)
      /\ \A v \in Workers \ {w} : joinSet'[v] = joinSet[v]
  BY <1>0 DEF Join, Reap, Leave, TypeOK
<1>3. /\ worker' \in [Workers -> Worker]
      /\ \A v \in Workers \ {w} : worker'[v] = worker[v]
      /\ \/ worker'[w] = worker[w]
         \/ At(w, "fan") /\ worker'[w].step = "lock" /\ worker'[w].event = 0
         \/ /\ At(w, "drain") /\ worker'[w].step = "gone" /\ worker'[w].event = worker[w].event
            /\ joinSet[w] = {} /\ joinSet'[w] = {}
  <2>1. CASE Join(w)
    BY <1>0, <2>1 DEF Join, TypeOK
  <2>2. CASE Reap(w)
    <3>1. Awaiting \in Worker /\ Awaiting.step = "lock" /\ Awaiting.event = 0
      BY DEF Awaiting, Worker
    <3>2. At(w, "fan") /\ worker' = [worker EXCEPT ![w] = Awaiting]
      BY <2>2 DEF Reap
    <3> QED BY <1>0, <3>1, <3>2, Moved
  <2>3. CASE Leave(w)
    <3>1. At(w, "drain") /\ joinSet[w] = {} /\ joinSet' = joinSet /\ Goto(w, "gone")
      BY <2>3 DEF Leave
    <3> QED BY <1>0, <3>1, Went
  <2> QED BY <2>1, <2>2, <2>3
<1>4. TypeOK'
  BY <1>0, <1>1, <1>2, <1>3 DEF TypeOK
<1>5. QueuedOnce'
  BY <1>0, <1>1 DEF QueuedOnce
<1>6. OwnedOnce'
  <2>1. \A v \in Workers, e \in Events : Owns(v, e)' => Owns(v, e)
    BY <1>2, <1>3 DEF Owns, Events
  <2> QED BY <1>0, <1>1, <2>1 DEF OwnedOnce, Queued
<1>7. WorkersFit'
  <2>1. Cardinality(joinSet'[w]) <= MaxInflight
    <3>1. Cardinality(joinSet'[w]) <= Cardinality(joinSet[w])
      BY <1>0, <1>2, JoinSetsFinite, FS_Subset
    <3>2. Cardinality(joinSet'[w]) \in Nat
      BY <1>4, <1>0, <1>2, JoinSetsFinite, FS_Subset, FS_CardinalityType
    <3> QED BY <1>0, <3>1, <3>2, JoinSetsFinite, LimitsAssumption DEF WorkersFit
  <2> QED BY <1>0, <1>1, <1>2, <1>3, <2>1 DEF WorkersFit, At
<1>8. DeliveriesFit'
  <2>1. ASSUME NEW d \in Deliveries, delivery[d].step \in Running
        PROVE  \E v \in Workers : d \in joinSet'[v]
    BY <1>0, <1>2, <2>1 DEF DeliveriesFit, Finished, Running, Ended
  <2>2. ASSUME NEW d \in Deliveries, delivery[d].step # "none", NEW v \in Workers,
               worker'[v].event = d[1]
        PROVE  worker'[v].step = "fan" /\ d[2] \notin worker'[v].todo
    <3>1. d[1] # 0
      BY DEF Deliveries, Events
    <3> QED BY <1>0, <1>3, <2>2, <3>1 DEF DeliveriesFit, At
  <2> QED BY <1>0, <1>1, <2>1, <2>2 DEF DeliveriesFit, At, Queued
<1> QED BY <1>4, <1>5, <1>6, <1>7, <1>8 DEF IInv

LEMMA SpawnStep ==
    ASSUME IInv, NEW w \in Workers, Spawn(w)
    PROVE  IInv'
<1>0. TypeOK /\ QueuedOnce /\ OwnedOnce /\ WorkersFit /\ DeliveriesFit
  BY DEF IInv
<1>1. /\ At(w, "fan") /\ Cardinality(joinSet[w]) < MaxInflight
      /\ UNCHANGED <<phase, offered, dropped, queue, lock, sweeper>>
  BY DEF Spawn
<1>2. PICK h \in worker[w].todo :
         /\ worker' = [worker EXCEPT ![w].todo = @ \ {h}]
         /\ \/ /\ joinSet' = [joinSet EXCEPT ![w] = @ \cup {<<worker[w].event, h>>}]
               /\ delivery' = [delivery EXCEPT ![<<worker[w].event, h>>] =
                                                      [step |-> "screen", attempt |-> 0]]
            \/ UNCHANGED <<joinSet, delivery>>
  BY DEF Spawn
<1> DEFINE e == worker[w].event
           d == <<e, h>>
<1>3. e \in Events /\ h \in Hooks /\ d \in Deliveries /\ d[1] = e /\ d[2] = h
  BY <1>0, <1>1, <1>2 DEF TypeOK, Worker, WorkersFit, Deliveries, At
<1>4. /\ worker' \in [Workers -> Worker] /\ worker'[w].step = "fan" /\ worker'[w].event = e
      /\ worker'[w].todo = worker[w].todo \ {h}
      /\ \A v \in Workers \ {w} : worker'[v] = worker[v]
  BY <1>0, <1>1, <1>2 DEF TypeOK, Worker, At
<1>5. [step |-> "screen", attempt |-> 0] \in Delivery
  BY LimitsAssumption DEF Delivery, Running
<1>6. /\ joinSet' \in [Workers -> SUBSET Deliveries] /\ delivery' \in [Deliveries -> Delivery]
      /\ \A v \in Workers \ {w} : joinSet'[v] = joinSet[v]
      /\ \A c \in Deliveries \ {d} : delivery'[c] = delivery[c]
      /\ \/ joinSet'[w] = joinSet[w] /\ delivery' = delivery
         \/ joinSet'[w] = joinSet[w] \cup {d} /\ delivery'[d].step = "screen"
  BY SMTT(90), <1>0, <1>2, <1>3, <1>5 DEF TypeOK
<1> HIDE DEF d, e
<1>7. TypeOK'
  BY <1>0, <1>1, <1>4, <1>6 DEF TypeOK
<1>8. QueuedOnce' /\ OwnedOnce'
  <2>1. e = worker[w].event
    BY DEF e
  <2>2. \A v \in Workers, x \in Events : Owns(v, x)' => Owns(v, x)
    BY <1>3, <1>4, <1>6, <2>1 DEF Owns
  <2> QED BY <1>0, <1>1, <2>2 DEF QueuedOnce, OwnedOnce, Queued
<1>9. WorkersFit'
  <2>1. Cardinality(joinSet'[w]) <= MaxInflight
    <3>1. CASE joinSet'[w] = joinSet[w] \cup {d}
      <4>1. Cardinality(joinSet'[w]) \in {Cardinality(joinSet[w]), Cardinality(joinSet[w]) + 1}
        BY <1>0, <3>1, JoinSetsFinite, FS_AddElement
      <4> QED BY <1>0, <1>1, <4>1, JoinSetsFinite, LimitsAssumption
    <3> QED BY <1>0, <1>6, <3>1 DEF WorkersFit
  <2>2. e # 0
    BY <1>3 DEF Events
  <2> QED BY <1>0, <1>1, <1>4, <1>6, <2>1, <2>2 DEF WorkersFit, At
<1>10. DeliveriesFit'
  <2>1. /\ e = worker[w].event /\ e <= offered /\ e \notin dropped /\ e \notin Queued
        /\ \A v \in Workers \ {w} : worker[v].event # e
    BY <1>0, <1>3 DEF OwnedOnce, Owns, e
  <2>2. ASSUME NEW c \in Deliveries, c # d
        PROVE  /\ delivery'[c].step \in Running => \E v \in Workers : c \in joinSet'[v]
               /\ delivery'[c].step # "none" =>
                     /\ c[1] <= offered /\ c[1] \notin dropped /\ c[1] \notin Queued
                     /\ \A v \in Workers : worker'[v].event = c[1] =>
                           worker'[v].step = "fan" /\ c[2] \notin worker'[v].todo
               /\ delivery'[c].step = "backoff" => MayRetry(delivery'[c].attempt)
    BY <1>0, <1>4, <1>6, <2>1, <2>2 DEF DeliveriesFit, At
  <2>3. CASE joinSet'[w] = joinSet[w] \cup {d} /\ delivery'[d].step = "screen"
    <3>1. d \in joinSet'[w] /\ d[1] = e /\ d[2] \notin worker'[w].todo
      BY <1>3, <1>4, <2>3
    <3>2. \A v \in Workers : worker'[v].event = e => v = w
      BY <1>4, <2>1
    <3> QED BY <1>1, <1>4, <2>1, <2>2, <2>3, <3>1, <3>2 DEF DeliveriesFit, At, Queued
  <2>4. CASE joinSet'[w] = joinSet[w] /\ delivery' = delivery
    BY <1>0, <1>1, <1>3, <1>4, <1>6, <2>1, <2>2, <2>4 DEF DeliveriesFit, At, Queued
  <2> QED BY <1>6, <2>3, <2>4
<1> QED BY <1>7, <1>8, <1>9, <1>10 DEF IInv

\* A delivery that runs goes on running, or ends; it has begun either way.
LEMMA DeliverIs ==
    ASSUME TypeOK, DeliveriesFit, NEW d \in Deliveries, Deliver(d)
    PROVE  /\ UNCHANGED <<phase, offered, dropped, pool, sweeper>>
           /\ delivery' \in [Deliveries -> Delivery]
           /\ delivery[d].step \in Running /\ delivery'[d].step \in Running \cup Ended
           /\ delivery'[d].step = "backoff" => MayRetry(delivery'[d].attempt)
           /\ \A c \in Deliveries \ {d} : delivery'[c] = delivery[c]
<1> DEFINE n == delivery[d].attempt
<1>1. n \in Nat /\ n <= MaxRetries + 1 /\ MaxRetries \in Nat
  BY LimitsAssumption DEF TypeOK, Delivery
<1>2. delivery[d].step \in Running
  BY DEF Deliver, Screen, Attempt, Retry, Running
<1>3. PICK step \in Running \cup Ended, m \in 0 .. MaxRetries + 1 :
         Advance(d, step, m) /\ (step = "backoff" => MayRetry(m))
  <2>1. CASE Screen(d)
    BY <1>1, <2>1 DEF Screen, Over, Running, Ended
  <2>2. CASE Attempt(d)
    BY <1>1, <2>2 DEF Attempt, Over, Running, Ended
  <2>3. CASE Retry(d)
    <3>1. n + 1 \in 0 .. MaxRetries + 1
      BY <1>1, <2>3 DEF Retry, DeliveriesFit, MayRetry
    <3> QED BY <2>3, <3>1 DEF Retry, Running
  <2> QED BY <2>1, <2>2, <2>3 DEF Deliver
<1>4. [step |-> step, attempt |-> m] \in Delivery
  BY DEF Delivery
<1> QED BY <1>2, <1>3, <1>4 DEF Advance, TypeOK

LEMMA DeliverStep ==
    ASSUME IInv, NEW d \in Deliveries, Deliver(d)
    PROVE  IInv'
<1>0. TypeOK /\ QueuedOnce /\ OwnedOnce /\ WorkersFit /\ DeliveriesFit
  BY DEF IInv
<1>1. /\ UNCHANGED <<phase, offered, dropped, queue, lock, worker, joinSet, sweeper>>
      /\ delivery' \in [Deliveries -> Delivery]
      /\ delivery[d].step \in Running
      /\ delivery'[d].step = "backoff" => MayRetry(delivery'[d].attempt)
      /\ \A c \in Deliveries \ {d} : delivery'[c] = delivery[c]
  BY <1>0, DeliverIs DEF pool
<1>2. TypeOK' /\ QueuedOnce' /\ OwnedOnce' /\ WorkersFit'
  BY <1>0, <1>1 DEF TypeOK, QueuedOnce, OwnedOnce, Owns, WorkersFit, At, Queued
<1>3. DeliveriesFit'
  BY <1>0, <1>1 DEF DeliveriesFit, At, Queued, Running
<1> QED BY <1>2, <1>3 DEF IInv

LEMMA CloseStep ==
    ASSUME IInv, Close \/ Stop \/ (\E s \in Sweepers : Sweep(s) \/ StopSweeping(s))
    PROVE  IInv'
<1>0. TypeOK /\ QueuedOnce /\ OwnedOnce /\ WorkersFit /\ DeliveriesFit
  BY DEF IInv
<1>1. UNCHANGED <<offered, dropped, queue, lock, worker, joinSet, delivery>>
  BY DEF Close, Stop, Sweep, StopSweeping, pool
<1>2. /\ phase' = phase \/ phase' \in {"closing", "stopped"}
      /\ phase' = "stopped" => phase = "stopped" \/ \A w \in Workers : At(w, "gone")
  BY DEF Close, Stop, Sweep, StopSweeping
<1>3. sweeper' \in [Sweepers -> {"waiting", "sweeping", "gone"}]
  BY <1>0 DEF Close, Stop, Sweep, StopSweeping, TypeOK
<1>4. TypeOK'
  BY <1>0, <1>1, <1>2, <1>3 DEF TypeOK
<1>5. QueuedOnce' /\ OwnedOnce' /\ WorkersFit' /\ DeliveriesFit'
  BY <1>0, <1>1, <1>2 DEF QueuedOnce, OwnedOnce, Owns, WorkersFit, DeliveriesFit, At, Queued
<1> QED BY <1>4, <1>5 DEF IInv

LEMMA DispatchStep == IInv /\ [Next]_vars => IInv'
<1> SUFFICES ASSUME IInv, [Next]_vars PROVE IInv'
  OBVIOUS
<1>1. CASE UNCHANGED vars
  BY SMTT(90), <1>1 DEF vars, pool, IInv, TypeOK, QueuedOnce, OwnedOnce, Owns, WorkersFit, DeliveriesFit,
     At, Queued
<1>2. ASSUME NEW w \in Workers, Work(w) PROVE IInv'
  BY <1>2, TakeLockStep, RecvStep, FetchStep, ShedStep, SpawnStep DEF Work
<1>3. ASSUME NEW d \in Deliveries, Deliver(d) PROVE IInv'
  BY <1>3, DeliverStep
<1> QED BY <1>1, <1>2, <1>3, EnqueueStep, CloseStep DEF Next

-----------------------------------------------------------------------------
(* The theorems *)

\* Queue, workers and deliveries keep the strengthened invariant, whichever moves next.
THEOREM DispatchInvariant == Spec => []IInv
BY DispatchInit, DispatchStep, PTL DEF Spec

\* Every variable keeps its type, and the queue its capacity.
THEOREM TypesKept == Spec => []TypeOK
<1>1. IInv => TypeOK
  BY DEF IInv
<1> QED BY <1>1, DispatchInvariant, PTL

\* However many deliveries hang, a worker has at most MAX_INFLIGHT of them going, and none
\* that another worker has (dispatch_worker: the join set).
THEOREM InflightHeld == Spec => []InflightBounded
<1>1. IInv => InflightBounded
  <2> SUFFICES ASSUME IInv, NEW w \in Workers
               PROVE  /\ Cardinality({d \in joinSet[w] : ~Finished(d)}) <= MaxInflight
                      /\ \A v \in Workers \ {w} : joinSet[v] \cap joinSet[w] = {}
    BY DEF InflightBounded
  <2>0. TypeOK /\ OwnedOnce /\ WorkersFit
    BY DEF IInv
  <2>1. Cardinality({d \in joinSet[w] : ~Finished(d)}) <= MaxInflight
    <3> DEFINE T == {d \in joinSet[w] : ~Finished(d)}
    <3>1. IsFiniteSet(T) /\ Cardinality(T) <= Cardinality(joinSet[w])
      BY <2>0, JoinSetsFinite, FS_Subset
    <3>2. Cardinality(T) \in Nat
      BY <3>1, FS_CardinalityType
    <3> HIDE DEF T
    <3>3. Cardinality(T) <= MaxInflight
      BY <2>0, <3>1, <3>2, JoinSetsFinite, LimitsAssumption DEF WorkersFit
    <3> QED BY <3>3 DEF T
  <2>2. ASSUME NEW v \in Workers \ {w}, NEW d \in joinSet[v] \cap joinSet[w] PROVE FALSE
    <3>1. d[1] \in Events
      BY <2>0 DEF TypeOK, Deliveries
    <3> QED BY <2>0, <3>1 DEF OwnedOnce, Owns
  <2> QED BY <2>1, <2>2
<1> QED BY <1>1, DispatchInvariant, PTL

\* Workers that are gone have left nothing undone.
LEMMA NothingLeft ==
    ASSUME IInv, \A w \in Workers : At(w, "gone"), NEW e \in Events, Pending(e)
    PROVE  FALSE
<1>0. TypeOK /\ WorkersFit /\ DeliveriesFit
  BY DEF IInv
<1>1. \A w \in Workers : worker[w].event = 0 /\ joinSet[w] = {} /\ queue = <<>>
  BY <1>0 DEF WorkersFit, At
<1>2. e \notin Queued
  BY <1>1, WorkersAssumption, EmptySeq DEF Queued
<1>3. \A w \in Workers : worker[w].event # e
  BY <1>1 DEF Events
<1>4. \A h \in Hooks : delivery[<<e, h>>].step \notin Running
  BY <1>0, <1>1 DEF DeliveriesFit, Deliveries
<1> QED BY <1>2, <1>3, <1>4 DEF Pending

\* Once the service has stopped no event is queued, held by a worker or being delivered
\* (main: the shutdown waits for the workers, and they for their join sets).
THEOREM NothingIsLeft == Spec => []NothingLeftBehind
<1>1. IInv => NothingLeftBehind
  BY NothingLeft DEF NothingLeftBehind, IInv, WorkersFit
<1> QED BY <1>1, DispatchInvariant, PTL

-----------------------------------------------------------------------------
(* The refinement: every step is one of WebhookStream, or changes nothing there *)

fate == [e \in Events |-> Fate(e)]
result == [d \in Deliveries |-> Result(d)]

\* A step about one event that was accepted leaves it so, or settles it.
LEMMA OneEvent ==
    ASSUME TypeOK, NEW e \in Events, Pending(e), e <= offered, e \notin dropped,
           UNCHANGED <<offered, dropped>>,
           \A x \in Events \ {e} : Pending(x)' <=> Pending(x)
    PROVE  /\ fate[e] = "accepted"
           /\ \E f \in {"accepted", "settled"} : fate' = [fate EXCEPT ![e] = f]
           /\ fate' = fate \/ fate' = [fate EXCEPT ![e] = "settled"]
<1>1. offered' = offered /\ dropped' = dropped
  OBVIOUS
<1>2. \A x \in Events \ {e} : Fate(x)' = Fate(x)
  BY <1>1 DEF Fate
<1>3. Fate(e) = "accepted" /\ Fate(e)' \in {"accepted", "settled"}
  BY <1>1, EventsAssumption DEF Fate, Events, TypeOK
<1> QED BY <1>2, <1>3 DEF fate

\* What a worker holds was accepted.
LEMMA HeldIsPending ==
    ASSUME IInv, NEW w \in Workers, worker[w].event # 0
    PROVE  /\ worker[w].event \in Events /\ Pending(worker[w].event)
           /\ worker[w].event <= offered /\ worker[w].event \notin dropped
<1>1. worker[w].event \in Events
  BY DEF IInv, TypeOK, Worker
<1> QED BY <1>1 DEF IInv, OwnedOnce, Owns, Pending

LEMMA StreamInit == Init => Stream!Init
<1> SUFFICES ASSUME Init PROVE Stream!Init
  OBVIOUS
<1>1. \A e \in Events : Fate(e) = "unsent"
  BY EventsAssumption DEF Init, Fate, Events
<1>2. \A d \in Deliveries : Result(d) = "none"
  BY DEF Init, Result, Finished, Ended
<1> QED BY <1>1, <1>2 DEF Stream!Init, Init, Deliveries

Stutter == fate' = fate /\ result' = result /\ phase' = phase

LEMMA EnqueueOffers ==
    ASSUME IInv, Enqueue
    PROVE  \E e \in Events : Stream!Offer(e)
<1>0. TypeOK /\ QueuedOnce /\ OwnedOnce /\ DeliveriesFit
  BY DEF IInv
<1> PICK e \in Events : e = offered + 1
  BY <1>0, EventsAssumption DEF Enqueue, TypeOK, Events
<1>1. /\ phase = "serving" /\ phase' = phase /\ offered' = e
      /\ UNCHANGED <<worker, joinSet, delivery>>
      /\ offered \in Nat /\ e = offered + 1
  BY <1>0, EventsAssumption DEF Enqueue, TypeOK, Events
<1>2. \/ Queued' = Queued \cup {e} /\ dropped' = dropped
      \/ Queued' = Queued /\ dropped' = dropped \cup {e}
  <2>1. CASE Len(queue) < Capacity
    <3>1. queue' = Append(queue, offered + 1) /\ dropped' = dropped /\ offered < MaxEvents
      BY <2>1 DEF Enqueue
    <3> QED BY <1>0, <1>1, <2>1, <3>1, Put
  <2>2. CASE ~(Len(queue) < Capacity)
    BY <1>1, <2>2 DEF Enqueue, Queued
  <2> QED BY <2>1, <2>2
<1>3. e \notin dropped
  BY <1>0, <1>1 DEF TypeOK
<1>4. \A x \in Events \ {e} : Pending(x)' <=> Pending(x)
  BY <1>1, <1>2 DEF Pending
<1>5. \A x \in Events \ {e} : Fate(x)' = Fate(x)
  BY <1>1, <1>2, <1>4 DEF Fate, Events
<1>6. Fate(e) = "unsent" /\ Fate(e)' \in {"dropped", "accepted"}
  <2>1. ~(e > e)
    BY <1>1
  <2>2. e \in Queued' => Pending(e)'
    BY DEF Pending
  <2>3. e > offered
    BY <1>1
  <2> QED BY <1>1, <1>2, <1>3, <2>1, <2>2, <2>3 DEF Fate
<1>7. result' = result
  BY <1>1 DEF result, Result, Finished
<1>8. fate[e] = "unsent" /\ \E f \in {"dropped", "accepted"} : fate' = [fate EXCEPT ![e] = f]
  BY <1>1, <1>5, <1>6 DEF fate
<1> QED BY <1>1, <1>7, <1>8 DEF Stream!Offer, fate, result, Deliveries

\* The steps of a worker settle an event, or none.
LEMMA WorkSettles ==
    ASSUME IInv, NEW w \in Workers, Work(w)
    PROVE  Stutter \/ \E e \in Events : Stream!Settle(e)
<1>0. TypeOK /\ QueuedOnce /\ OwnedOnce /\ WorkersFit /\ DeliveriesFit
  BY DEF IInv
<1>1. offered' = offered /\ dropped' = dropped /\ phase' = phase
  BY DEF Work, TakeLock, Recv, Fetch, Join, Spawn, Reap, Leave
<1>2. ASSUME UNCHANGED delivery PROVE result' = result
  BY <1>2 DEF result, Result, Finished
<1>3. ASSUME \A x \in Events : Pending(x)' <=> Pending(x) PROVE fate' = fate
  BY <1>1, <1>3 DEF fate, Fate
<1>4. CASE TakeLock(w) \/ Join(w) \/ Leave(w)
  <2>1. queue' = queue /\ delivery' = delivery
    BY <1>4 DEF TakeLock, Join, Leave
  <2>2. \A v \in Workers : worker'[v].event = worker[v].event
    <3>1. CASE Goto(w, "recv") \/ Goto(w, "gone")
      BY <1>0, <3>1, Went
    <3> QED BY <1>4, <3>1 DEF TakeLock, Join, Leave
  <2> QED BY <1>1, <1>2, <1>3, <2>1, <2>2 DEF Stutter, Pending, Queued
<1>5. CASE Recv(w)
  <2>1. delivery' = delivery /\ worker[w].event = 0
    BY <1>0, <1>5 DEF Recv, WorkersFit, At
  <2>2. CASE queue # <<>> /\ queue' = Tail(queue)
             /\ worker' = [worker EXCEPT ![w].step = "fetch", ![w].event = Head(queue)]
    <3>1. Head(queue) \in Queued /\ Queued' = Queued \ {Head(queue)}
      BY <1>0, <1>1, <2>2, Taken
    <3>2. /\ worker'[w].event = Head(queue)
          /\ \A v \in Workers \ {w} : worker'[v].event = worker[v].event
      BY <1>0, <2>2 DEF TypeOK, Worker
    <3>3. \A x \in Events : x # worker[w].event
      BY <2>1 DEF Events
    <3>4. \A x \in Events : (x \in Queued' \/ \E v \in Workers : worker'[v].event = x)
                        <=> (x \in Queued \/ \E v \in Workers : worker[v].event = x)
      BY <3>1, <3>2, <3>3
    <3> QED BY <1>1, <1>2, <1>3, <2>1, <3>4 DEF Stutter, Pending
  <2>3. CASE Goto(w, "drain") /\ UNCHANGED queue
    <3>1. \A v \in Workers : worker'[v].event = worker[v].event
      BY <1>0, <2>3, Went
    <3> QED BY <1>1, <1>2, <1>3, <2>1, <2>3, <3>1 DEF Stutter, Pending, Queued
  <2> QED BY <1>5, <2>2, <2>3 DEF Recv
<1>6. CASE Fetch(w) \/ Reap(w)
  <2>1. queue' = queue /\ delivery' = delivery
    BY <1>6 DEF Fetch, Reap
  <2>0. worker[w].event # 0
    BY <1>0, <1>6 DEF Fetch, Reap, WorkersFit
  <2> PICK e \in Events : e = worker[w].event
    BY <2>0, HeldIsPending
  <2>2. /\ worker'[w].event \in {e, 0}
        /\ \A v \in Workers \ {w} : worker'[v].event = worker[v].event
    <3>2. CASE worker' = [worker EXCEPT ![w] = Awaiting]
      BY <1>0, <3>2 DEF TypeOK, Awaiting
    <3>3. ASSUME NEW todo \in SUBSET Hooks,
                 worker' = [worker EXCEPT ![w].step = "fan", ![w].todo = todo]
          PROVE  /\ worker'[w].event = e
                 /\ \A v \in Workers \ {w} : worker'[v].event = worker[v].event
      BY <1>0, <3>3 DEF TypeOK, Worker
    <3> QED BY <1>6, <3>2, <3>3 DEF Fetch, Reap
  <2>3. Pending(e) /\ e <= offered /\ e \notin dropped
    BY <2>0, HeldIsPending
  <2>4. ASSUME NEW x \in Events \ {e} PROVE Pending(x)' <=> Pending(x)
    <3>1. x # 0
      BY DEF Events
    <3>2. \A v \in Workers : worker'[v].event = x <=> worker[v].event = x
      BY <2>2, <3>1
    <3> QED BY <2>1, <3>2 DEF Pending, Queued
  <2>5. fate[e] = "accepted" /\ (fate' = fate \/ fate' = [fate EXCEPT ![e] = "settled"])
    BY <1>0, <1>1, <2>3, <2>4, OneEvent
  <2>6. result' = result
    BY <1>2, <2>1
  <2>7. CASE fate' = fate
    BY <1>1, <2>6, <2>7 DEF Stutter
  <2>8. CASE fate' = [fate EXCEPT ![e] = "settled"]
    BY <1>1, <2>3, <2>5, <2>6, <2>8 DEF Stream!Settle, fate, result, Deliveries
  <2> QED BY <2>5, <2>7, <2>8
<1>7. CASE Spawn(w)
  <2>1. PICK h \in worker[w].todo :
           /\ worker' = [worker EXCEPT ![w].todo = @ \ {h}]
           /\ \/ delivery' = [delivery EXCEPT ![<<worker[w].event, h>>] =
                                                      [step |-> "screen", attempt |-> 0]]
              \/ UNCHANGED delivery
    BY <1>7 DEF Spawn
  <2>2. At(w, "fan") /\ queue' = queue
    BY <1>7 DEF Spawn
  <2>0. worker[w].event # 0
    BY <1>0, <2>2 DEF WorkersFit
  <2> PICK e \in Events : e = worker[w].event
    BY <2>0, HeldIsPending
  <2>3. h \in Hooks /\ <<e, h>> \in Deliveries
    BY <1>0, <2>1 DEF TypeOK, Worker, Deliveries
  <2>4. \A v \in Workers : worker'[v].event = worker[v].event
    BY <1>0, <2>1 DEF TypeOK, Worker
  <2>5. delivery[<<e, h>>].step = "none"
    BY <1>0, <2>1, <2>3 DEF DeliveriesFit
  <2>6. /\ \A d \in Deliveries \ {<<e, h>>} : delivery'[d] = delivery[d]
        /\ delivery'[<<e, h>>].step \in {"none", "screen"}
    BY <1>0, <2>1, <2>3, <2>5 DEF TypeOK
  <2>7. result' = result
    BY <2>5, <2>6 DEF result, Result, Finished, Ended
  <2>8. \A x \in Events : Pending(x)' <=> Pending(x)
    <3>1. Pending(e) /\ Pending(e)'
      BY <2>4 DEF Pending
    <3>2. ASSUME NEW x \in Events, x # e PROVE Pending(x)' <=> Pending(x)
      <4>1. \A g \in Hooks : delivery'[<<x, g>>] = delivery[<<x, g>>]
        BY <2>6, <3>2 DEF Deliveries
      <4> QED BY <2>2, <2>4, <4>1 DEF Pending, Queued
    <3> QED BY <3>1, <3>2
  <2> QED BY <1>1, <1>3, <2>7, <2>8 DEF Stutter
<1> QED BY <1>4, <1>5, <1>6, <1>7 DEF Work

\* An answer for good is the one result of its event on its webhook.
LEMMA DeliverAnswers ==
    ASSUME IInv, NEW d \in Deliveries, Deliver(d)
    PROVE  Stutter \/ \E e \in Events, h \in Hooks : Stream!Answer(e, h)
<1>0. TypeOK /\ DeliveriesFit
  BY DEF IInv
<1>1. /\ UNCHANGED <<phase, offered, dropped, queue, worker>>
      /\ delivery[d].step \in Running /\ delivery'[d].step \in Running \cup Ended
      /\ \A c \in Deliveries \ {d} : delivery'[c] = delivery[c]
  BY <1>0, DeliverIs DEF pool
<1>2. PICK e \in Events, h \in Hooks : d = <<e, h>>
  BY DEF Deliveries
<1>3. Pending(e) /\ e <= offered /\ e \notin dropped
  BY <1>0, <1>1, <1>2 DEF Pending, DeliveriesFit, Running
<1>4. ASSUME NEW x \in Events \ {e} PROVE Pending(x)' <=> Pending(x)
  <2>1. \A g \in Hooks : delivery'[<<x, g>>] = delivery[<<x, g>>]
    BY <1>1, <1>2 DEF Deliveries
  <2> QED BY <1>1, <2>1 DEF Pending, Queued
<1>5. CASE delivery'[d].step \in Running
  <2>1. Pending(e)'
    BY <1>2, <1>5 DEF Pending
  <2>2. fate' = fate
    BY <1>1, <1>3, <1>4, <2>1 DEF fate, Fate
  <2>3. result' = result
    BY <1>1, <1>5 DEF result, Result, Finished, Running, Ended
  <2> QED BY <1>1, <2>2, <2>3 DEF Stutter
<1>6. CASE delivery'[d].step \in Ended
  <2>1. /\ fate[e] = "accepted"
        /\ \E f \in {"accepted", "settled"} : fate' = [fate EXCEPT ![e] = f]
    BY <1>0, <1>1, <1>3, <1>4, OneEvent
  <2>2. /\ result[<<e, h>>] = "none"
        /\ \E r \in {"delivered", "failed"} : result' = [result EXCEPT ![<<e, h>>] = r]
    <3>1. /\ Result(d) = "none" /\ Result(d)' \in {"delivered", "failed"}
          /\ \A c \in Deliveries \ {d} : Result(c)' = Result(c)
      BY <1>1, <1>6 DEF Result, Finished, Running, Ended
    <3> QED BY <1>2, <3>1 DEF result
  <2> QED BY <1>1, <2>1, <2>2 DEF Stream!Answer, fate, result, Deliveries
<1> QED BY <1>1, <1>5, <1>6

LEMMA StreamStep == IInv /\ [Next]_vars => [Stream!Next]_(Stream!stream)
<1> SUFFICES ASSUME IInv, [Next]_vars PROVE [Stream!Next]_(Stream!stream)
  OBVIOUS
<1>1. Stutter => UNCHANGED (Stream!stream)
  BY DEF Stutter, Stream!stream, fate, result
<1>2. CASE UNCHANGED vars
  BY <1>1, <1>2 DEF vars, pool, Stutter, fate, result, Fate, Result, Finished, Pending, Queued
<1>3. CASE Enqueue
  BY <1>3, EnqueueOffers DEF Stream!Next
<1>4. ASSUME NEW w \in Workers, Work(w) PROVE [Stream!Next]_(Stream!stream)
  BY <1>1, <1>4, WorkSettles DEF Stream!Next
<1>5. ASSUME NEW d \in Deliveries, Deliver(d) PROVE [Stream!Next]_(Stream!stream)
  BY <1>1, <1>5, DeliverAnswers DEF Stream!Next
<1>6. CASE \E s \in Sweepers : Sweep(s) \/ StopSweeping(s)
  <2>1. UNCHANGED <<phase, offered, dropped, queue, worker, delivery>>
    BY <1>6 DEF Sweep, StopSweeping, pool
  <2>2. Stutter
    BY <2>1 DEF Stutter, fate, result, Fate, Result, Finished, Pending, Queued
  <2> QED BY <1>1, <2>2
<1>7. ASSUME Close \/ Stop PROVE fate' = fate /\ result' = result
  BY <1>7 DEF Close, Stop, pool, fate, result, Fate, Result, Finished, Pending, Queued
<1>8. CASE Close
  <2>1. Stream!Close
    BY <1>7, <1>8 DEF Close, Stream!Close, fate, result
  <2> QED BY <2>1 DEF Stream!Next
<1>9. CASE Stop
  <2>1. \A e \in Events : ~Pending(e)
    BY <1>9, NothingLeft DEF Stop
  <2>2. \A e \in Events : fate[e] # "accepted"
    BY <2>1 DEF fate, Fate
  <2>3. Stream!Stop
    BY <1>7, <1>9, <2>2 DEF Stop, Stream!Stop, fate, result
  <2> QED BY <2>3 DEF Stream!Next
<1> QED BY <1>2, <1>3, <1>4, <1>5, <1>6, <1>8, <1>9 DEF Next

\* Whatever the workers, the receivers and the shutdown do, the dispatcher does nothing
\* that WebhookStream does not: no event is offered twice, settled while it is being tried,
\* or given two results by a webhook (KeepsItsPromise, without its liveness).
THEOREM PromiseKept == Spec => Stream!Init /\ [][Stream!Next]_(Stream!stream)
<1>1. IInv /\ [Next]_vars => [Stream!Next]_(Stream!stream)
  BY StreamStep
<1> QED BY <1>1, StreamInit, DispatchInvariant, PTL DEF Spec

=============================================================================
