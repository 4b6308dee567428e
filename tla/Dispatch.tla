------------------------------- MODULE Dispatch -------------------------------
(***************************************************************************)
(* The webhook dispatcher: enqueue_webhook of src/src/state.rs, the pool   *)
(* of src/src/dispatch.rs, and the shutdown of src/src/main.rs with the    *)
(* two retention workers it also waits for.                                *)
(*                                                                         *)
(* The workers share one receiver behind a mutex that is held across recv  *)
(* alone.  A worker fans an event out to one delivery task per webhook and *)
(* keeps them in a join set, which counts finished ones until they are     *)
(* joined.  Every await between two of these is a step.  The pauses        *)
(* between events and retries only delay; every attempt ends, at the       *)
(* client's timeout if not before.  The workers are those whose HTTP       *)
(* client could be built.  The rows of webhook_executions, one for each    *)
(* attempt, are not kept here: only a listing reads them.                  *)
(***************************************************************************)
EXTENDS Naturals, Sequences, FiniteSets

CONSTANTS
    MaxEvents,   \* bound: events enqueued in all, numbered in that order
    Hooks,       \* webhook_configs of the one group the events are for
    Subscribed,  \* <<event, hook>>: the hook's `events` list has its action
    Workers,     \* WEBHOOK_WORKERS
    Sweepers,    \* the retention workers that are not disabled
    Capacity,    \* WEBHOOK_QUEUE_CAPACITY
    MaxInflight, \* MAX_INFLIGHT
    MaxRetries   \* WEBHOOK_MAX_RETRIES

Events == 1 .. MaxEvents
Deliveries == Events \X Hooks

ASSUME EventsAssumption == MaxEvents \in Nat /\ Subscribed \subseteq Deliveries
ASSUME WorkersAssumption == IsFiniteSet(Hooks) /\ Workers # {} /\ "free" \notin Workers
ASSUME LimitsAssumption ==
    Capacity \in Nat \ {0} /\ MaxInflight \in Nat \ {0} /\ MaxRetries \in Nat

VARIABLES
    phase,     \* "serving", "closing" once main has dropped its senders, "stopped"
    offered,   \* events enqueued so far
    dropped,   \* those the queue did not take
    queue,     \* the channel
    lock,      \* the worker that holds the receiver, or "free"
    worker,    \* what each worker is doing
    joinSet,   \* its delivery tasks, running or not yet joined
    delivery,  \* how far each delivery is
    sweeper    \* what each retention worker is doing

pool == <<queue, lock, worker, joinSet>>
vars == <<phase, offered, dropped, pool, delivery, sweeper>>

-----------------------------------------------------------------------------
Running == {"screen", "send", "backoff"}
Ended == {"delivered", "failed"}

Worker == [step : {"lock", "recv", "fetch", "fan", "drain", "gone"},
           event : Events \cup {0}, todo : SUBSET Hooks]

Delivery == [step : {"none"} \cup Running \cup Ended, attempt : 0 .. MaxRetries + 1]

TypeOK ==
    /\ phase \in {"serving", "closing", "stopped"}
    /\ offered \in 0 .. MaxEvents /\ dropped \subseteq 1 .. offered
    /\ queue \in Seq(Events) /\ Len(queue) <= Capacity
    /\ lock \in Workers \cup {"free"}
    /\ worker \in [Workers -> Worker]
    /\ joinSet \in [Workers -> SUBSET Deliveries]
    /\ delivery \in [Deliveries -> Delivery]
    /\ sweeper \in [Sweepers -> {"waiting", "sweeping", "gone"}]

Awaiting == [step |-> "lock", event |-> 0, todo |-> {}]

Init ==
    /\ phase = "serving" /\ offered = 0 /\ dropped = {} /\ queue = <<>>
    /\ lock = "free"
    /\ worker = [w \in Workers |-> Awaiting]
    /\ joinSet = [w \in Workers |-> {}]
    /\ delivery = [d \in Deliveries |-> [step |-> "none", attempt |-> 0]]
    /\ sweeper = [s \in Sweepers |-> "waiting"]

At(w, step) == worker[w].step = step
Goto(w, step) == worker' = [worker EXCEPT ![w].step = step]
Finished(d) == delivery[d].step \in Ended

-----------------------------------------------------------------------------
(* The handlers' side *)

\* enqueue_webhook: try_send never waits; a full queue drops the event.
Enqueue ==
    /\ phase = "serving" /\ offered < MaxEvents
    /\ offered' = offered + 1
    /\ IF Len(queue) < Capacity
       THEN queue' = Append(queue, offered + 1) /\ UNCHANGED dropped
       ELSE dropped' = dropped \cup {offered + 1} /\ UNCHANGED queue
    /\ UNCHANGED <<phase, lock, worker, joinSet, delivery, sweeper>>

-----------------------------------------------------------------------------
(* dispatch_worker *)

TakeLock(w) ==
    /\ At(w, "lock") /\ lock = "free"
    /\ lock' = w /\ Goto(w, "recv")
    /\ UNCHANGED <<phase, offered, dropped, queue, joinSet, delivery, sweeper>>

Bug_RecvStopsWhenClosed(w) ==
    /\ At(w, "recv") /\ lock = w /\ lock' = "free"
    /\ \/ /\ queue # <<>> /\ phase = "serving" /\ queue' = Tail(queue)
          /\ worker' = [worker EXCEPT ![w].step = "fetch", ![w].event = Head(queue)]
       \/ phase # "serving" /\ Goto(w, "drain") /\ UNCHANGED queue
    /\ UNCHANGED <<phase, offered, dropped, joinSet, delivery, sweeper>>

Bug_RecvKeepsReceiver(w) ==
    /\ At(w, "recv") /\ lock = w
    /\ \/ /\ queue # <<>> /\ queue' = Tail(queue) /\ lock' = "free"
          /\ worker' = [worker EXCEPT ![w].step = "fetch", ![w].event = Head(queue)]
       \/ queue = <<>> /\ phase # "serving" /\ Goto(w, "drain") /\ UNCHANGED <<queue, lock>>
    /\ UNCHANGED <<phase, offered, dropped, joinSet, delivery, sweeper>>

\* A closed channel still hands out what it holds.
Recv(w) ==
    /\ At(w, "recv") /\ lock = w /\ lock' = "free"
    /\ \/ /\ queue # <<>> /\ queue' = Tail(queue)
          /\ worker' = [worker EXCEPT ![w].step = "fetch", ![w].event = Head(queue)]
       \/ queue = <<>> /\ phase # "serving" /\ Goto(w, "drain") /\ UNCHANGED queue
    /\ UNCHANGED <<phase, offered, dropped, joinSet, delivery, sweeper>>

\* The webhooks to try: those that list the action and, as their rows are edited all the
\* time, happen to be there and active; none if they cannot be read.
Fetch(w) ==
    LET e == worker[w].event IN
    /\ At(w, "fetch")
    /\ \/ \E todo \in SUBSET {h \in Hooks : <<e, h>> \in Subscribed} :
             worker' = [worker EXCEPT ![w].step = "fan", ![w].todo = todo]
       \/ worker' = [worker EXCEPT ![w] = Awaiting]
    /\ UNCHANGED <<phase, offered, dropped, queue, lock, joinSet, delivery, sweeper>>

\* join_next: one that has finished, when as many are in flight as may be.
Join(w) ==
    /\ \/ At(w, "fan") /\ worker[w].todo # {} /\ Cardinality(joinSet[w]) >= MaxInflight
       \/ At(w, "drain")
    /\ \E d \in joinSet[w] :
          Finished(d) /\ joinSet' = [joinSet EXCEPT ![w] = @ \ {d}]
    /\ UNCHANGED <<phase, offered, dropped, queue, lock, worker, delivery, sweeper>>

Bug_SpawnAtLimit(w) ==
    /\ At(w, "fan") /\ Cardinality(joinSet[w]) <= MaxInflight
    /\ \E h \in worker[w].todo :
          LET d == <<worker[w].event, h>> IN
          /\ worker' = [worker EXCEPT ![w].todo = @ \ {h}]
          /\ joinSet' = [joinSet EXCEPT ![w] = @ \cup {d}]
          /\ delivery' = [delivery EXCEPT ![d] = [step |-> "screen", attempt |-> 0]]
    /\ UNCHANGED <<phase, offered, dropped, queue, lock, sweeper>>

\* One webhook: a delivery task, or nothing if prepare_dispatch fails.
Spawn(w) ==
    /\ At(w, "fan") /\ Cardinality(joinSet[w]) < MaxInflight
    /\ \E h \in worker[w].todo :
          LET d == <<worker[w].event, h>> IN
          /\ worker' = [worker EXCEPT ![w].todo = @ \ {h}]
          /\ \/ /\ joinSet' = [joinSet EXCEPT ![w] = @ \cup {d}]
                /\ delivery' = [delivery EXCEPT ![d] = [step |-> "screen", attempt |-> 0]]
             \/ UNCHANGED <<joinSet, delivery>>
    /\ UNCHANGED <<phase, offered, dropped, queue, lock, sweeper>>

\* try_join_next, and on to the next event.
Reap(w) ==
    /\ At(w, "fan") /\ worker[w].todo = {}
    /\ joinSet' = [joinSet EXCEPT ![w] = {d \in @ : ~Finished(d)}]
    /\ worker' = [worker EXCEPT ![w] = Awaiting]
    /\ UNCHANGED <<phase, offered, dropped, queue, lock, delivery, sweeper>>

Leave(w) ==
    /\ At(w, "drain") /\ joinSet[w] = {}
    /\ Goto(w, "gone")
    /\ UNCHANGED <<phase, offered, dropped, queue, lock, joinSet, delivery, sweeper>>

-----------------------------------------------------------------------------
(* A delivery task: the screen of the target, then dispatch_with_retries_config *)

Advance(d, step, n) ==
    /\ delivery' = [delivery EXCEPT ![d] = [step |-> step, attempt |-> n]]
    /\ UNCHANGED <<phase, offered, dropped, pool, sweeper>>

Over(d, result) == Advance(d, result, 0)

\* is_url_safe: a target that resolves to a blocked address, or to none, is not tried.
Screen(d) ==
    /\ delivery[d].step = "screen"
    /\ Advance(d, "send", 1) \/ Over(d, "failed")

Bug_MayRetryOnceMore(n) == n <= MaxRetries + 1

MayRetry(n) == n <= MaxRetries

\* Answered for good, or not for now: no answer (which a receiver that did the work and
\* was slow to say so gives as well), or a server error.
Attempt(d) ==
    LET n == delivery[d].attempt IN
    /\ delivery[d].step = "send"
    /\ Over(d, "delivered") \/ Over(d, "failed") \/ (MayRetry(n) /\ Advance(d, "backoff", n))

Bug_RetryOnceFailed(d) ==
    /\ delivery[d].step \in {"backoff", "failed"} /\ delivery[d].attempt <= MaxRetries
    /\ Advance(d, "send", delivery[d].attempt + 1)

Retry(d) ==
    /\ delivery[d].step = "backoff"
    /\ Advance(d, "send", delivery[d].attempt + 1)

-----------------------------------------------------------------------------
(* The retention workers, and main *)

\* select! of the tick and the shutdown channel: a sweep that has begun ends.
Sweep(s) ==
    /\ \/ sweeper[s] = "waiting" /\ sweeper' = [sweeper EXCEPT ![s] = "sweeping"]
       \/ sweeper[s] = "sweeping" /\ sweeper' = [sweeper EXCEPT ![s] = "waiting"]
    /\ UNCHANGED <<phase, offered, dropped, pool, delivery>>

StopSweeping(s) ==
    /\ sweeper[s] = "waiting" /\ phase = "closing"
    /\ sweeper' = [sweeper EXCEPT ![s] = "gone"]
    /\ UNCHANGED <<phase, offered, dropped, pool, delivery>>

\* serve has returned, and main drops its senders: no handler holds another.
Close ==
    /\ phase = "serving" /\ phase' = "closing"
    /\ UNCHANGED <<offered, dropped, pool, delivery, sweeper>>

Stop ==
    /\ phase = "closing" /\ phase' = "stopped"
    /\ \A w \in Workers : At(w, "gone")
    /\ \A s \in Sweepers : sweeper[s] = "gone"
    /\ UNCHANGED <<offered, dropped, pool, delivery, sweeper>>

-----------------------------------------------------------------------------
Work(w) == TakeLock(w) \/ Recv(w) \/ Fetch(w) \/ Join(w) \/ Spawn(w) \/ Reap(w) \/ Leave(w)

Deliver(d) == Screen(d) \/ Attempt(d) \/ Retry(d)

Next ==
    \/ Enqueue
    \/ \E w \in Workers : Work(w)
    \/ \E d \in Deliveries : Deliver(d)
    \/ \E s \in Sweepers : Sweep(s) \/ StopSweeping(s)
    \/ Close \/ Stop

\* tokio polls every task that is ready.  The tick of a sweep comes a second or more after
\* the last one, so a closed channel is seen in between.
Fairness ==
    /\ \A w \in Workers : WF_vars(Work(w))
    /\ \A d \in Deliveries : WF_vars(Deliver(d))
    /\ \A s \in Sweepers : WF_vars(Sweep(s)) /\ SF_vars(StopSweeping(s))
    /\ WF_vars(Stop)

Spec == Init /\ [][Next]_vars /\ Fairness

-----------------------------------------------------------------------------
(* Properties *)

\* Events no worker is done with.
Queued == {queue[i] : i \in 1 .. Len(queue)}
Pending(e) ==
    \/ e \in Queued
    \/ \E w \in Workers : worker[w].event = e
    \/ \E h \in Hooks : delivery[<<e, h>>].step \in Running

\* A worker never has more than MAX_INFLIGHT deliveries going (dispatch.rs).
InflightBounded ==
    \A w \in Workers :
        /\ Cardinality({d \in joinSet[w] : ~Finished(d)}) <= MaxInflight
        /\ \A v \in Workers \ {w} : joinSet[v] \cap joinSet[w] = {}

\* Once main says the shutdown is complete, nothing that was accepted is left undone.
NothingLeftBehind ==
    phase = "stopped" => \A e \in Events : ~Pending(e)

\* The service stops once it is closed, whatever the receivers do.
ShutdownEnds == phase = "closing" ~> phase = "stopped"

\* The dispatcher does what WebhookStream promises, fairness included.
Fate(e) ==
    IF e > offered THEN "unsent" ELSE IF e \in dropped THEN "dropped"
    ELSE IF Pending(e) THEN "accepted" ELSE "settled"

Result(d) ==
    IF Finished(d) THEN delivery[d].step ELSE "none"

Stream == INSTANCE WebhookStream WITH
    fate <- [e \in Events |-> Fate(e)], result <- [d \in Deliveries |-> Result(d)]

KeepsItsPromise == Stream!Spec

=============================================================================
