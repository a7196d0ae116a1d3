---------------------------- MODULE EventDelivery ----------------------------
(***************************************************************************)
(* The transactional outbox and its transport.  A producer inserts an      *)
(* event in the transaction of its state change; relay replicas sweep      *)
(* PENDING rows without locking them and add one dispatch job per          *)
(* interested subscriber; dispatch workers run the subscriber, with        *)
(* retries; a job that exhausts them goes to the dead-letter queue.        *)
(*                                                                         *)
(* BullMQ and Redis are external.  What the code relies on: adding a job   *)
(* whose id is retained is a no-op, a failed attempt is retried until      *)
(* "attempts" is used up whatever the error's class, a job whose worker    *)
(* died goes back to waiting once and fails the second time, and finished  *)
(* jobs are kept for a bounded time.                                       *)
(***************************************************************************)
EXTENDS Naturals, FiniteSets

CONSTANTS
    Events,              \* event ids, numbered by occurredAt
    Subscribers,         \* subscriber ids
    Interested,          \* [Events -> SUBSET Subscribers]: subscribersFor
    Known,               \* subscribers the dispatching build still registers
    Relays,              \* relay replicas
    BatchSize,           \* rows one sweep reads
    MaxAttempts,         \* "attempts" of the dispatch queue
    MaxFaults,           \* bound on failed calls to Redis or the database
    MaxCrashes,          \* bound on processes that die
    MaxEvictions         \* bound on finished jobs Redis forgets

ASSUME EventsAssumption == Events \subseteq Nat
\* The audit journal subscribes to every type, so no event is without one.
ASSUME InterestedAssumption ==
    /\ Interested \in [Events -> SUBSET Subscribers]
    /\ \A e \in Events : Interested[e] # {}
ASSUME BoundsAssumption ==
    {BatchSize, MaxAttempts} \subseteq Nat \ {0}

Deliveries == {d \in Events \X Subscribers : d[2] \in Interested[d[1]]}

VARIABLES
    outbox,              \* status of each event's row
    relay,               \* each replica's sweep
    job,                 \* state of each dispatch job
    attempts,            \* attemptsMade of each job
    stalled,             \* jobs put back to waiting after their worker died
    dead,                \* deliveries with a dead-letter record
    runs,                \* times a subscriber ran to completion (observed)
    interrupted,         \* deliveries whose worker once died (observed)
    evicted,             \* deliveries whose job was once forgotten (observed)
    exhausted,           \* deliveries whose job once failed for good (observed)
    budget               \* faults, crashes and evictions left

rows == <<outbox, relay>>
jobs == <<job, attempts, stalled, dead>>
observed == <<runs, interrupted, evicted, exhausted>>
vars == <<rows, jobs, observed, budget>>

Idle == [stage |-> "idle", todo |-> {}, sent |-> {}, done |-> {}]

Oldest(events) == CHOOSE e \in events : \A f \in events : e <= f

\* findMany(PENDING, orderBy occurredAt, take batchSize)
Batch == LET pending == {e \in Events : outbox[e] = "pending"}
         IN  {e \in pending :
                Cardinality({f \in pending : f < e}) < BatchSize}

Spend(kind) == /\ budget[kind] > 0
               /\ budget' = [budget EXCEPT ![kind] = @ - 1]

-----------------------------------------------------------------------------
Init == /\ outbox = [e \in Events |-> "none"]
        /\ relay = [r \in Relays |-> Idle]
        /\ job = [d \in Deliveries |-> "none"]
        /\ attempts = [d \in Deliveries |-> 0]
        /\ stalled = {}
        /\ dead = {}
        /\ runs = [d \in Deliveries |-> 0]
        /\ interrupted = {}
        /\ evicted = {}
        /\ exhausted = {}
        /\ budget = [faults |-> MaxFaults, crashes |-> MaxCrashes,
                     evictions |-> MaxEvictions]

\* publishWithin: the row commits with the producer's state change; a second
\* row with its dedupe key is skipped.
PublishWithin(e) ==
    /\ outbox[e] = "none"
    /\ outbox' = [outbox EXCEPT ![e] = "pending"]
    /\ UNCHANGED <<relay, jobs, observed, budget>>

-----------------------------------------------------------------------------
\* The relay.

ReadPending(r) ==
    /\ relay[r].stage = "idle"
    /\ Batch # {}
    /\ relay' = [relay EXCEPT ![r] = [stage |-> "enqueueing", todo |-> Batch,
                                      sent |-> {}, done |-> {}]]
    /\ UNCHANGED <<outbox, jobs, observed, budget>>

\* Mutant: no job id.
AddJobAlways(d) == /\ job' = [job EXCEPT ![d] = "waiting"]
                   /\ attempts' = [attempts EXCEPT ![d] = 0]
                   /\ stalled' = stalled \ {d}

\* Queue.add with a job id: a no-op while Redis retains a job of that id.
AddJob(d) ==
    IF job[d] = "none"
    THEN /\ job' = [job EXCEPT ![d] = "waiting"]
         /\ attempts' = [attempts EXCEPT ![d] = 0]
         /\ stalled' = stalled \ {d}
    ELSE UNCHANGED <<job, attempts, stalled>>

\* Mutant: the subscriber's id goes to publishedIds.
EnqueuedSubscriber(sweep, e, s) ==
    [sweep EXCEPT !.todo = @ \ {e}, !.sent = {}, !.done = @ \cup {s}]

\* The event after its last subscriber is enqueued goes to publishedIds.
Enqueued(sweep, e, s) ==
    LET sent == sweep.sent \cup {s}
    IN  IF sent = Interested[e]
        THEN [sweep EXCEPT !.todo = @ \ {e}, !.sent = {}, !.done = @ \cup {e}]
        ELSE [sweep EXCEPT !.sent = sent]

Enqueue(r) ==
    /\ relay[r].todo # {}
    /\ LET e == Oldest(relay[r].todo)
       IN  \E s \in Interested[e] \ relay[r].sent :
              /\ AddJob(<<e, s>>)
              /\ relay' = [relay EXCEPT ![r] = Enqueued(@, e, s)]
    /\ UNCHANGED <<outbox, dead, observed, budget>>

\* Mutant: a failed event is marked with the others.
SkipEventMarked(sweep, e) ==
    [sweep EXCEPT !.todo = @ \ {e}, !.sent = {}, !.done = @ \cup {e}]

\* The row stays PENDING; the rest of the batch goes on.
SkipEvent(sweep, e) == [sweep EXCEPT !.todo = @ \ {e}, !.sent = {}]

\* The call to Redis fails, whether or not the job was added before the reply
\* was lost; recordRelayFailure only counts.
EnqueueFails(r) ==
    /\ relay[r].todo # {}
    /\ Spend("faults")
    /\ LET e == Oldest(relay[r].todo)
       IN  /\ relay' = [relay EXCEPT ![r] = SkipEvent(@, e)]
           /\ \/ \E s \in Interested[e] \ relay[r].sent : AddJob(<<e, s>>)
              \/ UNCHANGED <<job, attempts, stalled>>
    /\ UNCHANGED <<outbox, dead, observed>>

\* One unconditional updateMany for the whole sweep.
MarkPublished(r) ==
    /\ relay[r].stage = "enqueueing"
    /\ relay[r].todo = {}
    /\ outbox' = [e \in Events |->
                    IF e \in relay[r].done THEN "published" ELSE outbox[e]]
    /\ relay' = [relay EXCEPT ![r] = Idle]
    /\ UNCHANGED <<jobs, observed, budget>>

\* The process dies, or a database call throws: nothing of the sweep is marked.
RelayCrash(r) ==
    /\ relay[r].stage # "idle"
    /\ Spend("crashes")
    /\ relay' = [relay EXCEPT ![r] = Idle]
    /\ UNCHANGED <<outbox, jobs, observed>>

-----------------------------------------------------------------------------
\* The dispatch workers.

Take(d) ==
    /\ job[d] = "waiting"
    /\ job' = [job EXCEPT ![d] = "active"]
    /\ UNCHANGED <<rows, attempts, stalled, dead, observed, budget>>

Handled(d) == runs' = [runs EXCEPT ![d] = @ + 1]

Complete(d) ==
    /\ job[d] = "active"
    /\ d[2] \in Known
    /\ Handled(d)
    /\ job' = [job EXCEPT ![d] = "completed"]
    /\ UNCHANGED <<rows, attempts, stalled, dead, interrupted, evicted,
                   exhausted, budget>>

FailForGood(d) ==
    /\ job' = [job EXCEPT ![d] = "failed"]
    /\ exhausted' = exhausted \cup {d}

\* worker.on("failed"): the final attempt is dead-lettered; if that enqueue
\* fails too it is logged and lost.
RecordDeadLetter(d, made) ==
    IF made >= MaxAttempts
    THEN \/ dead' = dead \cup {d} /\ UNCHANGED budget
         \/ dead' = dead /\ Spend("faults")
    ELSE UNCHANGED <<dead, budget>>

\* The subscriber throws, or is unknown to this build (PermanentError): BullMQ
\* does not tell the two apart.
Fail(d) ==
    /\ job[d] = "active"
    /\ LET made == attempts[d] + 1
       IN  /\ attempts' = [attempts EXCEPT ![d] = made]
           /\ IF made < MaxAttempts
              THEN job' = [job EXCEPT ![d] = "waiting"] /\ UNCHANGED exhausted
              ELSE FailForGood(d)
           /\ RecordDeadLetter(d, made)
    /\ UNCHANGED <<rows, stalled, runs, interrupted, evicted>>

\* The worker dies, before or after the subscriber's effect committed.  BullMQ
\* puts the job back once; the second time it fails it as stalled, and the
\* "failed" listener sees a job with attempts to spare.
WorkerCrash(d) ==
    /\ job[d] = "active"
    /\ budget["crashes"] > 0
    /\ \/ d[2] \in Known /\ Handled(d)
       \/ UNCHANGED runs
    /\ interrupted' = interrupted \cup {d}
    /\ IF d \notin stalled
       THEN /\ job' = [job EXCEPT ![d] = "waiting"]
            /\ stalled' = stalled \cup {d}
            /\ UNCHANGED <<attempts, exhausted, dead>>
       ELSE /\ FailForGood(d)
            /\ attempts' = [attempts EXCEPT ![d] = @ + 1]
            /\ dead' = IF attempts[d] + 1 >= MaxAttempts
                       THEN dead \cup {d} ELSE dead
            /\ UNCHANGED stalled
    /\ budget' = [budget EXCEPT !["crashes"] = @ - 1]
    /\ UNCHANGED <<rows, evicted>>

\* removeOnComplete / removeOnFail: the finished job, and its id, are forgotten.
Evict(d) ==
    /\ job[d] \in {"completed", "failed"}
    /\ Spend("evictions")
    /\ job' = [job EXCEPT ![d] = "none"]
    /\ evicted' = evicted \cup {d}
    /\ UNCHANGED <<rows, attempts, stalled, dead, runs, interrupted, exhausted>>

-----------------------------------------------------------------------------
Next == \/ \E e \in Events : PublishWithin(e)
        \/ \E r \in Relays : \/ ReadPending(r) \/ Enqueue(r) \/ EnqueueFails(r)
                             \/ MarkPublished(r) \/ RelayCrash(r)
        \/ \E d \in Deliveries : \/ Take(d) \/ Complete(d) \/ Fail(d)
                                 \/ WorkerCrash(d) \/ Evict(d)

Spec == Init /\ [][Next]_vars

\* The sweep repeats and runs to its end, waiting jobs are taken, and a taken
\* job ends one way or the other.  Nothing is assumed of how it ends.
Fairness ==
    /\ \A r \in Relays : WF_vars(ReadPending(r) \/ Enqueue(r) \/ MarkPublished(r))
    /\ \A d \in Deliveries : WF_vars(Take(d)) /\ WF_vars(Complete(d) \/ Fail(d))

FairSpec == Spec /\ Fairness

-----------------------------------------------------------------------------
TypeOK ==
    /\ outbox \in [Events -> {"none", "pending", "published"}]
    /\ relay \in [Relays -> [stage : {"idle", "enqueueing"},
                             todo : SUBSET Events, sent : SUBSET Subscribers,
                             done : SUBSET Events]]
    /\ job \in [Deliveries ->
                  {"none", "waiting", "active", "completed", "failed"}]
    /\ attempts \in [Deliveries -> 0..MaxAttempts]
    /\ runs \in [Deliveries -> Nat]
    /\ {stalled, dead, interrupted, evicted, exhausted} \subseteq SUBSET Deliveries

\* A row leaves the sweep's sight (PUBLISHED) only when every interested
\* subscriber has its job: a partial fan-out, a lost reply, a second replica or
\* a crash before updateMany never drops a subscriber.
PublishedIsQueued ==
    \A d \in Deliveries :
        outbox[d[1]] = "published" => job[d] # "none" \/ d \in evicted

\* "BullMQ collapses the duplicate" (outbox-relay.service.ts): with replicas
\* sweeping the same rows, a subscriber runs twice on an event only if its
\* worker died on it or Redis has forgotten the finished job.
DuplicatesCollapse ==
    \A d \in Deliveries : runs[d] > 1 => d \in interrupted \cup evicted

\* The transport implements at-least-once delivery.
Outcome ==
    [d \in Deliveries |->
        IF outbox[d[1]] = "none" THEN "none"
        ELSE IF runs[d] > 0 THEN "handled"
        ELSE IF d \in exhausted THEN "failed"
        ELSE "owed"]

EventOfDelivery(d) == d[1]

Promise == INSTANCE ReliableDelivery
             WITH outcome <- Outcome, EventOf <- EventOfDelivery

ImplementsReliableDelivery == Promise!Spec
=============================================================================
