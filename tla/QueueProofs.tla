----------------------------- MODULE QueueProofs -----------------------------
(***************************************************************************)
(* Theorems about the three parts that work from queues: the transport of  *)
(* events, the scheduler and the deliveries of notifications.  Each part   *)
(* has an inductive invariant of its own: TransportInv, SchedulerShapes    *)
(* (with EventsMatchStatus, and NoGap with PassesMissNothing) and          *)
(* NotificationInv.                                                        *)
(***************************************************************************)
EXTENDS EventDelivery, Scheduler, NotificationDelivery, FiniteSetTheorems,
        SequenceTheorems, WellFoundedInduction, TLAPS

\* A set of naturals has a least element: the intervals 1..n that its elements
\* bound are well-founded by inclusion.
LEMMA LeastExists ==
    ASSUME NEW S \in SUBSET Nat, S # {}
    PROVE  \E m \in S : \A n \in S : m <= n
<1> DEFINE T == {1..n : n \in S}
           R == StrictSubsetOrdering(Nat)
<1>1. T \subseteq FiniteSubsetsOf(Nat)
  <2> SUFFICES ASSUME NEW n \in S PROVE 1..n \in SUBSET Nat /\ IsFiniteSet(1..n)
    BY DEF FiniteSubsetsOf
  <2> QED BY FS_Interval
<1>2. T # {}
  OBVIOUS
<1>3. IsWellFoundedOn(R, FiniteSubsetsOf(Nat))
  BY FS_StrictSubsetOrderingWellFounded
<1>4. PICK x \in T : \A y \in T : <<y, x>> \notin R
  <2> HIDE DEF T, R
  <2> QED BY <1>1, <1>2, <1>3, WFMin
<1>5. PICK m \in S : x = 1..m
  OBVIOUS
<1>6. ASSUME NEW n \in S PROVE m <= n
  <2>1. CASE n < m
    <3>1. 1..n \subseteq 1..m /\ m \in 1..m /\ m \notin 1..n
      BY <2>1
    <3>2. <<1..n, 1..m>> \in R
      BY <3>1 DEF StrictSubsetOrdering
    <3> QED BY <1>4, <1>5, <3>2
  <2> QED BY <2>1
<1> QED BY <1>6

-----------------------------------------------------------------------------
\* The transport of events.

\* The relay works on an event of its batch.
LEMMA OldestIsOneOfThem ==
    ASSUME NEW S \in SUBSET Events, S # {}
    PROVE  Oldest(S) \in S
<1>1. \E m \in S : \A n \in S : m <= n
  BY EventsAssumption, LeastExists
<1> QED BY <1>1 DEF Oldest

\* What a relay holds of the batch it read.
Sweeps == [stage : {"idle", "enqueueing"}, todo : SUBSET Events,
           sent : SUBSET Subscribers, done : SUBSET Events]

\* A sweep stays one when an event is enqueued or skipped.
LEMMA SweepGoesOn ==
    ASSUME NEW sweep \in Sweeps, NEW e \in Events
    PROVE  /\ SkipEvent(sweep, e) \in Sweeps
           /\ \A s \in Subscribers : Enqueued(sweep, e, s) \in Sweeps
<1>1. SkipEvent(sweep, e) \in Sweeps
  BY DEF Sweeps, SkipEvent
<1>2. ASSUME NEW s \in Subscribers PROVE Enqueued(sweep, e, s) \in Sweeps
  <2>1. CASE sweep.sent \cup {s} = Interested[e]
    BY <2>1 DEF Sweeps, Enqueued
  <2>2. CASE sweep.sent \cup {s} # Interested[e]
    BY <2>2 DEF Sweeps, Enqueued
  <2> QED BY <2>1, <2>2
<1> QED BY <1>1, <1>2

\* The queue sets aside a job that is out of attempts.
JobsHaveAttemptsLeft ==
    \A d \in Deliveries : job[d] \in {"waiting", "active"} => attempts[d] < MaxAttempts

\* Events with a row, and deliveries that have, or once had, their job.
Committed == {e \in Events : outbox[e] # "none"}
Queued == {d \in Deliveries : job[d] # "none" \/ d \in evicted}

\* A sweep holds committed events, lists as done only events all of whose
\* subscribers have their job, and as sent only subscribers of the event it is at
\* that have theirs.
SoundSweep(sweep, committed, queued) ==
    /\ sweep.todo \cup sweep.done \subseteq committed
    /\ \A d \in Deliveries : d[1] \in sweep.done => d \in queued
    /\ sweep.todo # {} => \A s \in sweep.sent : <<Oldest(sweep.todo), s>> \in queued

SweepsAreSound == \A r \in Relays : SoundSweep(relay[r], Committed, Queued)

\* Nothing is done for an event that is not committed.
NothingAhead ==
    \A d \in Deliveries :
        outbox[d[1]] = "none" => job[d] = "none" /\ runs[d] = 0 /\ d \notin exhausted

\* A delivery whose job neither lost its worker nor was forgotten ran at most
\* once, and its job is over if it did.
OneRunPerJob ==
    \A d \in Deliveries \ (interrupted \cup evicted) :
        /\ runs[d] <= 1
        /\ job[d] \in {"none", "waiting", "active"} => runs[d] = 0

\* The inductive invariant of the transport.
TransportInv == /\ TypeOK
                /\ JobsHaveAttemptsLeft
                /\ SweepsAreSound
                /\ PublishedIsQueued
                /\ NothingAhead
                /\ OneRunPerJob

\* Nothing is published, queued or run at first.
LEMMA TransportInit == Init => TransportInv
<1> SUFFICES ASSUME Init PROVE TransportInv
  OBVIOUS
<1> USE DEF Init, Idle
<1>1. TypeOK
  BY BoundsAssumption DEF TypeOK, Deliveries
<1>2. JobsHaveAttemptsLeft
  BY BoundsAssumption DEF JobsHaveAttemptsLeft
<1>3. SweepsAreSound
  BY DEF SweepsAreSound, SoundSweep
<1>4. PublishedIsQueued /\ NothingAhead /\ OneRunPerJob
  BY DEF PublishedIsQueued, NothingAhead, OneRunPerJob, Deliveries
<1> QED BY <1>1, <1>2, <1>3, <1>4 DEF TransportInv

\* Every step keeps the types, and the attempts the retries of a job are counted by.
LEMMA TransportTypes ==
    ASSUME TypeOK, JobsHaveAttemptsLeft, [Next]_vars
    PROVE  TypeOK' /\ JobsHaveAttemptsLeft'
<1> USE DEF TypeOK, JobsHaveAttemptsLeft
<1>u. CASE UNCHANGED vars
  BY <1>u DEF vars, rows, jobs, observed
<1>1. ASSUME NEW e \in Events, PublishWithin(e) PROVE TypeOK' /\ JobsHaveAttemptsLeft'
  BY <1>1 DEF PublishWithin, jobs, observed
<1>2. ASSUME NEW r \in Relays, ReadPending(r) PROVE TypeOK' /\ JobsHaveAttemptsLeft'
  BY <1>2 DEF ReadPending, jobs, observed, Batch
<1>3. ASSUME NEW d \in Deliveries, AddJob(d)
      PROVE  /\ job' \in [Deliveries -> {"none", "waiting", "active", "completed", "failed"}]
             /\ attempts' \in [Deliveries -> 0..MaxAttempts]
             /\ stalled' \in SUBSET Deliveries
             /\ JobsHaveAttemptsLeft'
  <2>1. MaxAttempts \in Nat /\ 0 < MaxAttempts
    BY BoundsAssumption
  <2>2. CASE job[d] = "none"
    <3>1. /\ job' = [job EXCEPT ![d] = "waiting"]
          /\ attempts' = [attempts EXCEPT ![d] = 0]
          /\ stalled' = stalled \ {d}
      BY <1>3, <2>2 DEF AddJob
    <3>2. attempts' \in [Deliveries -> 0..MaxAttempts]
      BY <2>1, <3>1
    <3>3. ASSUME NEW c \in Deliveries, job'[c] \in {"waiting", "active"}
          PROVE  attempts'[c] < MaxAttempts
      BY <2>1, <3>1, <3>3
    <3> QED BY <3>1, <3>2, <3>3
  <2>3. CASE job[d] # "none"
    BY <1>3, <2>3 DEF AddJob
  <2> QED BY <2>2, <2>3
<1>4. ASSUME NEW r \in Relays, Enqueue(r) PROVE TypeOK' /\ JobsHaveAttemptsLeft'
  <2> DEFINE e == Oldest(relay[r].todo)
  <2>1. e \in relay[r].todo /\ e \in Events
    BY <1>4, OldestIsOneOfThem DEF Enqueue
  <2> HIDE DEF e
  <2>2. PICK s \in Interested[e] \ relay[r].sent :
           /\ AddJob(<<e, s>>)
           /\ relay' = [relay EXCEPT ![r] = Enqueued(@, e, s)]
    BY <1>4 DEF Enqueue, e
  <2>3. s \in Subscribers /\ <<e, s>> \in Deliveries
    BY <2>1, InterestedAssumption DEF Deliveries
  <2>4. relay' \in [Relays -> Sweeps]
    <3>1. relay \in [Relays -> Sweeps]
      BY DEF Sweeps
    <3> QED BY <2>1, <2>2, <2>3, <3>1, SweepGoesOn
  <2>5. UNCHANGED <<outbox, dead, runs, interrupted, evicted, exhausted>>
    BY <1>4 DEF Enqueue, observed
  <2> QED BY <1>3, <2>2, <2>3, <2>4, <2>5 DEF Sweeps
<1>5. ASSUME NEW r \in Relays, EnqueueFails(r) PROVE TypeOK' /\ JobsHaveAttemptsLeft'
  <2> DEFINE e == Oldest(relay[r].todo)
  <2>1. e \in relay[r].todo /\ e \in Events
    BY <1>5, OldestIsOneOfThem DEF EnqueueFails
  <2> HIDE DEF e
  <2>2. relay' = [relay EXCEPT ![r] = SkipEvent(@, e)]
    BY <1>5 DEF EnqueueFails, e
  <2>3. relay' \in [Relays -> Sweeps]
    <3>1. relay \in [Relays -> Sweeps]
      BY DEF Sweeps
    <3> QED BY <2>1, <2>2, <3>1, SweepGoesOn
  <2>4. UNCHANGED <<outbox, dead, runs, interrupted, evicted, exhausted>>
    BY <1>5 DEF EnqueueFails, observed
  <2>5. CASE UNCHANGED <<job, attempts, stalled>>
    BY <2>3, <2>4, <2>5 DEF Sweeps
  <2>6. ASSUME NEW s \in Interested[e], AddJob(<<e, s>>)
        PROVE  TypeOK' /\ JobsHaveAttemptsLeft'
    <3>1. <<e, s>> \in Deliveries
      BY <2>1, InterestedAssumption DEF Deliveries
    <3> QED BY <1>3, <2>3, <2>4, <2>6, <3>1 DEF Sweeps
  <2> QED BY <1>5, <2>5, <2>6 DEF EnqueueFails, e
<1>6. ASSUME NEW r \in Relays, MarkPublished(r) PROVE TypeOK' /\ JobsHaveAttemptsLeft'
  BY <1>6 DEF MarkPublished, Idle, jobs, observed
<1>7. ASSUME NEW r \in Relays, RelayCrash(r) PROVE TypeOK' /\ JobsHaveAttemptsLeft'
  BY <1>7 DEF RelayCrash, Idle, jobs, observed
<1>8. ASSUME NEW d \in Deliveries, Take(d) PROVE TypeOK' /\ JobsHaveAttemptsLeft'
  BY <1>8 DEF Take, rows, observed
<1>9. ASSUME NEW d \in Deliveries, Complete(d) PROVE TypeOK' /\ JobsHaveAttemptsLeft'
  BY <1>9 DEF Complete, Handled, rows
<1>10. ASSUME NEW d \in Deliveries, Fail(d) PROVE TypeOK' /\ JobsHaveAttemptsLeft'
  <2>1. attempts[d] + 1 \in 0..MaxAttempts
    BY <1>10, BoundsAssumption DEF Fail
  <2>2. dead' \in SUBSET Deliveries
    BY <1>10 DEF Fail, RecordDeadLetter
  <2> QED BY <1>10, <2>1, <2>2 DEF Fail, FailForGood, rows
<1>11. ASSUME NEW d \in Deliveries, WorkerCrash(d) PROVE TypeOK' /\ JobsHaveAttemptsLeft'
  <2>1. attempts[d] + 1 \in 0..MaxAttempts
    BY <1>11, BoundsAssumption DEF WorkerCrash
  <2>2. runs' \in [Deliveries -> Nat]
    BY <1>11 DEF WorkerCrash, Handled
  <2>3. dead' \in SUBSET Deliveries
    BY <1>11 DEF WorkerCrash
  <2> QED BY <1>11, <2>1, <2>2, <2>3 DEF WorkerCrash, FailForGood, rows
<1>12. ASSUME NEW d \in Deliveries, Evict(d) PROVE TypeOK' /\ JobsHaveAttemptsLeft'
  BY <1>12 DEF Evict, rows
<1> QED BY <1>u, <1>1, <1>2, <1>4, <1>5, <1>6, <1>7, <1>8, <1>9, <1>10, <1>11, <1>12 DEF Next

\* A sweep stays sound while rows and jobs come, and as it goes on.
LEMMA SoundSweepStays ==
    ASSUME NEW sweep, NEW C, NEW CC, NEW Q, NEW QQ, C \subseteq CC, Q \subseteq QQ,
           SoundSweep(sweep, C, Q)
    PROVE  SoundSweep(sweep, CC, QQ)
BY DEF SoundSweep

\* The relay skips the event it is at, or adds one job for it; after the last of its
\* subscribers the event is done.
LEMMA SoundSweepGoesOn ==
    ASSUME NEW sweep \in Sweeps, NEW C, NEW Q, SoundSweep(sweep, C, Q), sweep.todo # {}
    PROVE  /\ SoundSweep(SkipEvent(sweep, Oldest(sweep.todo)), C, Q)
           /\ \A s : <<Oldest(sweep.todo), s>> \in Q
                    => SoundSweep(Enqueued(sweep, Oldest(sweep.todo), s), C, Q)
<1> DEFINE e == Oldest(sweep.todo)
<1>1. e \in sweep.todo
  BY OldestIsOneOfThem DEF Sweeps
<1> HIDE DEF e
<1>2. SoundSweep(SkipEvent(sweep, e), C, Q)
  BY <1>1 DEF SoundSweep, SkipEvent, Sweeps
<1>3. ASSUME NEW s, <<e, s>> \in Q
      PROVE  SoundSweep(Enqueued(sweep, e, s), C, Q)
  <2>1. \A t \in sweep.sent \cup {s} : <<e, t>> \in Q
    BY <1>1, <1>3 DEF SoundSweep, e
  <2>2. CASE sweep.sent \cup {s} = Interested[e]
    <3>1. Enqueued(sweep, e, s) =
             [sweep EXCEPT !.todo = @ \ {e}, !.sent = {}, !.done = @ \cup {e}]
      BY <2>2 DEF Enqueued
    <3>2. \A d \in Deliveries : d[1] = e => d \in Q
      BY <2>1, <2>2 DEF Deliveries
    <3> QED BY <1>1, <3>1, <3>2 DEF SoundSweep, Sweeps
  <2>3. CASE sweep.sent \cup {s} # Interested[e]
    <3>1. Enqueued(sweep, e, s) = [sweep EXCEPT !.sent = sweep.sent \cup {s}]
      BY <2>3 DEF Enqueued
    <3> QED BY <1>1, <2>1, <3>1 DEF SoundSweep, Sweeps, e
  <2> QED BY <2>2, <2>3
<1> QED BY <1>2, <1>3 DEF e

\* Adding a job leaves the others as they are and queues its delivery.
LEMMA AddJobQueues ==
    ASSUME TypeOK, NEW d \in Deliveries, AddJob(d), UNCHANGED evicted
    PROVE  /\ d \in Queued'
           /\ Queued \subseteq Queued'
           /\ \A c \in Deliveries : c # d => job'[c] = job[c]
           /\ job'[d] = job[d] \/ (job[d] = "none" /\ job'[d] = "waiting")
BY DEF TypeOK, AddJob, Queued

\* Rows and jobs are not forgotten, and sweeps stay sound.
LEMMA TransportSweeps ==
    ASSUME TypeOK, SweepsAreSound, [Next]_vars
    PROVE  Committed \subseteq Committed' /\ Queued \subseteq Queued' /\ SweepsAreSound'
<1> DEFINE Kept == Committed \subseteq Committed' /\ Queued \subseteq Queued'
<1>0. relay \in [Relays -> Sweeps]
  BY DEF TypeOK, Sweeps
<1>a. ASSUME UNCHANGED relay, Kept PROVE SweepsAreSound'
  <2> SUFFICES ASSUME NEW r \in Relays PROVE SoundSweep(relay[r], Committed', Queued')
    BY <1>a DEF SweepsAreSound
  <2> QED BY <1>a, SoundSweepStays DEF SweepsAreSound
<1>b. ASSUME NEW r \in Relays, Kept, NEW sweep, relay' = [relay EXCEPT ![r] = sweep],
             SoundSweep(sweep, Committed', Queued')
      PROVE  SweepsAreSound'
  <2> SUFFICES ASSUME NEW q \in Relays PROVE SoundSweep(relay'[q], Committed', Queued')
    BY DEF SweepsAreSound
  <2>1. CASE q = r
    BY <1>0, <1>b, <2>1
  <2>2. CASE q # r
    <3>1. SoundSweep(relay[q], Committed', Queued')
      BY <1>b, SoundSweepStays DEF SweepsAreSound
    <3> QED BY <1>0, <1>b, <2>2, <3>1
  <2> QED BY <2>1, <2>2
<1>u. CASE UNCHANGED vars
  <2>1. Kept /\ UNCHANGED relay
    BY <1>u DEF vars, rows, jobs, observed, Committed, Queued
  <2> QED BY <1>a, <2>1
<1>1. ASSUME NEW e \in Events, PublishWithin(e) PROVE Kept /\ SweepsAreSound'
  <2>1. Kept /\ UNCHANGED relay
    BY <1>1 DEF PublishWithin, TypeOK, jobs, observed, Committed, Queued
  <2> QED BY <1>a, <2>1
<1>2. ASSUME NEW r \in Relays, ReadPending(r) PROVE Kept /\ SweepsAreSound'
  <2>1. Kept
    BY <1>2 DEF ReadPending, jobs, observed, Committed, Queued
  <2>2. SoundSweep([stage |-> "enqueueing", todo |-> Batch, sent |-> {}, done |-> {}],
                   Committed', Queued')
    BY <1>2 DEF ReadPending, SoundSweep, Batch, Committed
  <2> QED BY <1>2, <1>b, <2>1, <2>2 DEF ReadPending
<1>3. ASSUME NEW r \in Relays, Enqueue(r) PROVE Kept /\ SweepsAreSound'
  <2> DEFINE e == Oldest(relay[r].todo)
  <2>1. relay[r].todo # {} /\ relay[r] \in Sweeps
    BY <1>0, <1>3 DEF Enqueue
  <2>2. e \in relay[r].todo /\ e \in Events
    BY <2>1, OldestIsOneOfThem DEF Sweeps
  <2>3. PICK s \in Interested[e] \ relay[r].sent :
           AddJob(<<e, s>>) /\ relay' = [relay EXCEPT ![r] = Enqueued(@, e, s)]
    BY <1>3 DEF Enqueue
  <2>4. <<e, s>> \in Deliveries
    BY <2>2, InterestedAssumption DEF Deliveries
  <2>5. Kept /\ <<e, s>> \in Queued'
    BY <1>3, <2>3, <2>4, AddJobQueues DEF Enqueue, observed, Committed
  <2>6. SoundSweep(relay[r], Committed', Queued')
    BY <2>5, SoundSweepStays DEF SweepsAreSound
  <2>7. SoundSweep(Enqueued(relay[r], e, s), Committed', Queued')
    BY <2>1, <2>5, <2>6, SoundSweepGoesOn
  <2> HIDE DEF e
  <2>8. relay' = [relay EXCEPT ![r] = Enqueued(relay[r], e, s)]
    BY <1>0, <2>3
  <2> QED BY <1>b, <2>5, <2>7, <2>8
<1>4. ASSUME NEW r \in Relays, EnqueueFails(r) PROVE Kept /\ SweepsAreSound'
  <2> DEFINE e == Oldest(relay[r].todo)
  <2>1. relay[r].todo # {} /\ relay[r] \in Sweeps
    BY <1>0, <1>4 DEF EnqueueFails
  <2>2. e \in relay[r].todo /\ e \in Events
    BY <2>1, OldestIsOneOfThem DEF Sweeps
  <2>3. Kept
    <3>1. ASSUME NEW s \in Interested[e], AddJob(<<e, s>>) PROVE Kept
      <4>1. <<e, s>> \in Deliveries
        BY <2>2, InterestedAssumption DEF Deliveries
      <4> QED BY <1>4, <3>1, <4>1, AddJobQueues DEF EnqueueFails, observed, Committed
    <3>2. CASE UNCHANGED <<job, attempts, stalled>>
      BY <1>4, <3>2 DEF EnqueueFails, observed, Committed, Queued
    <3> QED BY <1>4, <3>1, <3>2 DEF EnqueueFails
  <2>4. SoundSweep(relay[r], Committed', Queued')
    BY <2>3, SoundSweepStays DEF SweepsAreSound
  <2>5. SoundSweep(SkipEvent(relay[r], e), Committed', Queued')
    BY <2>1, <2>4, SoundSweepGoesOn
  <2>6. relay' = [relay EXCEPT ![r] = SkipEvent(relay[r], e)]
    BY <1>4 DEF EnqueueFails
  <2> HIDE DEF e
  <2> QED BY <1>b, <2>3, <2>5, <2>6
<1>5. ASSUME NEW r \in Relays, MarkPublished(r) \/ RelayCrash(r)
      PROVE  Kept /\ SweepsAreSound'
  <2>1. Kept
    BY <1>5 DEF MarkPublished, RelayCrash, TypeOK, jobs, observed, Committed, Queued
  <2>2. SoundSweep(Idle, Committed', Queued')
    BY DEF SoundSweep, Idle
  <2> QED BY <1>5, <1>b, <2>1, <2>2 DEF MarkPublished, RelayCrash
<1>6. ASSUME NEW d \in Deliveries, \/ Take(d) \/ Complete(d) \/ Fail(d)
                                   \/ WorkerCrash(d) \/ Evict(d)
      PROVE  Kept /\ SweepsAreSound'
  <2>1. UNCHANGED rows /\ Committed \subseteq Committed'
    BY <1>6 DEF Take, Complete, Fail, WorkerCrash, Evict, rows, Committed
  <2>2. Queued \subseteq Queued'
    BY <1>6 DEF Take, Complete, Fail, WorkerCrash, Evict, FailForGood, TypeOK,
                observed, Queued
  <2> QED BY <1>a, <2>1, <2>2 DEF rows
<1> QED BY <1>u, <1>1, <1>2, <1>3, <1>4, <1>5, <1>6 DEF Next

\* The jobs a step adds are new, for committed events; it says what became of the
\* others.
JobAdded ==
    /\ UNCHANGED <<runs, interrupted, evicted, exhausted>>
    /\ \A d \in Deliveries :
         \/ job'[d] = job[d]
         \/ job[d] = "none" /\ job'[d] = "waiting" /\ outbox[d[1]] # "none"

\* No step of the relay touches a job that is there, or what the handlers did.
LEMMA RelayOnlyAddsJobs ==
    ASSUME TypeOK, SweepsAreSound, NEW r \in Relays,
           \/ ReadPending(r) \/ Enqueue(r) \/ EnqueueFails(r)
           \/ MarkPublished(r) \/ RelayCrash(r)
    PROVE  JobAdded
<1>1. CASE ReadPending(r) \/ MarkPublished(r) \/ RelayCrash(r)
  BY <1>1 DEF ReadPending, MarkPublished, RelayCrash, jobs, observed, JobAdded
<1>2. CASE Enqueue(r) \/ EnqueueFails(r)
  <2> DEFINE e == Oldest(relay[r].todo)
  <2>1. e \in relay[r].todo /\ e \in Events
    BY <1>2, OldestIsOneOfThem DEF Enqueue, EnqueueFails, TypeOK
  <2>2. outbox[e] # "none"
    BY <2>1 DEF SweepsAreSound, SoundSweep, Committed
  <2> HIDE DEF e
  <2>3. UNCHANGED <<runs, interrupted, evicted, exhausted>>
    BY <1>2 DEF Enqueue, EnqueueFails, observed
  <2>4. ASSUME NEW s \in Interested[e], AddJob(<<e, s>>) PROVE JobAdded
    <3>1. <<e, s>> \in Deliveries
      BY <2>1, InterestedAssumption DEF Deliveries
    <3>2. \A d \in Deliveries : d # <<e, s>> => job'[d] = job[d]
      BY <2>4 DEF AddJob, TypeOK
    <3>3. job'[<<e, s>>] = job[<<e, s>>]
            \/ (job[<<e, s>>] = "none" /\ job'[<<e, s>>] = "waiting")
      BY <2>4, <3>1 DEF AddJob, TypeOK
    <3> QED BY <2>2, <2>3, <3>2, <3>3 DEF JobAdded
  <2>5. CASE UNCHANGED <<job, attempts, stalled>>
    BY <2>3, <2>5 DEF JobAdded
  <2> QED BY <1>2, <2>4, <2>5 DEF Enqueue, EnqueueFails, e
<1> QED BY <1>1, <1>2

\* Every step of relays, workers, queue and crashes keeps the invariant.
LEMMA TransportStep == TransportInv /\ [Next]_vars => TransportInv'
<1> SUFFICES ASSUME TransportInv, [Next]_vars PROVE TransportInv'
  OBVIOUS
<1> USE DEF TransportInv
<1>1. TypeOK' /\ JobsHaveAttemptsLeft'
  BY TransportTypes
<1>2. Committed \subseteq Committed' /\ Queued \subseteq Queued' /\ SweepsAreSound'
  BY TransportSweeps
<1>a. JobAdded =>  NothingAhead' /\ OneRunPerJob'
  <2> SUFFICES ASSUME JobAdded PROVE NothingAhead' /\ OneRunPerJob'
    OBVIOUS
  <2>1. NothingAhead'
    BY <1>2 DEF JobAdded, NothingAhead, Committed, Deliveries
  <2>2. OneRunPerJob'
    BY DEF JobAdded, OneRunPerJob
  <2> QED BY <2>1, <2>2
<1>3. PublishedIsQueued'
  <2> SUFFICES ASSUME NEW d \in Deliveries, outbox'[d[1]] = "published"
               PROVE  d \in Queued'
    BY DEF PublishedIsQueued, Queued
  <2>1. CASE outbox[d[1]] = "published"
    BY <1>2, <2>1 DEF PublishedIsQueued, Queued
  <2>2. CASE outbox[d[1]] # "published"
    <3>1. PICK r \in Relays : MarkPublished(r)
      BY <2>2 DEF Next, vars, rows, PublishWithin, ReadPending, Enqueue, EnqueueFails,
                  RelayCrash, Take, Complete, Fail, WorkerCrash, Evict, TypeOK, Deliveries
    <3>2. d[1] \in relay[r].done
      BY <2>2, <3>1 DEF MarkPublished, Deliveries
    <3> QED BY <1>2, <3>2 DEF SweepsAreSound, SoundSweep
  <2> QED BY <2>1, <2>2
<1>4. NothingAhead' /\ OneRunPerJob'
  <2>u. CASE UNCHANGED vars
    BY <2>u DEF vars, rows, jobs, observed, NothingAhead, OneRunPerJob
  <2>1. ASSUME NEW e \in Events, PublishWithin(e) PROVE NothingAhead' /\ OneRunPerJob'
    <3>1. JobAdded
      BY <2>1 DEF PublishWithin, jobs, observed, JobAdded
    <3> QED BY <1>a, <3>1
  <2>2. ASSUME NEW r \in Relays, \/ ReadPending(r) \/ Enqueue(r) \/ EnqueueFails(r)
                                 \/ MarkPublished(r) \/ RelayCrash(r)
        PROVE  NothingAhead' /\ OneRunPerJob'
    BY <1>a, <2>2, RelayOnlyAddsJobs
  <2>3. ASSUME NEW d \in Deliveries, Take(d) PROVE NothingAhead' /\ OneRunPerJob'
    BY <2>3 DEF Take, rows, observed, TypeOK, NothingAhead, OneRunPerJob
  <2>4. ASSUME NEW d \in Deliveries, Complete(d) PROVE NothingAhead' /\ OneRunPerJob'
    BY <2>4 DEF Complete, Handled, rows, TypeOK, NothingAhead, OneRunPerJob
  <2>5. ASSUME NEW d \in Deliveries, Fail(d) PROVE NothingAhead' /\ OneRunPerJob'
    BY <2>5 DEF Fail, FailForGood, rows, TypeOK, NothingAhead, OneRunPerJob
  <2>6. ASSUME NEW d \in Deliveries, WorkerCrash(d) PROVE NothingAhead' /\ OneRunPerJob'
    BY <2>6 DEF WorkerCrash, Handled, FailForGood, rows, TypeOK, NothingAhead, OneRunPerJob
  <2>7. ASSUME NEW d \in Deliveries, Evict(d) PROVE NothingAhead' /\ OneRunPerJob'
    BY <2>7 DEF Evict, rows, TypeOK, NothingAhead, OneRunPerJob
  <2> QED BY <2>u, <2>1, <2>2, <2>3, <2>4, <2>5, <2>6, <2>7 DEF Next
<1> QED BY <1>1, <1>2, <1>3, <1>4

\* TransportInv is an invariant.
LEMMA TransportInvariant == Spec => []TransportInv
<1> QED BY TransportInit, TransportStep, PTL DEF Spec

\* Rows, jobs, attempts and the sweeps of the relays stay what the outbox table and
\* the queue hold, whatever events, subscribers and relays there are.
THEOREM TransportIsWellTyped == Spec => []TypeOK
<1>1. TransportInv => TypeOK
  BY DEF TransportInv
<1> QED BY <1>1, TransportInvariant, PTL

\* The relay marks a row published only after a job was added for every interested
\* subscriber, however many relays work on the same rows, fail and crash.
THEOREM PublishedEventsAreQueued == Spec => []PublishedIsQueued
<1>1. TransportInv => PublishedIsQueued
  BY DEF TransportInv
<1> QED BY <1>1, TransportInvariant, PTL

\* Relays that enqueue the same event twice make one job: a handler runs again only
\* after its worker was lost or the queue forgot the finished job.
THEOREM DuplicatesAlwaysCollapse == Spec => []DuplicatesCollapse
<1>1. TransportInv => DuplicatesCollapse
  BY DEF TransportInv, DuplicatesCollapse, OneRunPerJob, TypeOK
<1> QED BY <1>1, TransportInvariant, PTL

\* A step of the transport commits an event, has a handler run, sets a delivery aside
\* or leaves the outcome as it is.
LEMMA StepIsAPromiseStep ==
    ASSUME TransportInv, [Next]_vars PROVE [Promise!Next]_Outcome
<1> USE DEF TransportInv
<1>a. ASSUME \A d \in Deliveries : /\ outbox'[d[1]] = "none" <=> outbox[d[1]] = "none"
                                   /\ runs'[d] = runs[d]
                                   /\ d \in exhausted' <=> d \in exhausted
      PROVE  Outcome' = Outcome
  BY <1>a DEF Outcome
<1>b. ASSUME NEW d \in Deliveries, job[d] = "active",
             UNCHANGED outbox,
             \A c \in Deliveries \ {d} :
                /\ runs'[c] = runs[c]
                /\ c \in exhausted' <=> c \in exhausted,
             \/ runs'[d] = runs[d] + 1
             \/ runs'[d] = runs[d] /\ d \in exhausted'
      PROVE  [Promise!Next]_Outcome
  <2>1. outbox[d[1]] # "none"
    BY <1>b DEF NothingAhead
  <2>2. Outcome' = [Outcome EXCEPT ![d] = Outcome'[d]]
    <3>1. ASSUME NEW c \in Deliveries, c # d PROVE Outcome'[c] = Outcome[c]
      <4>1. /\ outbox' = outbox
            /\ runs'[c] = runs[c]
            /\ c \in exhausted' <=> c \in exhausted
        BY <1>b, <3>1
      <4>2. c \in Deliveries'
        BY DEF Deliveries
      <4> QED BY <4>1, <4>2 DEF Outcome
    <3>2. Outcome = [c \in Deliveries |-> Outcome[c]]
          /\ Outcome' = [c \in Deliveries |-> Outcome'[c]]
      BY DEF Outcome
    <3> HIDE DEF Outcome
    <3> QED BY <3>1, <3>2
  <2>3. \/ Outcome'[d] = Outcome[d]
        \/ Outcome[d] \in {"owed", "failed"} /\ Outcome'[d] = "handled"
        \/ Outcome[d] = "owed" /\ Outcome'[d] = "failed"
    BY <1>b, <2>1 DEF Outcome, TypeOK
  <2>4. Outcome'[d] = Outcome[d] => Outcome' = Outcome
    BY <2>2 DEF Outcome
  <2>5. CASE Outcome'[d] # Outcome[d]
    <3>1. Promise!Settle(d)
      BY <2>2, <2>3, <2>5 DEF Promise!Settle
    <3> QED BY <3>1 DEF Promise!Next
  <2> QED BY <2>4, <2>5
<1>u. CASE UNCHANGED vars
  BY <1>a, <1>u DEF vars, rows, observed
<1>1. ASSUME NEW e \in Events, PublishWithin(e) PROVE Promise!Next
  <2>1. PICK d \in Deliveries : d[1] = e
    <3>1. PICK s : s \in Interested[e]
      BY InterestedAssumption
    <3>2. <<e, s>> \in Deliveries
      BY <3>1, InterestedAssumption DEF Deliveries
    <3> QED BY <3>2
  <2>2. Promise!Announce(EventOfDelivery(d))
    <3>1. \A c \in Deliveries : c[1] = e => Outcome[c] = "none"
      BY <1>1 DEF PublishWithin, Outcome
    <3>2. ASSUME NEW c \in Deliveries
          PROVE  Outcome'[c] = IF c[1] = e THEN "owed" ELSE Outcome[c]
      BY <1>1 DEF PublishWithin, observed, TypeOK, NothingAhead, Outcome, Deliveries
    <3>3. Outcome' = [c \in Deliveries |-> Outcome'[c]]
      BY DEF Outcome
    <3> QED BY <2>1, <3>1, <3>2, <3>3 DEF Promise!Announce, EventOfDelivery
  <2> QED BY <2>2 DEF Promise!Next
<1>2. ASSUME NEW r \in Relays, \/ ReadPending(r) \/ Enqueue(r) \/ EnqueueFails(r)
                               \/ RelayCrash(r)
      PROVE  Outcome' = Outcome
  BY <1>a, <1>2 DEF ReadPending, Enqueue, EnqueueFails, RelayCrash, jobs, observed
<1>3. ASSUME NEW r \in Relays, MarkPublished(r) PROVE Outcome' = Outcome
  <2>1. \A e \in Events : outbox'[e] = "none" <=> outbox[e] = "none"
    BY <1>3 DEF MarkPublished, TypeOK, SweepsAreSound, SoundSweep, Committed
  <2> QED BY <1>3, <1>a, <2>1 DEF MarkPublished, observed, Deliveries
<1>4. ASSUME NEW d \in Deliveries, Take(d) \/ Evict(d) PROVE Outcome' = Outcome
  BY <1>4, <1>a DEF Take, Evict, rows, observed
<1>5. ASSUME NEW d \in Deliveries, Complete(d) PROVE [Promise!Next]_Outcome
  BY <1>5, <1>b DEF Complete, Handled, rows, TypeOK
<1>6. ASSUME NEW d \in Deliveries, Fail(d) PROVE [Promise!Next]_Outcome
  <2>1. CASE attempts[d] + 1 < MaxAttempts
    BY <1>6, <1>a, <2>1 DEF Fail, rows
  <2>2. CASE ~(attempts[d] + 1 < MaxAttempts)
    BY <1>6, <1>b, <2>2 DEF Fail, FailForGood, rows
  <2> QED BY <2>1, <2>2
<1>7. ASSUME NEW d \in Deliveries, WorkerCrash(d) PROVE [Promise!Next]_Outcome
  <2>1. CASE Handled(d)
    <3>1. runs'[d] = runs[d] + 1 /\ \A c \in Deliveries \ {d} : runs'[c] = runs[c]
      BY <2>1 DEF Handled, TypeOK
    <3>2. \A c \in Deliveries \ {d} : c \in exhausted' <=> c \in exhausted
      BY <1>7 DEF WorkerCrash, FailForGood
    <3> QED BY <1>7, <1>b, <3>1, <3>2 DEF WorkerCrash, rows
  <2>2. CASE UNCHANGED runs /\ d \notin stalled
    BY <1>7, <1>a, <2>2 DEF WorkerCrash, rows
  <2>3. CASE UNCHANGED runs /\ d \in stalled
    BY <1>7, <1>b, <2>3 DEF WorkerCrash, FailForGood, rows
  <2> QED BY <1>7, <2>1, <2>2, <2>3 DEF WorkerCrash
<1> QED BY <1>u, <1>1, <1>2, <1>3, <1>4, <1>5, <1>6, <1>7 DEF Next

\* Nothing is promised at first.
LEMMA InitIsAPromiseInit == Init => Promise!Init
BY DEF Init, Outcome, Promise!Init, Deliveries

\* The transport implements ReliableDelivery, as far as safety goes: an event is owed
\* to all its subscribers from the commit that publishes it, each step settles at most
\* one of the debts, by a run of the handler or by its failure for good, and no settled
\* debt is owed again.  That every debt is settled in the end is left to the run.
THEOREM DeliveryIsAtLeastOnce == Spec => Promise!Init /\ [][Promise!Next]_Outcome
<1>1. Init => Promise!Init
  BY InitIsAPromiseInit
<1>2. TransportInv /\ [Next]_vars => [Promise!Next]_Outcome
  BY StepIsAPromiseStep
<1> QED BY <1>1, <1>2, TransportInvariant, PTL DEF Spec

-----------------------------------------------------------------------------
\* The scheduler.

\* Values of the next-occurrence column.
NextInstants == {Null} \cup Instants

\* Instants are naturals, none of them the null, and the occurrences are finitely many.
LEMMA OccurrencesAreNaturals ==
    /\ Occurrences \subseteq Nat /\ Null \notin Occurrences
    /\ Occurrences \subseteq Instants /\ Instants \subseteq Nat
    /\ \A o \in Occurrences : StartsAt <= o /\ o < EndsAt
    /\ IsFiniteSet(Occurrences)
<1>1. /\ Occurrences \subseteq Nat /\ Null \notin Occurrences
      /\ Occurrences \subseteq Instants /\ Instants \subseteq Nat
      /\ \A o \in Occurrences : StartsAt <= o /\ o < EndsAt
  <2>1. /\ Occurrences \subseteq Instants
        /\ \A o \in Occurrences : StartsAt <= o /\ o < EndsAt
    BY DEF Occurrences
  <2>2. Null \notin Nat
    BY DEF Null
  <2> QED BY <2>1, <2>2, InstantsAssumption
<1>2. EndsAt \in Nat
  BY SchedulingAssumption
<1>3. IsFiniteSet(0..EndsAt)
  BY <1>2, FS_Interval
<1>4. Occurrences \in SUBSET (0..EndsAt)
  BY <1>1, <1>2
<1> QED BY <1>1, <1>3, <1>4, FS_Subset

\* The earliest of some instants is one of them and after none; of none it is null.
LEMMA EarliestIsLeast ==
    ASSUME NEW S \in SUBSET Nat
    PROVE  /\ S = {} => Earliest(S) = Null
           /\ S # {} => Earliest(S) \in S /\ \A i \in S : Earliest(S) <= i
<1>1. S # {} => \E m \in S : \A n \in S : m <= n
  BY LeastExists
<1> QED BY <1>1 DEF Earliest

\* Both searches end with null or an instant.
LEMMA NextIsAnInstant ==
    ASSUME NEW from \in Int
    PROVE  NextInstant(from) \in NextInstants /\ NextOccurrence(from) \in NextInstants
<1> DEFINE reach == {i \in Instants : from <= i /\ i < from + Horizon}
<1>1. reach \in SUBSET Nat /\ reach \subseteq Instants
  BY OccurrencesAreNaturals
<1>2. NextInstant(from) = Earliest(reach)
  BY DEF NextInstant
<1> HIDE DEF reach
<1>3. NextInstant(from) \in NextInstants
  BY <1>1, <1>2, EarliestIsLeast DEF NextInstants
<1> QED BY <1>3 DEF NextOccurrence, NextInstants

\* The cadence has no gap the search cannot see across: from creation on, as long as an
\* occurrence is left, some instant follows within the horizon.
HorizonSpansGaps ==
    \A from \in 0..EndsAt :
        (\E o \in Occurrences : from <= o)
            => \E i \in Instants : from <= i /\ i < from + Horizon

\* Then the search fails only when nothing is left.
LEMMA NothingLeftWithoutNext ==
    ASSUME HorizonSpansGaps, NEW from \in Nat, NextOccurrence(from) = Null,
           NEW o \in Occurrences
    PROVE  o < from
<1> SUFFICES ASSUME ~(o < from) PROVE FALSE
  OBVIOUS
<1> DEFINE reach == {i \in Instants : from <= i /\ i < from + Horizon}
<1>0. /\ o \in Nat /\ o \in Instants /\ o < EndsAt /\ EndsAt \in Nat /\ Horizon \in Nat
      /\ reach \in SUBSET Nat /\ Null \notin Nat
  <2>1. /\ o \in Nat /\ o \in Instants /\ o < EndsAt /\ EndsAt \in Nat /\ Horizon \in Nat
    BY OccurrencesAreNaturals, SchedulingAssumption
  <2>2. reach \in SUBSET Nat
    BY OccurrencesAreNaturals
  <2>3. Null \notin Nat
    BY DEF Null
  <2> QED BY <2>1, <2>2, <2>3
<1>1. from \in 0..EndsAt /\ from <= o
  BY <1>0
<1>2. reach # {}
  BY <1>1 DEF HorizonSpansGaps
<1>3. NextInstant(from) = Earliest(reach)
  BY DEF NextInstant
<1>4. NextInstant(from) \in reach /\ \A i \in reach : NextInstant(from) <= i
  <2> HIDE DEF reach
  <2> QED BY <1>0, <1>2, <1>3, EarliestIsLeast
<1>5. CASE o < from + Horizon
  <2>1. o \in reach
    BY <1>0, <1>1, <1>5
  <2>2. NextInstant(from) < EndsAt /\ NextInstant(from) \in Nat
    BY <1>0, <1>4, <2>1
  <2> QED BY <1>0, <2>2 DEF NextOccurrence
<1>6. CASE ~(o < from + Horizon)
  <2>1. NextInstant(from) < EndsAt /\ NextInstant(from) \in Nat
    BY <1>0, <1>4, <1>6
  <2> QED BY <1>0, <2>1 DEF NextOccurrence
<1> QED BY <1>5, <1>6

\* Rows a pass may have planned.
Plans == UNION {[S -> {"PENDING", "SKIPPED"}] : S \in SUBSET Occurrences}

\* A plan covers occurrences only, and Planned all of its window.
LEMMA PlansOK ==
    /\ <<>> \in Plans /\ DOMAIN <<>> = {}
    /\ Planned \in Plans /\ DOMAIN Planned = InWindow
    /\ \A p \in Plans : /\ DOMAIN p \subseteq Occurrences
                        /\ \A o \in DOMAIN p : p[o] \in {"PENDING", "SKIPPED"}
<1>1. <<>> \in [{} -> {"PENDING", "SKIPPED"}] /\ DOMAIN <<>> = {}
  OBVIOUS
<1>2. InWindow \in SUBSET Occurrences
  BY DEF InWindow
<1>3. Planned \in [InWindow -> {"PENDING", "SKIPPED"}]
  BY DEF Planned
<1> QED BY <1>1, <1>2, <1>3 DEF Plans

\* What a pass of the generator and an advance worker hold between their calls.
Passes == [stage : {"idle", "persist", "readCursor", "writeCursor", "imminent"},
           through : 0..(MaxTime + Lookahead), planned : Plans, status : DefinitionStatus,
           now : 0..MaxTime]

Advances == [stage : {"idle", "read", "update"}, job : Jobs \cup {<<>>},
             now : 0..MaxTime, read : InstanceStatus]

\* What the open passes hold.
PassesOK ==
    /\ generator \in [Generators -> Passes]
    /\ advancer \in [Advancers -> Advances]
    /\ resuming \in [stage : {"idle", "read", "write"}, next : NextInstants]

\* A worker holds an active job of its own, and moves a row on from a status with
\* a rule.
AdvancersOK ==
    /\ \A a \in Advancers :
         /\ advancer[a].stage # "idle" =>
              advancer[a].job \in Jobs /\ advanceJob[advancer[a].job] = "active"
         /\ advancer[a].stage = "update" => advancer[a].read \in Advanceable
    /\ \A a, b \in Advancers :
         a # b /\ advancer[a].stage # "idle" /\ advancer[b].stage # "idle"
           => advancer[a].job # advancer[b].job

\* A job that is to run, or runs, has attempts left.
AdvanceAttemptsLeft ==
    \A j \in Jobs :
        advanceJob[j] \in {"delayed", "active"} => advanceAttempts[j] < MaxAdvanceAttempts

\* The inductive invariant of the scheduler's types.
SchedulerShapes == SchedulerTypeOK /\ PassesOK /\ AdvancersOK /\ AdvanceAttemptsLeft

\* The statuses along the path and their ranks.
LEMMA PathOK ==
    /\ \A s \in Advanceable : After(s) \in InstanceStatus /\ s \in InstanceStatus
    /\ Advanceable = {"PENDING", "OPEN", "CLOSING", "CLOSED"}
    /\ InstanceStatus =
           {"PENDING", "OPEN", "CLOSING", "CLOSED", "REVIEW_DUE", "none", "SKIPPED"}
    /\ Rank("PENDING") = 1 /\ Rank("OPEN") = 2 /\ Rank("CLOSING") = 3
    /\ Rank("CLOSED") = 4 /\ Rank("REVIEW_DUE") = 5
    /\ After("PENDING") = "OPEN" /\ After("OPEN") = "CLOSING"
    /\ After("CLOSING") = "CLOSED" /\ After("CLOSED") = "REVIEW_DUE"
<1>1. Path[1] = "PENDING" /\ Path[2] = "OPEN" /\ Path[3] = "CLOSING" /\ Path[4] = "CLOSED"
      /\ Path[5] = "REVIEW_DUE"
  BY DEF Path
<1>2. 1..5 = {1, 2, 3, 4, 5} /\ 1..4 = {1, 2, 3, 4}
  OBVIOUS
<1>3. /\ Advanceable = {"PENDING", "OPEN", "CLOSING", "CLOSED"}
      /\ InstanceStatus =
             {"PENDING", "OPEN", "CLOSING", "CLOSED", "REVIEW_DUE", "none", "SKIPPED"}
  BY <1>1, <1>2 DEF Advanceable, InstanceStatus
<1>4. /\ Rank("PENDING") = 1 /\ Rank("OPEN") = 2 /\ Rank("CLOSING") = 3
      /\ Rank("CLOSED") = 4 /\ Rank("REVIEW_DUE") = 5
  BY <1>1, <1>2 DEF Rank
<1>5. /\ After("PENDING") = "OPEN" /\ After("OPEN") = "CLOSING"
      /\ After("CLOSING") = "CLOSED" /\ After("CLOSED") = "REVIEW_DUE"
  BY <1>1, <1>4 DEF After
<1> QED BY <1>3, <1>4, <1>5

\* The milestones up to a status: none at first, and each status adds itself, which
\* is not among those before.
LEMMA MilestonesOK ==
    /\ SubSeq(Path, 2, 1) = <<>>
    /\ \A i \in 1..4 :
         /\ SubSeq(Path, 2, i + 1) = Append(SubSeq(Path, 2, i), Path[i + 1])
         /\ \A n \in 1..Len(SubSeq(Path, 2, i)) : SubSeq(Path, 2, i)[n] # Path[i + 1]
<1>1. Path \in Seq(InstanceStatus) /\ Len(Path) = 5
  BY DEF Path, InstanceStatus
<1>2. \A i \in 1..5 : /\ SubSeq(Path, 2, i) \in Seq(InstanceStatus)
                      /\ Len(SubSeq(Path, 2, i)) = i - 1
                      /\ \A n \in 1..(i - 1) : SubSeq(Path, 2, i)[n] = Path[n + 1]
  <2> SUFFICES ASSUME NEW i \in 1..5
               PROVE  /\ SubSeq(Path, 2, i) \in Seq(InstanceStatus)
                      /\ Len(SubSeq(Path, 2, i)) = i - 1
                      /\ \A n \in 1..(i - 1) : SubSeq(Path, 2, i)[n] = Path[n + 1]
    OBVIOUS
  <2> HIDE DEF Path
  <2>1. Len(SubSeq(Path, 2, i)) = i - 1
    BY <1>1
  <2>2. \A n \in 1..(i - 1) : SubSeq(Path, 2, i)[n] = Path[n + 1]
    BY <1>1
  <2>3. SubSeq(Path, 2, i) \in Seq(InstanceStatus)
    BY <1>1, SubSeqProperties
  <2> QED BY <2>1, <2>2, <2>3
<1>3. SubSeq(Path, 2, 1) = <<>>
  BY <1>2
<1>4. ASSUME NEW i \in 1..4
      PROVE  SubSeq(Path, 2, i + 1) = Append(SubSeq(Path, 2, i), Path[i + 1])
  BY <1>1, <1>2
<1>5. ASSUME NEW i \in 1..4, NEW n \in 1..Len(SubSeq(Path, 2, i))
      PROVE  SubSeq(Path, 2, i)[n] # Path[i + 1]
  <2>1. \A m \in 2..i : Path[m] # Path[i + 1]
    BY DEF Path
  <2> QED BY <1>2, <2>1
<1> QED BY <1>3, <1>4, <1>5

\* No row, no job and no open pass at first.
LEMMA SchedulerInitial ==
    SchedulerInit => SchedulerShapes /\ EventsMatchStatus
<1> SUFFICES ASSUME SchedulerInit PROVE SchedulerShapes /\ EventsMatchStatus
  OBVIOUS
<1> USE DEF SchedulerInit
<1>0. /\ MaxTime \in Nat /\ Lookahead \in Nat
      /\ MaxAdvanceAttempts \in Nat /\ 0 < MaxAdvanceAttempts
  BY SchedulingAssumption
<1>1. SchedulerTypeOK
  <2>1. definition.next \in {Null} \cup Instants
    BY NextIsAnInstant, SchedulingAssumption DEF NextInstants
  <2>2. \A g \in Generators : DOMAIN generator[g].planned \subseteq Occurrences
    BY DEF GeneratorIdle
  <2>3. \A a \in Advancers : advancer[a].read \in InstanceStatus
    BY DEF AdvancerIdle, InstanceStatus
  <2>4. row \in [Occurrences -> InstanceStatus]
    BY DEF InstanceStatus
  <2> QED BY <1>0, <2>1, <2>2, <2>3, <2>4 DEF SchedulerTypeOK, DefinitionStatus
<1>2. PassesOK
  <2>1. GeneratorIdle \in Passes
    BY <1>0, PlansOK DEF GeneratorIdle, Passes, DefinitionStatus
  <2>2. AdvancerIdle \in Advances
    BY <1>0 DEF AdvancerIdle, Advances, InstanceStatus
  <2> QED BY <2>1, <2>2 DEF PassesOK, NextInstants
<1>3. AdvancersOK
  BY DEF AdvancersOK, AdvancerIdle
<1>4. AdvanceAttemptsLeft
  BY DEF AdvanceAttemptsLeft
<1>5. EventsMatchStatus
  BY DEF EventsMatchStatus
<1> QED BY <1>1, <1>2, <1>3, <1>4, <1>5 DEF SchedulerShapes

\* Adding jobs touches neither the jobs that are there nor their attempts.
LEMMA AddAdvanceJobsOK ==
    ASSUME NEW occs, AddAdvanceJobs(occs),
           advanceJob \in [Jobs -> {"none", "delayed", "active", "completed", "failed"}],
           advanceAttempts \in [Jobs -> 0..MaxAdvanceAttempts], AdvanceAttemptsLeft
    PROVE  /\ advanceJob' \in [Jobs -> {"none", "delayed", "active", "completed", "failed"}]
           /\ advanceAttempts' \in [Jobs -> 0..MaxAdvanceAttempts]
           /\ AdvanceAttemptsLeft'
           /\ \A j \in Jobs : advanceJob[j] = "active" => advanceJob'[j] = "active"
<1> DEFINE new == {j \in {JobId(o, row[o]) : o \in occs} : advanceJob[j] = "none"}
<1>1. /\ advanceJob' = [j \in Jobs |-> IF j \in new THEN "delayed" ELSE advanceJob[j]]
      /\ advanceAttempts' = [j \in Jobs |-> IF j \in new THEN 0 ELSE advanceAttempts[j]]
  BY DEF AddAdvanceJobs
<1>2. \A j \in new : advanceJob[j] = "none"
  OBVIOUS
<1> HIDE DEF new
<1>3. MaxAdvanceAttempts \in Nat /\ 0 < MaxAdvanceAttempts
  BY SchedulingAssumption
<1>4. AdvanceAttemptsLeft'
  <2> SUFFICES ASSUME NEW j \in Jobs, advanceJob'[j] \in {"delayed", "active"}
               PROVE  advanceAttempts'[j] < MaxAdvanceAttempts
    BY DEF AdvanceAttemptsLeft
  <2> QED BY <1>1, <1>3 DEF AdvanceAttemptsLeft
<1> QED BY <1>1, <1>2, <1>3, <1>4

\* Every step that has to do with neither the advance jobs nor their workers.
AdvancersAside ==
    /\ advancer' = advancer /\ advanceAttempts' \in [Jobs -> 0..MaxAdvanceAttempts]
    /\ advanceJob' \in [Jobs -> {"none", "delayed", "active", "completed", "failed"}]
    /\ AdvanceAttemptsLeft'
    /\ \A j \in Jobs : advanceJob[j] = "active" => advanceJob'[j] = "active"

\* Every step of passes, workers, operators and time keeps the shapes.
LEMMA SchedulerShapesStep ==
    ASSUME SchedulerShapes, [SchedulerNext]_schedulerVars PROVE SchedulerShapes'
<1> DEFINE AdvanceJobs == [Jobs -> {"none", "delayed", "active", "completed", "failed"}]
           Definitions == [status : DefinitionStatus,
                           cursor : {Null} \cup 0..(MaxTime + Lookahead),
                           next : {Null} \cup Instants]
<1>0. /\ SchedulerTypeOK /\ PassesOK /\ AdvancersOK /\ AdvanceAttemptsLeft
      /\ MaxTime \in Nat /\ Lookahead \in Nat /\ EndsAt \in Nat
      /\ MaxAdvanceAttempts \in Nat /\ 0 < MaxAdvanceAttempts
      /\ clock \in 0..MaxTime /\ definition \in Definitions
  BY SchedulingAssumption DEF SchedulerShapes, SchedulerTypeOK
<1>a. ASSUME AdvancersAside PROVE AdvancersOK' /\ AdvanceAttemptsLeft'
  BY <1>0, <1>a DEF AdvancersAside, AdvancersOK
<1>b. UNCHANGED <<advanceJob, advanceAttempts, advancer>> => AdvancersAside
  BY <1>0 DEF AdvancersAside, SchedulerTypeOK, AdvanceAttemptsLeft
<1>c. ASSUME AdvancersAside, definition' \in Definitions,
             row' \in [Occurrences -> InstanceStatus], UNCHANGED announced,
             generator' \in [Generators -> Passes],
             resuming' \in [stage : {"idle", "read", "write"}, next : NextInstants],
             clock' \in 0..MaxTime
      PROVE  SchedulerShapes'
  <2>1. PassesOK'
    BY <1>0, <1>c DEF PassesOK, AdvancersAside
  <2>2. \A g \in Generators : DOMAIN generator'[g].planned \subseteq Occurrences
    BY <1>c, PlansOK DEF Passes
  <2>3. SchedulerTypeOK'
    BY <1>0, <1>c, <2>2 DEF SchedulerTypeOK, AdvancersAside
  <2> QED BY <1>a, <1>c, <2>1, <2>3 DEF SchedulerShapes
<1>d. GeneratorIdle \in Passes /\ AdvancerIdle \in Advances
  BY <1>0, PlansOK DEF GeneratorIdle, Passes, DefinitionStatus, AdvancerIdle, Advances,
                       InstanceStatus
<1>e. /\ row \in [Occurrences -> InstanceStatus] /\ generator \in [Generators -> Passes]
      /\ resuming \in [stage : {"idle", "read", "write"}, next : NextInstants]
      /\ advanceJob \in AdvanceJobs /\ advanceAttempts \in [Jobs -> 0..MaxAdvanceAttempts]
      /\ advancer \in [Advancers -> Advances]
  BY <1>0 DEF SchedulerTypeOK, PassesOK
<1>f. ASSUME NEW occs, AddAdvanceJobs(occs), UNCHANGED advancer PROVE AdvancersAside
  BY <1>0, <1>e, <1>f, AddAdvanceJobsOK DEF AdvancersAside
<1> HIDE DEF Definitions
<1>u. CASE UNCHANGED schedulerVars
  BY <1>0, <1>b, <1>c, <1>e, <1>u DEF schedulerVars
<1>1. CASE AdvanceClock
  BY <1>0, <1>b, <1>c, <1>e, <1>1 DEF AdvanceClock
<1>2. CASE Tick
  <2>1. AdvancersAside
    BY <1>2, <1>f DEF Tick
  <2> QED BY <1>0, <1>c, <1>e, <1>2, <2>1 DEF Tick
<1>3. ASSUME NEW g \in Generators, BeginMaterialize(g) PROVE SchedulerShapes'
  <2> DEFINE empty == WindowEnd <= WindowStart
             stage == CASE definition.status # "ACTIVE" -> "idle"
                      [] empty \/ InWindow = {} -> "readCursor"
                      [] OTHER -> "persist"
             pass == [stage |-> stage,
                      through |-> IF empty THEN clock ELSE WindowEnd,
                      planned |-> IF empty THEN <<>> ELSE Planned,
                      status |-> "ACTIVE", now |-> clock]
  <2>1. generator' = [generator EXCEPT ![g] = IF stage = "idle" THEN GeneratorIdle ELSE pass]
    BY <1>3 DEF BeginMaterialize
  <2>2. stage \in {"idle", "persist", "readCursor"}
    OBVIOUS
  <2>3. WindowEnd \in 0..(MaxTime + Lookahead)
    BY <1>0 DEF WindowEnd, Min2
  <2>4. (IF empty THEN clock ELSE WindowEnd) \in 0..(MaxTime + Lookahead)
    BY <1>0, <2>3
  <2>5. (IF empty THEN <<>> ELSE Planned) \in Plans
    BY PlansOK
  <2> HIDE DEF empty, stage
  <2>6. pass \in Passes
    BY <1>0, <2>2, <2>4, <2>5 DEF Passes, DefinitionStatus
  <2> HIDE DEF pass
  <2>7. generator' \in [Generators -> Passes]
    BY <1>d, <1>e, <2>1, <2>6
  <2> QED BY <1>0, <1>b, <1>c, <1>e, <1>3, <2>7 DEF BeginMaterialize
<1>4. ASSUME NEW g \in Generators, Persist(g) PROVE SchedulerShapes'
  <2>1. row' \in [Occurrences -> InstanceStatus]
    <3>1. generator[g].planned \in Plans
      BY <1>e DEF Passes
    <3>2. \A o \in DOMAIN generator[g].planned : generator[g].planned[o] \in InstanceStatus
      BY <3>1, PlansOK, PathOK
    <3> QED BY <1>4, <1>e, <3>2 DEF Persist
  <2>2. definition' \in Definitions
    BY <1>0, <1>4, <1>e DEF Persist, Definitions, Passes
  <2>3. generator' \in [Generators -> Passes]
    <3>1. [generator[g] EXCEPT !.stage = "readCursor"] \in Passes
      BY <1>e DEF Passes
    <3>2. generator' = [generator EXCEPT ![g] = [generator[g] EXCEPT !.stage = "readCursor"]]
      BY <1>4 DEF Persist
    <3> QED BY <1>e, <3>1, <3>2
  <2> QED BY <1>0, <1>b, <1>c, <1>e, <1>4, <2>1, <2>2, <2>3 DEF Persist
<1>5. ASSUME NEW g \in Generators, ReadCursor(g) PROVE SchedulerShapes'
  <2>1. definition.status \in DefinitionStatus
    BY <1>0 DEF Definitions
  <2>2. [generator[g] EXCEPT !.stage = "writeCursor", !.status = definition.status] \in Passes
    BY <1>e, <2>1 DEF Passes
  <2>3. generator' = [generator EXCEPT ![g] = [generator[g] EXCEPT !.stage = "writeCursor",
                                                       !.status = definition.status]]
    BY <1>5 DEF ReadCursor
  <2>4. generator' \in [Generators -> Passes]
    BY <1>e, <2>2, <2>3
  <2> QED BY <1>0, <1>b, <1>c, <1>e, <1>5, <2>4 DEF ReadCursor
<1>6. ASSUME NEW g \in Generators, WriteCursor(g) PROVE SchedulerShapes'
  <2>1. generator[g] \in Passes
    BY <1>e
  <2>2. NextOccurrence(generator[g].through) \in {Null} \cup Instants
    <3>1. generator[g].through \in Int
      BY <1>0, <2>1 DEF Passes
    <3> QED BY <3>1, NextIsAnInstant DEF NextInstants
  <2>3. definition' \in Definitions
    BY <1>0, <1>6, <2>1, <2>2 DEF WriteCursor, Definitions, Passes, DefinitionStatus
  <2>4. [generator[g] EXCEPT !.stage = "imminent"] \in Passes
    BY <2>1 DEF Passes
  <2>5. generator' \in [Generators -> Passes]
    BY <1>6, <1>d, <1>e, <2>4 DEF WriteCursor
  <2> QED BY <1>0, <1>b, <1>c, <1>e, <1>6, <2>3, <2>5 DEF WriteCursor
<1>7. ASSUME NEW g \in Generators, ScheduleImminent(g) PROVE SchedulerShapes'
  <2>1. AdvancersAside
    BY <1>7, <1>f DEF ScheduleImminent
  <2>2. generator' \in [Generators -> Passes]
    BY <1>7, <1>d, <1>e DEF ScheduleImminent
  <2> QED BY <1>0, <1>c, <1>e, <1>7, <2>1, <2>2 DEF ScheduleImminent
<1>8. ASSUME NEW g \in Generators, MaterializeFails(g) PROVE SchedulerShapes'
  <2>1. generator' \in [Generators -> Passes]
    BY <1>8, <1>d, <1>e DEF MaterializeFails
  <2> QED BY <1>0, <1>b, <1>c, <1>e, <1>8, <2>1 DEF MaterializeFails
<1>9. CASE Pause \/ Resume \/ RecomputeRead \/ RecomputeWrite \/ Cancel
  <2>1. definition' \in Definitions
    BY <1>0, <1>9, <1>e DEF Pause, Resume, RecomputeRead, RecomputeWrite, Cancel, SetDefinition,
                       Definitions, DefinitionStatus, NextInstants
  <2>2. resuming' \in [stage : {"idle", "read", "write"}, next : NextInstants]
    <3>1. CASE RecomputeRead
      <4>1. (IF definition.cursor = Null THEN StartsAt ELSE definition.cursor) \in Int
        BY <1>0, SchedulingAssumption DEF Definitions
      <4> QED BY <3>1, <4>1, NextIsAnInstant DEF RecomputeRead
    <3>2. CASE Pause \/ Resume \/ RecomputeWrite \/ Cancel
      BY <1>e, <3>2 DEF Pause, Resume, RecomputeWrite, Cancel, NextInstants
    <3> QED BY <1>9, <3>1, <3>2
  <2>3. row' \in [Occurrences -> InstanceStatus]
    BY <1>9, <1>e DEF Pause, Resume, RecomputeRead, RecomputeWrite, Cancel, InstanceStatus
  <2>4. UNCHANGED <<advanceJob, advanceAttempts, advancer, announced, generator, clock>>
    BY <1>9 DEF Pause, Resume, RecomputeRead, RecomputeWrite, Cancel
  <2> QED BY <1>0, <1>b, <1>c, <1>e, <2>1, <2>2, <2>3, <2>4
\* The workers.
<1>g. ASSUME UNCHANGED <<definition, generator, resuming, clock>>,
             row' \in [Occurrences -> InstanceStatus],
             announced' \in [Occurrences -> Seq(InstanceStatus)],
             advanceJob' \in AdvanceJobs, advanceAttempts' \in [Jobs -> 0..MaxAdvanceAttempts],
             advancer' \in [Advancers -> Advances], AdvancersOK', AdvanceAttemptsLeft'
      PROVE  SchedulerShapes'
  <2>1. PassesOK'
    BY <1>0, <1>g DEF PassesOK
  <2>2. \A a \in Advancers : advancer'[a].read \in InstanceStatus
    BY <1>g DEF Advances
  <2>3. SchedulerTypeOK'
    BY <1>0, <1>g, <2>2 DEF SchedulerTypeOK
  <2> QED BY <1>g, <2>1, <2>3 DEF SchedulerShapes
<1>h. announced \in [Occurrences -> Seq(InstanceStatus)]
  BY <1>0 DEF SchedulerTypeOK
\* A worker that lets go of its job.
<1>i. ASSUME NEW a \in Advancers, advancer[a].stage # "idle",
             NEW status \in {"delayed", "completed", "failed"},
             advancer' = [advancer EXCEPT ![a] = AdvancerIdle],
             advanceJob' = [advanceJob EXCEPT ![advancer[a].job] = status]
      PROVE  /\ advanceJob' \in AdvanceJobs
             /\ advancer' \in [Advancers -> Advances]
             /\ AdvancersOK'
  <2>1. advancer[a].job \in Jobs
    BY <1>0, <1>i DEF AdvancersOK
  <2>2. advanceJob' \in AdvanceJobs /\ advancer' \in [Advancers -> Advances]
    BY <1>d, <1>e, <1>i, <2>1
  <2>3. \A b \in Advancers : advancer'[b].stage # "idle" => b # a /\ advancer'[b] = advancer[b]
    BY <1>e, <1>i DEF AdvancerIdle
  <2>4. \A b \in Advancers : advancer'[b].stage # "idle" =>
            /\ advancer[b].job \in Jobs /\ advancer[b].job # advancer[a].job
            /\ advanceJob[advancer[b].job] = "active"
    BY <1>0, <1>i, <2>3 DEF AdvancersOK
  <2>5. \A j \in Jobs : j # advancer[a].job => advanceJob'[j] = advanceJob[j]
    BY <1>e, <1>i
  <2>6. \A b \in Advancers : advancer'[b].stage = "update" => advancer'[b].read \in Advanceable
    <3> SUFFICES ASSUME NEW b \in Advancers, advancer'[b].stage = "update"
                 PROVE  advancer'[b].read \in Advanceable
      OBVIOUS
    <3>1. advancer'[b] = advancer[b]
      BY <2>3
    <3> QED BY <1>0, <3>1 DEF AdvancersOK
  <2>7. AdvancersOK'
    <3>1. ASSUME NEW b \in Advancers, advancer'[b].stage # "idle"
          PROVE  advancer'[b].job \in Jobs /\ advanceJob'[advancer'[b].job] = "active"
      BY <2>3, <2>4, <2>5, <3>1
    <3>2. ASSUME NEW b \in Advancers, NEW c \in Advancers, b # c,
                 advancer'[b].stage # "idle", advancer'[c].stage # "idle"
          PROVE  advancer'[b].job # advancer'[c].job
      BY <1>0, <2>3, <3>2 DEF AdvancersOK
    <3> QED BY <2>6, <3>1, <3>2 DEF AdvancersOK
  <2> QED BY <2>2, <2>7
\* A worker that goes on with its job.
<1>j. ASSUME NEW a \in Advancers, advancer[a].stage # "idle", UNCHANGED advanceJob,
             NEW pass \in Advances, advancer' = [advancer EXCEPT ![a] = pass],
             pass.job = advancer[a].job, pass.stage = "update" => pass.read \in Advanceable
      PROVE  advancer' \in [Advancers -> Advances] /\ AdvancersOK'
  <2>1. advancer' \in [Advancers -> Advances]
    BY <1>e, <1>j
  <2>2. advancer'[a] = pass /\ \A b \in Advancers \ {a} : advancer'[b] = advancer[b]
    BY <1>e, <1>j
  <2>3. AdvancersOK'
    BY <1>0, <1>j, <2>2 DEF AdvancersOK
  <2> QED BY <2>1, <2>3
<1>10. ASSUME NEW a \in Advancers, NEW o \in Occurrences, NEW s \in Advanceable,
              TakeAdvance(a, o, s)
       PROVE  SchedulerShapes'
  <2> DEFINE j == <<o, s>>
             pass == [stage |-> "read", now |-> clock, job |-> j, read |-> "none"]
  <2>1. j \in Jobs
    BY DEF Jobs
  <2>2. pass \in Advances
    BY <1>0, <2>1 DEF Advances, InstanceStatus
  <2>3. /\ advancer[a].stage = "idle" /\ advanceJob[j] = "delayed"
        /\ advanceJob' = [advanceJob EXCEPT ![j] = "active"]
        /\ advancer' = [advancer EXCEPT ![a] = pass]
        /\ UNCHANGED <<definition, row, announced, generator, advanceAttempts, resuming, clock>>
    BY <1>10 DEF TakeAdvance
  <2>4. pass.job = j /\ pass.stage = "read"
    OBVIOUS
  <2> HIDE DEF j, pass
  <2>5. advancer' \in [Advancers -> Advances] /\ advanceJob' \in AdvanceJobs
    BY <1>e, <2>1, <2>2, <2>3
  <2>6. /\ advancer'[a] = pass /\ advanceJob'[j] = "active"
        /\ \A b \in Advancers \ {a} : advancer'[b] = advancer[b]
        /\ \A i \in Jobs \ {j} : advanceJob'[i] = advanceJob[i]
    BY <1>e, <2>1, <2>3
  <2>7. AdvancersOK'
    BY <1>0, <2>1, <2>3, <2>4, <2>6 DEF AdvancersOK
  <2>8. AdvanceAttemptsLeft'
    BY <1>0, <2>1, <2>3, <2>6 DEF AdvanceAttemptsLeft
  <2> QED BY <1>e, <1>g, <1>h, <2>3, <2>5, <2>7, <2>8
<1>11. ASSUME NEW a \in Advancers, ReadInstance(a) PROVE SchedulerShapes'
  <2>0. /\ advancer[a].stage = "read"
        /\ UNCHANGED <<definition, row, announced, generator, advanceAttempts, resuming, clock>>
    BY <1>11 DEF ReadInstance
  <2> DEFINE due == row[advancer[a].job[1]] \in Advanceable
                    /\ Due(advancer[a].job[1], row[advancer[a].job[1]]) <= advancer[a].now
             pass == [advancer[a] EXCEPT !.stage = "update", !.read = row[advancer[a].job[1]]]
  <2>1. CASE due
    <3>1. pass \in Advances /\ pass.job = advancer[a].job /\ pass.read \in Advanceable
      <4>1. row[advancer[a].job[1]] \in Advanceable \cap InstanceStatus
        BY <2>1, PathOK
      <4>2. advancer[a] \in Advances
        BY <1>e
      <4> QED BY <4>1, <4>2 DEF Advances
    <3>2. advancer' = [advancer EXCEPT ![a] = pass] /\ UNCHANGED advanceJob
      BY <1>11, <2>1 DEF ReadInstance
    <3> HIDE DEF pass, due
    <3>3. advancer' \in [Advancers -> Advances] /\ AdvancersOK'
      BY <1>j, <2>0, <3>1, <3>2
    <3>4. AdvanceAttemptsLeft'
      BY <1>0, <2>0, <3>2 DEF AdvanceAttemptsLeft
    <3> QED BY <1>e, <1>g, <1>h, <2>0, <3>2, <3>3, <3>4
  <2>2. CASE ~due
    <3>1. /\ advancer' = [advancer EXCEPT ![a] = AdvancerIdle]
          /\ advanceJob' = [advanceJob EXCEPT ![advancer[a].job] = "completed"]
      BY <1>11, <2>2 DEF ReadInstance, CompleteAdvance
    <3> HIDE DEF pass, due
    <3>2. /\ advanceJob' \in AdvanceJobs /\ advancer' \in [Advancers -> Advances]
          /\ AdvancersOK'
      BY <1>i, <2>0, <3>1
    <3>3. AdvanceAttemptsLeft'
      BY <1>0, <1>e, <2>0, <3>1 DEF AdvanceAttemptsLeft
    <3> QED BY <1>e, <1>g, <1>h, <2>0, <3>2, <3>3
  <2> QED BY <2>1, <2>2
<1>12. ASSUME NEW a \in Advancers, ApplyTransition(a) PROVE SchedulerShapes'
  <2>0. /\ advancer[a].stage = "update" /\ advancer[a].read \in Advanceable
        /\ UNCHANGED <<definition, generator, advanceAttempts, resuming, clock>>
    BY <1>0, <1>12 DEF ApplyTransition, AdvancersOK
  <2> DEFINE o == advancer[a].job[1]
             from == advancer[a].read
             pass == [advancer[a] EXCEPT !.stage = "read"]
  <2>1. CASE Unmoved(o, from)
    <3>1. /\ row' = [row EXCEPT ![o] = After(from)] /\ Announce(o, After(from))
          /\ advancer' = [advancer EXCEPT ![a] = pass] /\ UNCHANGED advanceJob
      BY <1>12, <2>1 DEF ApplyTransition
    <3>2. After(from) \in InstanceStatus
      BY <2>0, PathOK
    <3>3. row' \in [Occurrences -> InstanceStatus]
      BY <1>e, <3>1, <3>2
    <3>4. announced' \in [Occurrences -> Seq(InstanceStatus)]
      <4>1. \A p \in Occurrences : Append(announced[p], After(from)) \in Seq(InstanceStatus)
        BY <1>h, <3>2
      <4>2. CASE o \in Occurrences
        BY <1>h, <3>1, <4>1, <4>2 DEF Announce
      <4>3. CASE o \notin Occurrences
        BY <1>h, <3>1, <4>3 DEF Announce
      <4> QED BY <4>2, <4>3
    <3>5. pass \in Advances /\ pass.job = advancer[a].job /\ pass.stage = "read"
      BY <1>e DEF Advances
    <3> HIDE DEF pass, o, from
    <3>6. advancer' \in [Advancers -> Advances] /\ AdvancersOK'
      BY <1>j, <2>0, <3>1, <3>5
    <3>7. AdvanceAttemptsLeft'
      BY <1>0, <2>0, <3>1 DEF AdvanceAttemptsLeft
    <3> QED BY <1>e, <1>g, <2>0, <3>1, <3>3, <3>4, <3>6, <3>7
  <2>2. CASE ~Unmoved(o, from)
    <3>1. /\ advancer' = [advancer EXCEPT ![a] = AdvancerIdle]
          /\ advanceJob' = [advanceJob EXCEPT ![advancer[a].job] = "completed"]
          /\ UNCHANGED <<row, announced>>
      BY <1>12, <2>2 DEF ApplyTransition, CompleteAdvance
    <3> HIDE DEF pass, o, from
    <3>2. /\ advanceJob' \in AdvanceJobs /\ advancer' \in [Advancers -> Advances]
          /\ AdvancersOK'
      BY <1>i, <2>0, <3>1
    <3>3. AdvanceAttemptsLeft'
      BY <1>0, <1>e, <2>0, <3>1 DEF AdvanceAttemptsLeft
    <3> QED BY <1>e, <1>g, <1>h, <2>0, <3>1, <3>2, <3>3
  <2> QED BY <2>1, <2>2
<1>13. ASSUME NEW a \in Advancers, AdvanceFails(a) PROVE SchedulerShapes'
  <2> DEFINE j == advancer[a].job
             made == advanceAttempts[j] + 1
             status == IF made < MaxAdvanceAttempts THEN "delayed" ELSE "failed"
  <2>1. /\ advancer[a].stage # "idle"
        /\ advanceAttempts' = [advanceAttempts EXCEPT ![j] = made]
        /\ advanceJob' = [advanceJob EXCEPT ![j] = status]
        /\ advancer' = [advancer EXCEPT ![a] = AdvancerIdle]
        /\ UNCHANGED <<definition, row, announced, generator, resuming, clock>>
    BY <1>13, <1>e DEF AdvanceFails
  <2>2. j \in Jobs /\ made \in 0..MaxAdvanceAttempts
    BY <1>0, <1>e, <2>1 DEF AdvancersOK, AdvanceAttemptsLeft
  <2>3. status \in {"delayed", "completed", "failed"}
    OBVIOUS
  <2>4. status = "delayed" => made < MaxAdvanceAttempts
    OBVIOUS
  <2> HIDE DEF status, made
  <2>5. /\ advanceJob' \in AdvanceJobs /\ advancer' \in [Advancers -> Advances]
        /\ AdvancersOK'
    BY <1>i, <2>1, <2>3
  <2>6. AdvanceAttemptsLeft'
    BY <1>0, <1>e, <2>1, <2>2, <2>3, <2>4 DEF AdvanceAttemptsLeft
  <2>7. advanceAttempts' \in [Jobs -> 0..MaxAdvanceAttempts]
    BY <1>e, <2>1, <2>2
  <2> QED BY <1>e, <1>g, <1>h, <2>1, <2>5, <2>6, <2>7
<1>14. ASSUME NEW j \in Jobs, ForgetJob(j) PROVE SchedulerShapes'
  <2>1. AdvancersAside
    <3>1. AdvanceAttemptsLeft'
      BY <1>0, <1>14, <1>e DEF ForgetJob, AdvanceAttemptsLeft
    <3> QED BY <1>14, <1>e, <3>1 DEF ForgetJob, AdvancersAside
  <2> QED BY <1>0, <1>c, <1>e, <1>14, <2>1 DEF ForgetJob
<1> QED
  BY <1>u, <1>1, <1>2, <1>3, <1>4, <1>5, <1>6, <1>7, <1>8, <1>9, <1>10, <1>11, <1>12, <1>13,
     <1>14 DEF SchedulerNext, GeneratorStep, AdvancerStep, TakeJob

\* Only three steps touch the rows, and one of them the events.
LEMMA RowsMoveBy ==
    ASSUME [SchedulerNext]_schedulerVars
    PROVE  \/ UNCHANGED <<row, announced>>
           \/ \E g \in Generators : Persist(g)
           \/ \E a \in Advancers : ApplyTransition(a)
           \/ Cancel
BY DEF SchedulerNext, schedulerVars, AdvanceClock, Tick, BeginMaterialize, GeneratorStep,
       ReadCursor, WriteCursor, ScheduleImminent, MaterializeFails, TakeJob, TakeAdvance,
       AdvancerStep, ReadInstance, AdvanceFails, ForgetJob, Pause, Resume, RecomputeRead,
       RecomputeWrite

\* A row moves on, or is skipped, together with its events.
LEMMA EventsStep ==
    ASSUME SchedulerShapes, EventsMatchStatus, [SchedulerNext]_schedulerVars
    PROVE  EventsMatchStatus'
<1>0. /\ row \in [Occurrences -> InstanceStatus] /\ generator \in [Generators -> Passes]
      /\ announced \in [Occurrences -> Seq(InstanceStatus)]
  BY DEF SchedulerShapes, SchedulerTypeOK, PassesOK
<1>1. CASE UNCHANGED <<row, announced>>
  BY <1>1 DEF EventsMatchStatus
<1>2. ASSUME NEW g \in Generators, Persist(g) PROVE EventsMatchStatus'
  <2> SUFFICES ASSUME NEW o \in Occurrences
               PROVE  announced'[o] = IF row'[o] \in {"none", "SKIPPED"} THEN <<>>
                                      ELSE SubSeq(Path, 2, Rank(row'[o]))
    BY DEF EventsMatchStatus
  <2>1. UNCHANGED announced
    BY <1>2 DEF Persist
  <2>2. CASE row'[o] = row[o]
    BY <2>1, <2>2 DEF EventsMatchStatus
  <2>3. CASE row'[o] # row[o]
    <3>1. row[o] = "none" /\ row'[o] \in {"PENDING", "SKIPPED"}
      <4>1. generator[g].planned \in Plans
        BY <1>0 DEF Passes
      <4> QED BY <1>2, <2>3, <4>1, PlansOK DEF Persist
    <3>2. announced[o] = <<>>
      BY <3>1 DEF EventsMatchStatus
    <3> QED BY <2>1, <3>1, <3>2, PathOK, MilestonesOK
  <2> QED BY <2>2, <2>3
<1>3. ASSUME NEW a \in Advancers, ApplyTransition(a) PROVE EventsMatchStatus'
  <2> DEFINE n == advancer[a].job[1]
             from == advancer[a].read
             next == After(from)
  <2>1. from \in Advanceable
    BY <1>3 DEF ApplyTransition, SchedulerShapes, AdvancersOK
  <2>2. CASE ~Unmoved(n, from)
    BY <1>3, <2>2 DEF ApplyTransition, EventsMatchStatus
  <2>3. CASE Unmoved(n, from)
    <3>1. /\ row[n] = from /\ row' = [row EXCEPT ![n] = next]
          /\ announced' = [announced EXCEPT ![n] =
                IF \E i \in 1..Len(@) : @[i] = next THEN @ ELSE Append(@, next)]
      BY <1>3, <2>3 DEF ApplyTransition, Unmoved, Announce
    <3>2. n \in Occurrences
      BY <1>3 DEF ApplyTransition, SchedulerShapes, AdvancersOK, Jobs
    <3>3. PICK i \in 1..4 : /\ from = Path[i] /\ next = Path[i + 1]
                            /\ Rank(from) = i /\ Rank(next) = i + 1
      <4>1. from = "PENDING" \/ from = "OPEN" \/ from = "CLOSING" \/ from = "CLOSED"
        BY <2>1, PathOK
      <4>2. Path[1] = "PENDING" /\ Path[2] = "OPEN" /\ Path[3] = "CLOSING"
            /\ Path[4] = "CLOSED" /\ Path[5] = "REVIEW_DUE"
        BY DEF Path
      <4> QED BY <4>1, <4>2, PathOK
    <3>4. from \notin {"none", "SKIPPED"} /\ next \notin {"none", "SKIPPED"}
      BY <2>1, PathOK
    <3> HIDE DEF n, from, next
    <3>5. announced[n] = SubSeq(Path, 2, i)
      BY <3>1, <3>2, <3>3, <3>4 DEF EventsMatchStatus
    <3>6. \A p \in 1..Len(announced[n]) : announced[n][p] # next
      BY <3>3, <3>5, MilestonesOK
    <3>7. announced'[n] = SubSeq(Path, 2, i + 1)
      <4>1. \A o \in Occurrences : announced'[o] = IF o = n THEN
               (IF \E p \in 1..Len(announced[n]) : announced[n][p] = next
                THEN announced[n] ELSE Append(announced[n], next)) ELSE announced[o]
        BY <1>0, <3>1
      <4> QED BY <3>2, <3>3, <3>5, <3>6, <4>1, MilestonesOK
    <3>8. row'[n] = next
      BY <1>0, <3>1, <3>2
    <3>9. ASSUME NEW o \in Occurrences, o # n
          PROVE  announced'[o] = announced[o] /\ row'[o] = row[o]
      BY <1>0, <3>1, <3>9
    <3> QED BY <3>3, <3>4, <3>7, <3>8, <3>9 DEF EventsMatchStatus
  <2> QED BY <2>2, <2>3
<1>4. CASE Cancel
  <2> SUFFICES ASSUME NEW o \in Occurrences
               PROVE  announced'[o] = IF row'[o] \in {"none", "SKIPPED"} THEN <<>>
                                      ELSE SubSeq(Path, 2, Rank(row'[o]))
    BY DEF EventsMatchStatus
  <2>1. UNCHANGED announced
    BY <1>4 DEF Cancel
  <2>2. CASE row[o] # "PENDING"
    BY <1>4, <2>1, <2>2 DEF Cancel, EventsMatchStatus
  <2>3. CASE row[o] = "PENDING"
    <3>1. announced[o] = SubSeq(Path, 2, 1)
      BY <2>3, PathOK DEF EventsMatchStatus
    <3>2. row'[o] = "SKIPPED"
      BY <1>4, <2>3 DEF Cancel
    <3> QED BY <2>1, <3>1, <3>2, MilestonesOK
  <2> QED BY <2>2, <2>3
<1> QED BY <1>1, <1>2, <1>3, <1>4, RowsMoveBy

\* Shapes and events, for every run.
LEMMA SchedulerShapesInvariant == SchedulerSpec => [](SchedulerShapes /\ EventsMatchStatus)
<1>1. SchedulerShapes /\ EventsMatchStatus /\ [SchedulerNext]_schedulerVars
        => (SchedulerShapes /\ EventsMatchStatus)'
  BY SchedulerShapesStep, EventsStep
<1> QED BY <1>1, SchedulerInitial, PTL DEF SchedulerSpec

\* Definition, rows, jobs and passes stay what their tables and the queue hold: a
\* cursor within the horizon, rows of known statuses, attempts within the retries.
THEOREM SchedulerIsWellTyped == SchedulerSpec => []SchedulerTypeOK
<1>1. SchedulerShapes => SchedulerTypeOK
  BY DEF SchedulerShapes
<1> QED BY <1>1, SchedulerShapesInvariant, PTL

\* A row's status and the events of its course agree at every instant: one event for
\* each milestone passed, in the order of the path, whatever advance jobs are repeated,
\* fail or race on the row.
THEOREM EventsAlwaysMatchStatus == SchedulerSpec => []EventsMatchStatus
BY SchedulerShapesInvariant, PTL

\* A pass can list what its window holds: occurrencesBetween() is asked for one more
\* than the catch-up cap, and the window is no longer than the look-back and the
\* lookahead together.
RoomForWindow ==
    \A from, to \in 0..EndsAt :
        to <= from + CatchUpWindow + Lookahead =>
            Cardinality({o \in Occurrences : from <= o /\ o < to}) <= MaxCatchUp + 1

\* Then an open window is listed to its end.
LEMMA WindowIsListed ==
    ASSUME RoomForWindow, SchedulerShapes, ~(WindowEnd <= WindowStart),
           NEW o \in Occurrences, WindowStart <= o, o < WindowEnd
    PROVE  o \in InWindow
<1>0. /\ clock \in Nat /\ definition.cursor \in {Null} \cup Nat
      /\ StartsAt \in Nat /\ EndsAt \in Nat /\ Lookahead \in Nat /\ CatchUpWindow \in Nat
      /\ MaxCatchUp \in Nat
  BY SchedulingAssumption DEF SchedulerShapes, SchedulerTypeOK
<1>1. /\ WindowStart \in 0..EndsAt /\ WindowEnd \in 0..EndsAt
      /\ WindowEnd <= WindowStart + CatchUpWindow + Lookahead
  BY <1>0 DEF WindowStart, WindowEnd, Min2, Max2, Null
<1> DEFINE window == {p \in Occurrences : WindowStart <= p /\ p < WindowEnd}
           before == {p \in window : p < o}
<1>2. IsFiniteSet(window) /\ Cardinality(window) <= MaxCatchUp + 1
  <2>1. window \in SUBSET Occurrences
    OBVIOUS
  <2>2. Cardinality(window) <= MaxCatchUp + 1
    BY <1>1 DEF RoomForWindow
  <2> HIDE DEF window
  <2> QED BY <2>1, <2>2, OccurrencesAreNaturals, FS_Subset
<1>3. o \in window /\ before \in SUBSET (window \ {o}) /\ o \in Nat
  BY OccurrencesAreNaturals
<1>4. InWindow = {p \in window : Cardinality({q \in window : q < p}) < MaxCatchUp + 1}
  BY DEF InWindow
<1>5. Cardinality(before) < MaxCatchUp + 1
  <2> HIDE DEF window, before
  <2>1. /\ IsFiniteSet(window \ {o}) /\ Cardinality(window \ {o}) = Cardinality(window) - 1
        /\ Cardinality(window) \in Nat
    BY <1>2, <1>3, FS_RemoveElement, FS_CardinalityType
  <2>2. /\ Cardinality(before) <= Cardinality(window \ {o})
        /\ Cardinality(before) \in Nat
    BY <1>3, <2>1, FS_Subset, FS_CardinalityType
  <2> QED BY <1>0, <1>2, <2>1, <2>2
<1> QED BY <1>3, <1>4, <1>5

\* What an open pass is about to move the cursor past has its row, is in its plan or
\* is too old; and it completes the definition again only if nothing is left.
PassesMissNothing ==
    \A g \in Generators : \A o \in Occurrences :
        /\ generator[g].stage = "persist" /\ o < generator[g].through /\ Forgotten(o)
             => o \in DOMAIN generator[g].planned
        /\ generator[g].stage \in {"readCursor", "writeCursor", "imminent"}
             /\ o < generator[g].through => ~Forgotten(o)
        /\ generator[g].stage = "writeCursor" /\ generator[g].status = "COMPLETED"
             => ~Forgotten(o)

\* A row is never removed and time does not go back.
LEMMA NeverForgottenAgain ==
    ASSUME SchedulerShapes, [SchedulerNext]_schedulerVars, NEW o \in Occurrences, ~Forgotten(o)
    PROVE  ~Forgotten(o)'
<1>0. /\ row \in [Occurrences -> InstanceStatus] /\ generator \in [Generators -> Passes]
      /\ clock \in Nat /\ CatchUpWindow \in Nat /\ o \in Nat
  BY OccurrencesAreNaturals, SchedulingAssumption DEF SchedulerShapes, SchedulerTypeOK, PassesOK
<1>1. clock' = clock \/ clock' = clock + 1
  BY DEF SchedulerNext, schedulerVars, AdvanceClock, Tick, BeginMaterialize, GeneratorStep,
       Persist, ReadCursor, WriteCursor, ScheduleImminent, MaterializeFails, TakeJob, TakeAdvance,
       AdvancerStep, ReadInstance, ApplyTransition, AdvanceFails, ForgetJob, Pause, Resume,
       RecomputeRead, RecomputeWrite, Cancel
<1>2. row[o] # "none" => row'[o] # "none"
  <2>1. CASE UNCHANGED <<row, announced>>
    BY <2>1
  <2>2. ASSUME NEW g \in Generators, Persist(g) PROVE row[o] # "none" => row'[o] # "none"
    BY <2>2 DEF Persist
  <2>3. ASSUME NEW a \in Advancers, ApplyTransition(a)
        PROVE  row[o] # "none" => row'[o] # "none"
    <3>1. advancer[a].read \in Advanceable
      BY <2>3 DEF ApplyTransition, SchedulerShapes, AdvancersOK
    <3>2. After(advancer[a].read) # "none"
      BY <3>1, PathOK
    <3> QED BY <1>0, <2>3, <3>2 DEF ApplyTransition
  <2>4. CASE Cancel
    BY <2>4 DEF Cancel
  <2> QED BY <2>1, <2>2, <2>3, <2>4, RowsMoveBy
<1> QED BY <1>0, <1>1, <1>2 DEF Forgotten

\* No cursor and no open pass at first.
LEMMA NoGapInitial == SchedulerInit => NoGap /\ PassesMissNothing
<1>1. SchedulerInit => NoGap
  BY OccurrencesAreNaturals DEF SchedulerInit, NoGap, Null
<1>2. SchedulerInit => PassesMissNothing
  BY DEF SchedulerInit, PassesMissNothing, GeneratorIdle
<1> QED BY <1>1, <1>2

\* The cursor moves only past what has its row or is too old.
LEMMA NoGapStep ==
    ASSUME RoomForWindow, HorizonSpansGaps, SchedulerShapes, NoGap, PassesMissNothing,
           [SchedulerNext]_schedulerVars
    PROVE  NoGap' /\ PassesMissNothing'
<1> DEFINE Goal == NoGap' /\ PassesMissNothing'
<1>0. /\ row \in [Occurrences -> InstanceStatus] /\ generator \in [Generators -> Passes]
      /\ clock \in Nat /\ CatchUpWindow \in Nat /\ Occurrences \subseteq Nat
      /\ EndsAt \in Nat /\ Lookahead \in Nat
      /\ definition.cursor \in {Null} \cup Nat
  BY OccurrencesAreNaturals, SchedulingAssumption DEF SchedulerShapes, SchedulerTypeOK, PassesOK
<1>a. \A o \in Occurrences : ~Forgotten(o) => ~Forgotten(o)'
  BY NeverForgottenAgain
<1>b. ASSUME UNCHANGED definition PROVE NoGap'
  BY <1>a, <1>b DEF NoGap
<1>c. ASSUME UNCHANGED generator PROVE PassesMissNothing'
  BY <1>a, <1>c DEF PassesMissNothing
<1>d. ASSUME NEW g \in Generators, NEW pass, generator' = [generator EXCEPT ![g] = pass],
             \A o \in Occurrences :
                /\ pass.stage = "persist" /\ o < pass.through /\ Forgotten(o)'
                     => o \in DOMAIN pass.planned
                /\ pass.stage \in {"readCursor", "writeCursor", "imminent"}
                     /\ o < pass.through => ~Forgotten(o)'
                /\ pass.stage = "writeCursor" /\ pass.status = "COMPLETED" => ~Forgotten(o)'
      PROVE  PassesMissNothing'
  <2> SUFFICES ASSUME NEW h \in Generators, NEW o \in Occurrences
               PROVE  /\ generator'[h].stage = "persist" /\ o < generator'[h].through
                            /\ Forgotten(o)' => o \in DOMAIN generator'[h].planned
                      /\ generator'[h].stage \in {"readCursor", "writeCursor", "imminent"}
                            /\ o < generator'[h].through => ~Forgotten(o)'
                      /\ generator'[h].stage = "writeCursor"
                            /\ generator'[h].status = "COMPLETED" => ~Forgotten(o)'
    BY DEF PassesMissNothing
  <2>1. CASE h = g
    <3>1. generator'[h] = pass
      BY <1>0, <1>d, <2>1
    <3> QED BY <1>d, <3>1
  <2>2. CASE h # g
    <3>1. generator'[h] = generator[h]
      BY <1>0, <1>d, <2>2
    <3> QED BY <1>a, <3>1 DEF PassesMissNothing
  <2> QED BY <2>1, <2>2
<1>e. ASSUME NEW g \in Generators, generator' = [generator EXCEPT ![g] = GeneratorIdle]
      PROVE  PassesMissNothing'
  <2>1. GeneratorIdle.stage = "idle"
    BY DEF GeneratorIdle
  <2> QED BY <1>d, <1>e, <2>1
<1>1. ASSUME UNCHANGED <<definition, generator>> PROVE Goal
  BY <1>1, <1>b, <1>c
<1>2. ASSUME NEW g \in Generators, BeginMaterialize(g) PROVE Goal
  <2> DEFINE empty == WindowEnd <= WindowStart
             stage == CASE definition.status # "ACTIVE" -> "idle"
                      [] empty \/ InWindow = {} -> "readCursor"
                      [] OTHER -> "persist"
             through == IF empty THEN clock ELSE WindowEnd
             pass == [stage |-> stage, through |-> through,
                      planned |-> IF empty THEN <<>> ELSE Planned,
                      status |-> "ACTIVE", now |-> clock]
  <2>1. /\ generator' = [generator EXCEPT ![g] = IF stage = "idle" THEN GeneratorIdle ELSE pass]
        /\ UNCHANGED definition
    BY <1>2 DEF BeginMaterialize
  <2>2. ASSUME NEW o \in Occurrences, o < WindowStart PROVE ~Forgotten(o)
    <3>1. CASE o < definition.cursor
      BY <3>1 DEF NoGap
    <3>2. CASE ~(o < definition.cursor)
      <4>1. StartsAt \in Nat /\ StartsAt <= o
        BY OccurrencesAreNaturals, SchedulingAssumption
      <4>2. o + CatchUpWindow < clock
        BY <1>0, <2>2, <3>2, <4>1 DEF WindowStart, Max2, Null
      <4> QED BY <1>0, <4>2 DEF Forgotten
    <3> QED BY <3>1, <3>2
  <2>3. ASSUME NEW o \in Occurrences, o < through, Forgotten(o)
        PROVE  ~empty /\ o \in InWindow
    <3>1. o < EndsAt /\ WindowStart \in Nat /\ WindowEnd \in Nat
      BY <1>0, OccurrencesAreNaturals, SchedulingAssumption
      DEF WindowStart, WindowEnd, Max2, Min2
    <3>2. ~(o < WindowStart)
      BY <2>2, <2>3
    <3>3. ~empty
      <4> SUFFICES ASSUME empty PROVE o < WindowStart
        BY <3>2
      <4>1. o < clock
        BY <2>3
      <4>2. o < WindowEnd
        BY <1>0, <3>1, <4>1 DEF WindowEnd, Min2
      <4> QED BY <1>0, <3>1, <4>2
    <3>4. WindowStart <= o /\ o < WindowEnd
      BY <1>0, <2>3, <3>1, <3>2, <3>3
    <3> QED BY <3>3, <3>4, WindowIsListed
  <2>4. pass.planned = (IF empty THEN <<>> ELSE Planned) /\ pass.stage = stage
        /\ pass.through = through
    OBVIOUS
  <2>5. /\ stage \in {"idle", "persist", "readCursor"}
        /\ stage = "readCursor" => empty \/ InWindow = {}
    OBVIOUS
  <2>6. ~empty => DOMAIN pass.planned = InWindow
    BY PlansOK
  <2>7. \A o \in Occurrences : Forgotten(o)' => Forgotten(o)
    BY <1>a
  <2> HIDE DEF empty, stage, through, pass
  <2>8. CASE stage = "idle"
    BY <1>b, <1>e, <2>1, <2>8
  <2>9. CASE stage # "idle"
    <3>1. generator' = [generator EXCEPT ![g] = pass]
      BY <2>1, <2>9
    <3>2. \A o \in Occurrences :
            /\ pass.stage = "persist" /\ o < pass.through /\ Forgotten(o)'
                 => o \in DOMAIN pass.planned
            /\ pass.stage \in {"readCursor", "writeCursor", "imminent"}
                 /\ o < pass.through => ~Forgotten(o)'
            /\ pass.stage = "writeCursor" /\ pass.status = "COMPLETED" => ~Forgotten(o)'
      BY <2>3, <2>4, <2>5, <2>6, <2>7, <2>9
    <3> QED BY <1>b, <1>d, <2>1, <3>1, <3>2
  <2> QED BY <2>8, <2>9
<1>3. ASSUME NEW g \in Generators, Persist(g) PROVE Goal
  <2> DEFINE pass == [generator[g] EXCEPT !.stage = "readCursor"]
  <2>1. /\ generator[g].stage = "persist" /\ generator[g] \in Passes
        /\ definition' = [definition EXCEPT !.cursor = generator[g].through]
        /\ generator' = [generator EXCEPT ![g] = pass]
    BY <1>0, <1>3 DEF Persist
  <2>2. ASSUME NEW o \in Occurrences, o < generator[g].through PROVE ~Forgotten(o)'
    <3>1. CASE Forgotten(o)
      <4>1. o \in DOMAIN generator[g].planned
        BY <2>1, <2>2, <3>1 DEF PassesMissNothing
      <4>2. generator[g].planned[o] \in {"PENDING", "SKIPPED"}
        BY <2>1, <4>1, PlansOK DEF Passes
      <4>3. row'[o] # "none"
        BY <1>3, <4>1, <4>2 DEF Persist
      <4> QED BY <4>3 DEF Forgotten
    <3>2. CASE ~Forgotten(o)
      BY <1>a, <3>2
    <3> QED BY <3>1, <3>2
  <2>3. pass.stage = "readCursor" /\ pass.through = generator[g].through
    BY <2>1 DEF Passes
  <2>4. PassesMissNothing'
    <3> HIDE DEF pass
    <3> QED BY <1>d, <2>1, <2>2, <2>3
  <2>5. definition'.cursor = generator[g].through /\ definition'.status = definition.status
    BY <2>1 DEF SchedulerShapes, SchedulerTypeOK
  <2>6. NoGap'
    BY <1>a, <2>2, <2>5 DEF NoGap
  <2> QED BY <2>4, <2>6
<1>4. ASSUME NEW g \in Generators, ReadCursor(g) PROVE Goal
  <2> DEFINE pass == [generator[g] EXCEPT !.stage = "writeCursor", !.status = definition.status]
  <2>1. /\ generator[g].stage = "readCursor" /\ generator[g] \in Passes
        /\ UNCHANGED definition
        /\ generator' = [generator EXCEPT ![g] = pass]
    BY <1>0, <1>4 DEF ReadCursor
  <2>2. /\ pass.stage = "writeCursor" /\ pass.through = generator[g].through
        /\ pass.status = definition.status
    BY <2>1 DEF Passes
  <2> HIDE DEF pass
  <2>3. \A o \in Occurrences : o < generator[g].through => ~Forgotten(o)'
    BY <1>a, <2>1 DEF PassesMissNothing
  <2>4. \A o \in Occurrences : definition.status = "COMPLETED" => ~Forgotten(o)'
    BY <1>a DEF NoGap
  <2> QED BY <1>b, <1>d, <2>1, <2>2, <2>3, <2>4
<1>5. ASSUME NEW g \in Generators, WriteCursor(g) PROVE Goal
  <2> DEFINE through == generator[g].through
             next == NextOccurrence(through)
             pass == [generator[g] EXCEPT !.stage = "imminent"]
  <2>1. /\ generator[g].stage = "writeCursor" /\ generator[g] \in Passes /\ through \in Nat
        /\ definition' = [status |-> IF next = Null THEN "COMPLETED" ELSE generator[g].status,
                          cursor |-> through, next |-> next]
        /\ generator' = [generator EXCEPT ![g] = GeneratorIdle]
             \/ generator' = [generator EXCEPT ![g] = pass]
    <3>1. generator[g] \in Passes /\ through \in Nat
      BY <1>0, SchedulingAssumption DEF Passes
    <3> QED BY <1>5, <3>1 DEF WriteCursor
  <2>2. pass.stage = "imminent" /\ pass.through = through
    BY <2>1 DEF Passes
  <2>3. next = Null => \A o \in Occurrences : o < through
    BY <2>1, NothingLeftWithoutNext
  <2> HIDE DEF next, pass
  <2>4. \A o \in Occurrences : o < through => ~Forgotten(o)'
    BY <1>a, <2>1 DEF PassesMissNothing
  <2>5. generator[g].status = "COMPLETED" => \A o \in Occurrences : ~Forgotten(o)'
    BY <1>a, <2>1 DEF PassesMissNothing
  <2>6. NoGap'
    BY <2>1, <2>3, <2>4, <2>5 DEF NoGap
  <2> HIDE DEF through
  <2>7. PassesMissNothing'
    BY <1>d, <1>e, <2>1, <2>2, <2>4
  <2> QED BY <2>6, <2>7
<1>6. ASSUME NEW g \in Generators, ScheduleImminent(g) \/ MaterializeFails(g) PROVE Goal
  BY <1>6, <1>b, <1>e DEF ScheduleImminent, MaterializeFails
<1>7. CASE Pause \/ Resume \/ RecomputeWrite \/ Cancel
  <2>1. definition'.cursor = definition.cursor
        /\ (definition'.status = "COMPLETED" => definition.status = "COMPLETED")
    BY <1>7 DEF Pause, Resume, RecomputeWrite, Cancel, SetDefinition, SchedulerShapes,
                SchedulerTypeOK
  <2>2. UNCHANGED generator
    BY <1>7 DEF Pause, Resume, RecomputeWrite, Cancel
  <2> QED BY <1>a, <1>c, <2>1, <2>2 DEF NoGap
<1>8. ASSUME \/ UNCHANGED schedulerVars \/ AdvanceClock \/ Tick \/ RecomputeRead \/ TakeJob
             \/ \E a \in Advancers : AdvancerStep(a) \/ AdvanceFails(a)
             \/ \E j \in Jobs : ForgetJob(j)
      PROVE  UNCHANGED <<definition, generator>>
  BY <1>8 DEF schedulerVars, AdvanceClock, Tick, RecomputeRead, TakeJob, TakeAdvance,
              AdvancerStep, ReadInstance, ApplyTransition, AdvanceFails, ForgetJob
<1> QED
  BY <1>1, <1>2, <1>3, <1>4, <1>5, <1>6, <1>7, <1>8 DEF SchedulerNext, GeneratorStep

\* No occurrence before the cursor is left without a row, unless it was older than
\* the catch-up window by then: with overlapping passes, failed ones, pauses, resumes
\* and cancels; and a completed definition has none left.  Both hypotheses are needed:
\* occurrencesBetween() stops after one more than the cap, and the cursor still moves to
\* the end of the window; nextOccurrenceAfter() stops at the horizon, and the definition
\* is completed all the same.
THEOREM NoOccurrenceIsPassedOver ==
    ASSUME RoomForWindow, HorizonSpansGaps
    PROVE  SchedulerSpec => []NoGap
<1>1. SchedulerShapes /\ NoGap /\ PassesMissNothing /\ [SchedulerNext]_schedulerVars
        => NoGap' /\ PassesMissNothing'
  BY NoGapStep
<1> QED BY <1>1, NoGapInitial, SchedulerShapesInvariant, PTL DEF SchedulerSpec

-----------------------------------------------------------------------------
\* The deliveries of notifications and their digests.

\* What a sweep holds once it has read the deferred rows.
Builds == [stage : {"build"}, items : SUBSET Requests, oldest : Requests]

\* What the open calls and the digests hold.
HoldingsOK ==
    /\ requester \in [Requesters -> {Free} \cup [stage : {"create", "enqueue"}, key : Requests]]
    /\ sweeper \in [Sweepers -> {Free} \cup Builds
                                \cup [stage : {"enqueue"}, summary : Summaries]]
    /\ digest \in [Summaries -> [status : {"none", "OPEN", "SENT"},
                                 items : SUBSET Requests, window : Requests \cup {0}]]

\* A worker is in a step exactly while its job is active, and a job that is not
\* over has attempts left.
SendsOK ==
    \A d \in Notifications :
        /\ step[d] # "idle" <=> sendJob[d] = "active"
        /\ sendJob[d] \in {"none", "waiting", "active"} => sendAttempts[d] < MaxSendAttempts

\* A row that is being sent is not one a digest may take or has taken.
SentRowsAreTheirOwn ==
    \A d \in Notifications :
        step[d] # "idle" => delivery[d] \notin {"none", "DEFERRED", "DIGESTED"}

\* A deferred row that was listed is one that was created.
ArrivedExist == \A i \in 1..Len(arrived) : delivery[arrived[i]] # "none"

\* The windows of the digests there are: the idempotency keys of their summaries.
Windows == {digest[s].window : s \in {t \in Summaries : digest[t].status # "none"}}

\* What a sweep is about to close out begins with a row no deferred one arrived
\* before, and is all deferred unless a digest of that window exists.
SoundBuild(build, arr, status, windows) ==
    /\ build.oldest \in build.items
    /\ \E i \in 1..Len(arr) :
          arr[i] = build.oldest /\ \A j \in 1..(i - 1) : status[arr[j]] # "DEFERRED"
    /\ build.oldest \in windows \/ \A k \in build.items : status[k] = "DEFERRED"

BuildsAreSound ==
    \A w \in Sweepers : sweeper[w].stage = "build" =>
        SoundBuild(sweeper[w], arrived, delivery, Windows)

\* The inductive invariant of the deliveries.
NotificationInv == /\ NotificationTypeOK
                   /\ HoldingsOK
                   /\ SendsOK
                   /\ SentRowsAreTheirOwn
                   /\ ArrivedExist
                   /\ BuildsAreSound
                   /\ EachItemInOneDigest

\* No row, no digest and no job at first.
LEMMA NotificationInitial == NotificationInit => NotificationInv
<1> SUFFICES ASSUME NotificationInit PROVE NotificationInv
  OBVIOUS
<1> USE DEF NotificationInit
<1>1. NotificationTypeOK
  BY LimitsAssumption DEF NotificationTypeOK, Status, Steps, NoDigest
<1>2. HoldingsOK
  BY DEF HoldingsOK, NoDigest
<1>3. SendsOK
  BY LimitsAssumption DEF SendsOK
<1>4. SentRowsAreTheirOwn /\ ArrivedExist
  BY DEF SentRowsAreTheirOwn, ArrivedExist
<1>5. BuildsAreSound
  BY DEF BuildsAreSound, Free
<1>6. EachItemInOneDigest
  BY DEF EachItemInOneDigest, NoDigest, Notifications
<1> QED BY <1>1, <1>2, <1>3, <1>4, <1>5, <1>6 DEF NotificationInv

\* A build stays sound while rows arrive and others are taken.
LEMMA SoundBuildStays ==
    ASSUME NEW b \in Builds, NEW arr \in Seq(Requests), NEW status, NEW windows,
           SoundBuild(b, arr, status, windows),
           NEW arr2 \in Seq(Requests), NEW status2, NEW windows2,
           Len(arr) <= Len(arr2), \A i \in 1..Len(arr) : arr2[i] = arr[i],
           windows \subseteq windows2,
           \A i \in 1..Len(arr) : status2[arr[i]] = "DEFERRED" => status[arr[i]] = "DEFERRED",
           \A k \in b.items : status[k] = "DEFERRED" =>
               status2[k] = "DEFERRED" \/ b.oldest \in windows2
    PROVE  SoundBuild(b, arr2, status2, windows2)
<1>1. PICK i \in 1..Len(arr) :
        arr[i] = b.oldest /\ \A j \in 1..(i - 1) : status[arr[j]] # "DEFERRED"
  BY DEF SoundBuild
<1>2. Len(arr) \in Nat /\ Len(arr2) \in Nat
  OBVIOUS
<1>3. i \in 1..Len(arr2) /\ arr2[i] = b.oldest
  BY <1>1, <1>2
<1>4. \A j \in 1..(i - 1) : status2[arr2[j]] # "DEFERRED"
  <2> SUFFICES ASSUME NEW j \in 1..(i - 1) PROVE status2[arr2[j]] # "DEFERRED"
    OBVIOUS
  <2>1. j \in 1..Len(arr)
    BY <1>1, <1>2
  <2> QED BY <1>1, <2>1
<1>5. b.oldest \in windows2 \/ \A k \in b.items : status2[k] = "DEFERRED"
  BY DEF SoundBuild
<1> QED BY <1>3, <1>4, <1>5 DEF SoundBuild

\* Two sweeps whose rows are all deferred begin with the same one.
LEMMA SameOldest ==
    ASSUME NEW b \in Builds, NEW c \in Builds, NEW arr \in Seq(Requests), NEW status,
           NEW windows, SoundBuild(b, arr, status, windows),
           SoundBuild(c, arr, status, windows),
           b.oldest \notin windows, c.oldest \notin windows
    PROVE  b.oldest = c.oldest
<1>1. PICK i \in 1..Len(arr) :
        arr[i] = b.oldest /\ \A j \in 1..(i - 1) : status[arr[j]] # "DEFERRED"
  BY DEF SoundBuild
<1>2. PICK n \in 1..Len(arr) :
        arr[n] = c.oldest /\ \A j \in 1..(n - 1) : status[arr[j]] # "DEFERRED"
  BY DEF SoundBuild
<1>3. status[arr[i]] = "DEFERRED" /\ status[arr[n]] = "DEFERRED"
  BY <1>1, <1>2 DEF SoundBuild
<1>4. Len(arr) \in Nat
  OBVIOUS
<1>5. ~(i < n) /\ ~(n < i)
  BY <1>1, <1>2, <1>3, <1>4
<1>6. i = n
  BY <1>4, <1>5
<1> QED BY <1>1, <1>2, <1>6

\* A sweep in its second step holds a build.
LEMMA BuildingSweep ==
    ASSUME HoldingsOK, NEW w \in Sweepers, sweeper[w].stage = "build"
    PROVE  sweeper[w] \in Builds
BY DEF HoldingsOK, Free, Builds

\* A digest marked sent is the same digest.
LEMMA MarkedDigest ==
    ASSUME NotificationTypeOK, HoldingsOK, NEW d \in Notifications, MarkDigestSent(d)
    PROVE  \A s \in Summaries :
              \/ digest'[s] = digest[s]
              \/ digest'[s] = [digest[s] EXCEPT !.status = "SENT"]
BY DEF MarkDigestSent, HoldingsOK

\* Every step keeps the types and what the calls hold.
LEMMA NotificationTypes ==
    ASSUME NotificationTypeOK, HoldingsOK, SendsOK, [NotificationNext]_notificationVars
    PROVE  NotificationTypeOK' /\ HoldingsOK' /\ SendsOK'
<1> DEFINE Goal == NotificationTypeOK' /\ HoldingsOK' /\ SendsOK'
<1> USE DEF NotificationTypeOK, HoldingsOK, SendsOK
<1>u. CASE UNCHANGED notificationVars
  BY <1>u DEF notificationVars, jobVars
<1>1. ASSUME NEW r \in Requesters, NEW k \in Requests, Find(r, k) PROVE Goal
  BY <1>1 DEF Find, jobVars
<1>2. ASSUME NEW r \in Requesters, NEW status \in {"PENDING", "DEFERRED", "SUPPRESSED"},
             Create(r, status)
      PROVE  Goal
  <2>1. requester[r].key \in Requests
    BY <1>2 DEF Create, Free
  <2> DEFINE k == requester[r].key
  <2>2. delivery' \in [Notifications -> Status]
    BY <1>2, <2>1 DEF Create, SetDelivery, Status, Notifications
  <2>3. arrived' \in Seq(Requests)
    <3>1. Append(arrived, k) \in Seq(Requests)
      BY <2>1
    <3>2. arrived' = arrived \/ arrived' = Append(arrived, k)
      BY <1>2 DEF Create
    <3> QED BY <3>1, <3>2
  <2>4. requester' \in [Requesters -> {Free} \cup [stage : {"create", "enqueue"}, key : Requests]]
    <3>1. PICK next \in {Free, [stage |-> "enqueue", key |-> k]} :
             requester' = [requester EXCEPT ![r] = next]
      BY <1>2 DEF Create
    <3> QED BY <2>1, <3>1
  <2> QED BY <1>2, <2>2, <2>3, <2>4 DEF Create, jobVars
<1>3. ASSUME NEW r \in Requesters, EnqueueDelivery(r) PROVE Goal
  BY <1>3 DEF EnqueueDelivery, AddSend
<1>4. ASSUME NEW r \in Requesters, RequestDies(r) PROVE Goal
  BY <1>4 DEF RequestDies, jobVars
<1>5. ASSUME NEW w \in Sweepers, ReadDeferred(w) PROVE Goal
  <2>1. sweeper' \in [Sweepers -> {Free} \cup Builds
                                \cup [stage : {"enqueue"}, summary : Summaries]]
    <3>1. PICK i \in Waiting : sweeper' = [sweeper EXCEPT ![w] =
              [stage |-> "build", items |-> OldestDeferred, oldest |-> arrived[i]]]
      BY <1>5 DEF ReadDeferred
    <3>2. OldestDeferred \in SUBSET Requests /\ arrived[i] \in Requests
      <4>1. \A j \in DOMAIN arrived : arrived[j] \in Requests
        OBVIOUS
      <4>2. Waiting \subseteq DOMAIN arrived
        BY DEF Waiting
      <4>3. ASSUME NEW k \in OldestDeferred PROVE k \in Requests
        <5>1. PICK j \in Waiting : k = arrived[j]
          BY DEF OldestDeferred
        <5> QED BY <4>1, <4>2, <5>1
      <4> HIDE DEF HoldingsOK, NotificationTypeOK, SendsOK
      <4> QED BY <4>1, <4>2, <4>3
    <3>3. [stage |-> "build", items |-> OldestDeferred, oldest |-> arrived[i]] \in Builds
      BY <3>2 DEF Builds
    <3> QED BY <3>1, <3>3
  <2> QED BY <1>5, <2>1 DEF ReadDeferred, jobVars
<1>6. ASSUME NEW w \in Sweepers, CreateDigest(w) PROVE Goal
  <2>1. sweeper[w] \in Builds
    <3>1. sweeper[w].stage = "build"
      BY <1>6 DEF CreateDigest
    <3> HIDE DEF HoldingsOK
    <3> QED BY <3>1, BuildingSweep
  <2>2. CASE WindowTaken(sweeper[w].oldest)
    BY <1>6, <2>2 DEF CreateDigest, jobVars
  <2>3. CASE ~WindowTaken(sweeper[w].oldest)
    <3> DEFINE new == CHOOSE s \in Summaries : digest[s] = NoDigest
    <3>1. new \in Summaries
      BY <1>6, <2>3 DEF CreateDigest
    <3> HIDE DEF new
    <3>2. digest' = [digest EXCEPT ![new] = [status |-> "OPEN", items |-> sweeper[w].items,
                                             window |-> sweeper[w].oldest]]
      BY <1>6, <2>3 DEF CreateDigest, new
    <3>3. digest' \in [Summaries -> [status : {"none", "OPEN", "SENT"},
                                 items : SUBSET Requests, window : Requests \cup {0}]]
      BY <2>1, <3>1, <3>2 DEF Builds
    <3>4. delivery' \in [Notifications -> Status]
      BY <1>6, <2>3 DEF CreateDigest, Status
    <3>5. sweeper' = [sweeper EXCEPT ![w] = [stage |-> "enqueue", summary |-> new]]
      BY <1>6, <2>3 DEF CreateDigest, new
    <3> QED BY <1>6, <3>1, <3>3, <3>4, <3>5 DEF CreateDigest, jobVars
  <2> QED BY <2>2, <2>3
<1>7. ASSUME NEW w \in Sweepers, EnqueueSummary(w) PROVE Goal
  BY <1>7 DEF EnqueueSummary, AddSend
<1>8. ASSUME NEW w \in Sweepers, SweepDies(w) PROVE Goal
  BY <1>8 DEF SweepDies, jobVars
<1>9. ASSUME NEW d \in Notifications, Load(d) PROVE Goal
  <2>1. CASE ToBeSent(d)
    <3>1. /\ sendJob' = [sendJob EXCEPT ![d] = "active"]
          /\ step' = [step EXCEPT ![d] = "send"]
      BY <1>9, <2>1 DEF Load, Goto
    <3> QED BY <1>9, <3>1 DEF Load, Steps
  <2>2. CASE ~ToBeSent(d)
    <3>1. /\ sendJob' = [sendJob EXCEPT ![d] = "completed"]
          /\ step' = [step EXCEPT ![d] = "idle"]
      BY <1>9, <2>2 DEF Load, CompleteJob
    <3> QED BY <1>9, <3>1 DEF Load, Steps
  <2> QED BY <2>1, <2>2
<1>10. ASSUME NEW d \in Notifications, Send(d) PROVE Goal
  BY <1>10 DEF Send, Goto, Steps
<1>11. ASSUME NEW d \in Notifications, SendRejected(d) PROVE Goal
  BY <1>11 DEF SendRejected, CompleteJob, SetDelivery, Steps, Status
<1>12. ASSUME NEW d \in Notifications, MarkSent(d) PROVE Goal
  BY <1>12 DEF MarkSent, Goto, SetDelivery, Steps, Status
<1>13. ASSUME NEW d \in Notifications, MarkDigestSent(d) PROVE Goal
  <2>1. digest' \in [Summaries -> [status : {"none", "OPEN", "SENT"},
                                 items : SUBSET Requests, window : Requests \cup {0}]]
    <3> DEFINE Digests == [status : {"none", "OPEN", "SENT"},
                           items : SUBSET Requests, window : Requests \cup {0}]
    <3>1. \A s \in Summaries : digest'[s] \in Digests
      <4>1. \A s \in Summaries : [digest[s] EXCEPT !.status = "SENT"] \in Digests
        OBVIOUS
      <4>2. \A s \in Summaries : \/ digest'[s] = digest[s]
                                 \/ digest'[s] = [digest[s] EXCEPT !.status = "SENT"]
        <5> HIDE DEF HoldingsOK, NotificationTypeOK
        <5> QED BY <1>13, MarkedDigest
      <4>3. \A s \in Summaries : digest[s] \in Digests
        OBVIOUS
      <4> SUFFICES ASSUME NEW s \in Summaries PROVE digest'[s] \in Digests
        OBVIOUS
      <4> HIDE DEF Digests, HoldingsOK, NotificationTypeOK, SendsOK
      <4>4. CASE digest'[s] = digest[s]
        BY <4>3, <4>4
      <4>5. CASE digest'[s] = [digest[s] EXCEPT !.status = "SENT"]
        BY <4>1, <4>5
      <4> QED BY <4>2, <4>4, <4>5
    <3>2. digest' = [s \in Summaries |-> digest'[s]]
      BY <1>13 DEF MarkDigestSent
    <3> QED BY <3>1, <3>2
  <2> QED BY <1>13, <2>1 DEF MarkDigestSent, Goto, Steps
<1>14. ASSUME NEW d \in Notifications, JobDone(d) PROVE Goal
  BY <1>14 DEF JobDone, CompleteJob, Steps
<1>15. ASSUME NEW d \in Notifications, AttemptFails(d) PROVE Goal
  <2> DEFINE made == sendAttempts[d] + 1
  <2>1. sendAttempts[d] < MaxSendAttempts /\ made \in 0..MaxSendAttempts
    BY <1>15, LimitsAssumption DEF AttemptFails
  <2>2. delivery' \in [Notifications -> Status]
    BY <1>15 DEF AttemptFails, MarkExhausted, SetDelivery, Status
  <2>3. /\ sendAttempts' = [sendAttempts EXCEPT ![d] = made]
        /\ sendJob' = [sendJob EXCEPT ![d] =
                         IF Exhausted(made) THEN "failed" ELSE "waiting"]
        /\ step' = [step EXCEPT ![d] = "idle"]
        /\ UNCHANGED <<arrived, requester, digest, sweeper, sendStalled>>
    BY <1>15 DEF AttemptFails, Goto
  <2>4. ~Exhausted(made) => made < MaxSendAttempts
    BY <2>1, LimitsAssumption DEF Exhausted
  <2> HIDE DEF made
  <2>5. SendsOK'
    BY <2>3, <2>4
  <2> QED BY <2>1, <2>2, <2>3, <2>5 DEF Steps
<1>16. ASSUME NEW d \in Notifications, WorkerDies(d) PROVE Goal
  BY <1>16 DEF WorkerDies, Goto, Steps
<1> QED
  BY <1>u, <1>1, <1>2, <1>3, <1>4, <1>5, <1>6, <1>7, <1>8, <1>9, <1>10, <1>11, <1>12,
     <1>13, <1>14, <1>15, <1>16 DEF NotificationNext, DispatchStep

\* Rows a step leaves alone.
LEMMA OthersRowsStay ==
    ASSUME NotificationTypeOK, HoldingsOK, SentRowsAreTheirOwn, EachItemInOneDigest,
           NEW d \in Notifications, step[d] # "idle",
           delivery' = delivery \/ \E status \in {"SENT", "FAILED"} : SetDelivery(d, status)
    PROVE  \A k \in Notifications : \A status \in {"none", "DEFERRED", "DIGESTED"} :
              delivery'[k] = status <=> delivery[k] = status
<1>1. delivery[d] \notin {"none", "DEFERRED", "DIGESTED"}
  BY DEF SentRowsAreTheirOwn
<1>2. \/ delivery' = delivery
      \/ /\ delivery'[d] \in {"SENT", "FAILED"}
         /\ \A k \in Notifications \ {d} : delivery'[k] = delivery[k]
  BY DEF SetDelivery, NotificationTypeOK
<1> QED BY <1>1, <1>2

\* What the other invariants need of a step that makes no digest.
Quiet ==
    /\ \A s \in Summaries : /\ digest'[s].items = digest[s].items
                            /\ digest'[s].window = digest[s].window
                            /\ digest[s].status # "none" => digest'[s].status # "none"
    /\ \A k \in Notifications :
         /\ delivery[k] # "none" => delivery'[k] # "none"
         /\ delivery'[k] = "DEFERRED" => delivery[k] \in {"none", "DEFERRED"}
         /\ delivery[k] = "DEFERRED" => delivery'[k] = "DEFERRED"
         /\ delivery'[k] = "DIGESTED" <=> delivery[k] = "DIGESTED"
    /\ \/ arrived' = arrived
       \/ \E k \in Requests : arrived' = Append(arrived, k) /\ delivery'[k] # "none"

\* Such a step keeps digests and rows in agreement, if what it reads is sound.
LEMMA QuietKeeps ==
    ASSUME NotificationInv, HoldingsOK', NotificationTypeOK', Quiet,
           \A w \in Sweepers : sweeper'[w].stage = "build" =>
              \/ sweeper'[w] = sweeper[w]
              \/ SoundBuild(sweeper'[w], arrived', delivery', Windows')
    PROVE  ArrivedExist' /\ BuildsAreSound' /\ EachItemInOneDigest'
<1> USE DEF NotificationInv
<1>1. /\ arrived \in Seq(Requests) /\ arrived' \in Seq(Requests)
      /\ Len(arrived) \in Nat /\ Len(arrived') \in Nat
      /\ \A i \in 1..Len(arrived) : arrived[i] \in Notifications
  BY DEF NotificationTypeOK, Notifications
<1>2. /\ Len(arrived) <= Len(arrived')
      /\ \A i \in 1..Len(arrived) : arrived'[i] = arrived[i]
      /\ \A i \in 1..Len(arrived') :
           i \in 1..Len(arrived) \/ delivery'[arrived'[i]] # "none"
  <2>1. CASE arrived' = arrived
    BY <1>1, <2>1
  <2>2. ASSUME NEW k \in Requests, arrived' = Append(arrived, k), delivery'[k] # "none"
        PROVE <1>2!:
    BY <1>1, <2>2
  <2> QED BY <2>1, <2>2 DEF Quiet
<1>3. ArrivedExist'
  BY <1>1, <1>2 DEF ArrivedExist, Quiet
<1>4. Windows \subseteq Windows'
  BY DEF Windows, Quiet
<1>5. BuildsAreSound'
  <2> SUFFICES ASSUME NEW w \in Sweepers, sweeper'[w].stage = "build", sweeper'[w] = sweeper[w]
               PROVE  SoundBuild(sweeper[w], arrived', delivery', Windows')
    BY DEF BuildsAreSound
  <2>1. sweeper[w] \in Builds
    BY DEF HoldingsOK, Free, Builds
  <2>2. SoundBuild(sweeper[w], arrived, delivery, Windows)
    BY DEF BuildsAreSound
  <2>3. \A i \in 1..Len(arrived) :
            delivery'[arrived[i]] = "DEFERRED" => delivery[arrived[i]] = "DEFERRED"
    BY <1>1 DEF Quiet, ArrivedExist
  <2>4. \A k \in sweeper[w].items : delivery[k] = "DEFERRED" => delivery'[k] = "DEFERRED"
    BY <2>1 DEF Quiet, Builds, Notifications
  <2> QED BY <1>1, <1>2, <1>4, <2>1, <2>2, <2>3, <2>4, SoundBuildStays
<1>6. EachItemInOneDigest'
  BY DEF EachItemInOneDigest, Quiet, Notifications
<1> QED BY <1>3, <1>5, <1>6

\* The sweep closes out rows that are all deferred still, and the sweeps that had
\* read some of them find their window taken.
LEMMA DigestKeeps ==
    ASSUME NotificationInv, HoldingsOK', NotificationTypeOK', NEW w \in Sweepers,
           CreateDigest(w)
    PROVE  ArrivedExist' /\ BuildsAreSound' /\ EachItemInOneDigest'
<1> USE DEF NotificationInv
<1> DEFINE b == sweeper[w]
<1>1. b \in Builds
  <2>1. sweeper[w].stage = "build"
    BY DEF CreateDigest
  <2> QED BY <2>1, BuildingSweep
<1>2. SoundBuild(b, arrived, delivery, Windows)
  BY DEF CreateDigest, BuildsAreSound
<1> HIDE DEF b
<1>3. CASE WindowTaken(b.oldest)
  <2>1. /\ UNCHANGED <<delivery, digest, arrived>>
        /\ sweeper' = [sweeper EXCEPT ![w] = Free]
    BY <1>3 DEF CreateDigest, b
  <2>2. Quiet
    BY <2>1 DEF Quiet
  <2>3. \A v \in Sweepers : sweeper'[v].stage = "build" => sweeper'[v] = sweeper[v]
    BY <2>1 DEF Free, HoldingsOK
  <2> QED BY <2>2, <2>3, QuietKeeps
<1>4. CASE ~WindowTaken(b.oldest)
  <2> DEFINE new == CHOOSE s \in Summaries : digest[s] = NoDigest
  <2>1. new \in Summaries /\ digest[new] = NoDigest
    BY <1>4 DEF CreateDigest, b
  <2> HIDE DEF new
  <2>2. /\ digest' = [digest EXCEPT ![new] =
                        [status |-> "OPEN", items |-> b.items, window |-> b.oldest]]
        /\ delivery' = [d \in Notifications |->
                          IF d = new THEN "PENDING"
                          ELSE IF d \in b.items /\ IsDeferred(d) THEN "DIGESTED"
                          ELSE delivery[d]]
        /\ sweeper' = [sweeper EXCEPT ![w] = [stage |-> "enqueue", summary |-> new]]
        /\ arrived' = arrived
    BY <1>4 DEF CreateDigest, b, new
  <2>3. b.oldest \notin Windows
    BY <1>4 DEF WindowTaken, Windows
  <2>4. \A k \in b.items : delivery[k] = "DEFERRED"
    BY <1>2, <2>3 DEF SoundBuild
  <2>5. b.items \subseteq Requests /\ new \notin Requests
    BY <1>1, <2>1, DisjointAssumption DEF Builds
  <2>6. \A k \in Requests : delivery'[k] = IF k \in b.items THEN "DIGESTED" ELSE delivery[k]
    BY <2>2, <2>4, <2>5 DEF Notifications, IsDeferred
  <2>7. /\ digest'[new].items = b.items /\ digest'[new].window = b.oldest
        /\ digest'[new].status = "OPEN"
        /\ \A s \in Summaries \ {new} : digest'[s] = digest[s]
    BY <2>1, <2>2 DEF HoldingsOK
  <2>8. ArrivedExist'
    <3>1. \A i \in 1..Len(arrived) : arrived[i] \in Requests
      BY DEF NotificationTypeOK
    <3> QED BY <2>2, <2>6, <3>1 DEF ArrivedExist
  <2>9. Windows \subseteq Windows' /\ b.oldest \in Windows'
    BY <2>1, <2>7 DEF Windows, NoDigest
  <2>10. BuildsAreSound'
    <3> SUFFICES ASSUME NEW v \in Sweepers, sweeper'[v].stage = "build"
                 PROVE  SoundBuild(sweeper'[v], arrived', delivery', Windows')
      BY DEF BuildsAreSound
    <3>1. v # w /\ sweeper'[v] = sweeper[v] /\ sweeper[v].stage = "build"
      BY <2>2 DEF HoldingsOK
    <3> DEFINE c == sweeper[v]
    <3>2. c \in Builds
      BY <3>1, BuildingSweep
    <3>3. SoundBuild(c, arrived, delivery, Windows)
      BY <3>1 DEF BuildsAreSound
    <3> HIDE DEF c
    <3>4. arrived \in Seq(Requests)
      BY DEF NotificationTypeOK
    <3>5. c.oldest \in Windows'
      <4>1. CASE c.oldest \in Windows
        BY <2>9, <4>1
      <4>2. CASE c.oldest \notin Windows
        <5>1. b.oldest = c.oldest
          BY <1>1, <1>2, <2>3, <3>2, <3>3, <3>4, <4>2, SameOldest
        <5> QED BY <2>9, <5>1
      <4> QED BY <4>1, <4>2
    <3>6. \A i \in 1..Len(arrived) :
             delivery'[arrived[i]] = "DEFERRED" => delivery[arrived[i]] = "DEFERRED"
      BY <2>6, <3>4
    <3>7. SoundBuild(c, arrived, delivery', Windows')
      BY <2>9, <3>2, <3>3, <3>4, <3>5, <3>6, SoundBuildStays
    <3> QED BY <2>2, <3>1, <3>7 DEF c
  <2>11. EachItemInOneDigest'
    <3>1. \A k \in b.items : \A s \in Summaries : k \notin digest[s].items
      BY <2>4, <2>5 DEF EachItemInOneDigest
    <3>2. ASSUME NEW s \in Summaries, NEW t \in Summaries, s # t
          PROVE  digest'[s].items \cap digest'[t].items = {}
      BY <2>1, <2>7, <3>1, <3>2 DEF EachItemInOneDigest
    <3>3. ASSUME NEW k \in Requests
          PROVE  delivery'[k] = "DIGESTED" <=> \E s \in Summaries : k \in digest'[s].items
      <4>1. CASE k \in b.items
        BY <2>1, <2>6, <2>7, <4>1
      <4>2. CASE k \notin b.items
        <5>1. delivery'[k] = delivery[k]
          BY <2>6, <4>2
        <5>2. \A s \in Summaries : k \in digest'[s].items <=> k \in digest[s].items
          BY <2>1, <2>7, <4>2 DEF NoDigest
        <5> QED BY <5>1, <5>2 DEF EachItemInOneDigest
      <4> QED BY <4>1, <4>2
    <3> QED BY <3>2, <3>3 DEF EachItemInOneDigest
  <2> QED BY <2>8, <2>10, <2>11
<1> QED BY <1>3, <1>4

\* A sweep reads rows that are all deferred, from the first of them on.
LEMMA ReadIsSound ==
    ASSUME NotificationTypeOK, NEW w \in Sweepers, ReadDeferred(w), HoldingsOK
    PROVE  SoundBuild(sweeper'[w], arrived, delivery, Windows)
<1>1. PICK i \in Waiting :
        /\ \A j \in Waiting : i <= j
        /\ sweeper' = [sweeper EXCEPT ![w] =
              [stage |-> "build", items |-> OldestDeferred, oldest |-> arrived[i]]]
  BY DEF ReadDeferred
<1>2. Waiting = {j \in 1..Len(arrived) : delivery[arrived[j]] = "DEFERRED"}
      /\ Len(arrived) \in Nat
  BY DEF Waiting, IsDeferred, NotificationTypeOK
<1>3. sweeper'[w].items = OldestDeferred /\ sweeper'[w].oldest = arrived[i]
  BY <1>1 DEF HoldingsOK
<1>4. arrived[i] \in OldestDeferred
  <2>1. {h \in Waiting : h < i} = {}
    BY <1>1, <1>2
  <2>2. Cardinality({h \in Waiting : h < i}) < MaxItems
    BY <2>1, FS_EmptySet, LimitsAssumption
  <2> QED BY <2>2 DEF OldestDeferred
<1>5. \A k \in OldestDeferred : delivery[k] = "DEFERRED"
  BY <1>2 DEF OldestDeferred
<1>6. \A j \in 1..(i - 1) : delivery[arrived[j]] # "DEFERRED"
  BY <1>1, <1>2
<1> QED BY <1>2, <1>3, <1>4, <1>5, <1>6 DEF SoundBuild

\* Every step of requests, sweeps and workers keeps the invariant.
LEMMA NotificationStep ==
    NotificationInv /\ [NotificationNext]_notificationVars => NotificationInv'
<1> SUFFICES ASSUME NotificationInv, [NotificationNext]_notificationVars
             PROVE  NotificationInv'
  OBVIOUS
<1>0. /\ NotificationTypeOK /\ HoldingsOK /\ SendsOK /\ SentRowsAreTheirOwn
      /\ ArrivedExist /\ BuildsAreSound /\ EachItemInOneDigest
  BY DEF NotificationInv
<1>1. NotificationTypeOK' /\ HoldingsOK' /\ SendsOK'
  BY <1>0, NotificationTypes
<1> DEFINE Goal == /\ SentRowsAreTheirOwn' /\ ArrivedExist'
                   /\ BuildsAreSound' /\ EachItemInOneDigest'
<1>a. ASSUME Quiet, UNCHANGED sweeper
      PROVE  ArrivedExist' /\ BuildsAreSound' /\ EachItemInOneDigest'
  BY <1>1, <1>a, QuietKeeps
<1>b. ASSUME NEW w \in Sweepers, Quiet, sweeper' = [sweeper EXCEPT ![w] = Free]
      PROVE  ArrivedExist' /\ BuildsAreSound' /\ EachItemInOneDigest'
  <2>1. \A v \in Sweepers : sweeper'[v].stage = "build" => sweeper'[v] = sweeper[v]
    BY <1>0, <1>b DEF HoldingsOK, Free
  <2> QED BY <1>1, <1>b, <2>1, QuietKeeps
<1>c. UNCHANGED <<delivery, arrived, digest>> => Quiet
  BY DEF Quiet
<1>d. ASSUME NEW d \in Notifications,
             \/ Send(d) \/ SendRejected(d) \/ MarkSent(d) \/ MarkDigestSent(d)
             \/ JobDone(d) \/ AttemptFails(d) \/ WorkerDies(d)
      PROVE  Goal
  <2>1. step[d] # "idle"
    BY <1>0, <1>d DEF Send, SendRejected, MarkSent, MarkDigestSent, JobDone, AttemptFails,
                      WorkerDies, SendsOK
  <2>2. delivery' = delivery \/ \E status \in {"SENT", "FAILED"} : SetDelivery(d, status)
    BY <1>d DEF Send, SendRejected, MarkSent, MarkDigestSent, JobDone, AttemptFails,
                MarkExhausted, WorkerDies
  <2>3. \A k \in Notifications : \A status \in {"none", "DEFERRED", "DIGESTED"} :
           delivery'[k] = status <=> delivery[k] = status
    BY <1>0, <2>1, <2>2, OthersRowsStay
  <2>4. UNCHANGED <<arrived, sweeper>>
    BY <1>d DEF Send, SendRejected, MarkSent, MarkDigestSent, JobDone, AttemptFails,
                WorkerDies
  <2>5. \A s \in Summaries : \/ digest'[s] = digest[s]
                             \/ digest'[s] = [digest[s] EXCEPT !.status = "SENT"]
    <3>1. CASE MarkDigestSent(d)
      BY <1>0, <3>1, MarkedDigest
    <3>2. CASE ~MarkDigestSent(d)
      BY <1>d, <3>2 DEF Send, SendRejected, MarkSent, JobDone, AttemptFails, WorkerDies
    <3> QED BY <3>1, <3>2
  <2>6. \A s \in Summaries : /\ digest'[s].items = digest[s].items
                             /\ digest'[s].window = digest[s].window
                             /\ digest[s].status # "none" => digest'[s].status # "none"
    <3>1. \A s \in Summaries : digest[s] \in [status : {"none", "OPEN", "SENT"},
                                 items : SUBSET Requests, window : Requests \cup {0}]
      BY <1>0 DEF HoldingsOK
    <3> QED BY <2>5, <3>1
  <2>7. Quiet
    BY <2>3, <2>4, <2>6 DEF Quiet
  <2>8. \A k \in Notifications : step'[k] # "idle" => step[k] # "idle"
    BY <1>0, <1>d, <2>1 DEF Send, SendRejected, MarkSent, MarkDigestSent, JobDone, AttemptFails,
                      WorkerDies, Goto, CompleteJob, NotificationTypeOK
  <2>9. SentRowsAreTheirOwn'
    BY <1>0, <2>3, <2>8 DEF SentRowsAreTheirOwn
  <2> QED BY <1>a, <2>4, <2>7, <2>9
<1>u. ASSUME UNCHANGED notificationVars PROVE Goal
  <2>1. UNCHANGED <<delivery, arrived, digest, sweeper, step>>
    BY <1>u DEF notificationVars, jobVars
  <2> QED BY <1>0, <1>a, <1>c, <2>1 DEF SentRowsAreTheirOwn
<1>2. ASSUME NEW r \in Requesters, NEW k \in Requests, Find(r, k) PROVE Goal
  <2>1. UNCHANGED <<delivery, arrived, digest, sweeper, step>>
    BY <1>2 DEF Find, jobVars
  <2> QED BY <1>0, <1>a, <1>c, <2>1 DEF SentRowsAreTheirOwn
<1>3. ASSUME NEW r \in Requesters, NEW status \in {"PENDING", "DEFERRED", "SUPPRESSED"},
             Create(r, status)
      PROVE  Goal
  <2> DEFINE k == requester[r].key
  <2>1. k \in Requests
    <3>1. requester[r].stage = "create"
      BY <1>3 DEF Create
    <3> QED BY <1>0, <3>1 DEF Free, HoldingsOK
  <2>2. UNCHANGED <<digest, sweeper, step>>
    BY <1>3 DEF Create, jobVars
  <2>3. CASE delivery[k] # "none"
    <3>1. UNCHANGED <<delivery, arrived>>
      BY <1>3, <2>3 DEF Create
    <3> QED BY <1>0, <1>a, <1>c, <2>2, <3>1 DEF SentRowsAreTheirOwn
  <2>4. CASE delivery[k] = "none"
    <3>1. /\ delivery' = [delivery EXCEPT ![k] = status]
          /\ arrived' = arrived \/ arrived' = Append(arrived, k)
      BY <1>3, <2>4 DEF Create, SetDelivery
    <3> HIDE DEF k
    <3>2. delivery'[k] = status /\ \A c \in Notifications \ {k} : delivery'[c] = delivery[c]
      BY <1>0, <2>1, <3>1 DEF NotificationTypeOK, Notifications
    <3>3. Quiet
      BY <2>1, <2>2, <2>4, <3>1, <3>2 DEF Quiet, Notifications
    <3>4. SentRowsAreTheirOwn'
      BY <1>0, <2>1, <2>2, <2>4, <3>2 DEF SentRowsAreTheirOwn, Notifications
    <3> QED BY <1>a, <2>2, <3>3, <3>4
  <2> QED BY <2>3, <2>4
<1>4. ASSUME NEW r \in Requesters, EnqueueDelivery(r) \/ RequestDies(r) PROVE Goal
  <2>1. UNCHANGED <<delivery, arrived, digest, sweeper, step>>
    BY <1>4 DEF EnqueueDelivery, RequestDies, jobVars
  <2> QED BY <1>0, <1>a, <1>c, <2>1 DEF SentRowsAreTheirOwn
<1>5. ASSUME NEW w \in Sweepers, ReadDeferred(w) PROVE Goal
  <2>1. UNCHANGED <<delivery, arrived, digest, step>>
    BY <1>5 DEF ReadDeferred, jobVars
  <2>2. SoundBuild(sweeper'[w], arrived', delivery', Windows')
    <3>1. SoundBuild(sweeper'[w], arrived, delivery, Windows)
      BY <1>0, <1>5, ReadIsSound
    <3>2. Windows' = Windows
      BY <2>1 DEF Windows
    <3> QED BY <2>1, <3>1, <3>2
  <2>3. \A v \in Sweepers \ {w} : sweeper'[v] = sweeper[v]
    BY <1>0, <1>5 DEF ReadDeferred, HoldingsOK
  <2>4. ArrivedExist' /\ BuildsAreSound' /\ EachItemInOneDigest'
    BY <1>1, <1>c, <2>1, <2>2, <2>3, QuietKeeps
  <2> QED BY <1>0, <2>1, <2>4 DEF SentRowsAreTheirOwn
<1>6. ASSUME NEW w \in Sweepers, CreateDigest(w) PROVE Goal
  <2>1. ArrivedExist' /\ BuildsAreSound' /\ EachItemInOneDigest'
    BY <1>1, <1>6, DigestKeeps
  <2>2. \A d \in Notifications : delivery[d] \notin {"none", "DEFERRED", "DIGESTED"} =>
                                   delivery'[d] \notin {"none", "DEFERRED", "DIGESTED"}
    <3>1. CASE UNCHANGED delivery
      BY <3>1
    <3>2. CASE ~UNCHANGED delivery
      BY <1>6, <3>2 DEF CreateDigest, IsDeferred
    <3> QED BY <3>1, <3>2
  <2>3. UNCHANGED step
    BY <1>6 DEF CreateDigest, jobVars
  <2> QED BY <1>0, <2>1, <2>2, <2>3 DEF SentRowsAreTheirOwn
<1>7. ASSUME NEW w \in Sweepers, EnqueueSummary(w) \/ SweepDies(w) PROVE Goal
  <2>1. /\ UNCHANGED <<delivery, arrived, digest, step>>
        /\ sweeper' = [sweeper EXCEPT ![w] = Free]
    BY <1>7 DEF EnqueueSummary, SweepDies, jobVars
  <2> QED BY <1>0, <1>b, <1>c, <2>1 DEF SentRowsAreTheirOwn
<1>8. ASSUME NEW d \in Notifications, Load(d) PROVE Goal
  <2>1. UNCHANGED <<delivery, arrived, digest, sweeper>>
    BY <1>8 DEF Load
  <2>2. SentRowsAreTheirOwn'
    <3>1. \A c \in Notifications \ {d} : step'[c] = step[c]
      BY <1>0, <1>8 DEF Load, Goto, CompleteJob, NotificationTypeOK
    <3>2. step'[d] # "idle" => delivery[d] = "PENDING"
      BY <1>0, <1>8 DEF Load, ToBeSent, CompleteJob, NotificationTypeOK
    <3> QED BY <1>0, <2>1, <3>1, <3>2 DEF SentRowsAreTheirOwn
  <2> QED BY <1>a, <1>c, <2>1, <2>2
<1>9. Goal
  BY <1>d, <1>u, <1>2, <1>3, <1>4, <1>5, <1>6, <1>7, <1>8 DEF NotificationNext, DispatchStep
<1> QED BY <1>1, <1>9 DEF NotificationInv

\* NotificationInv is an invariant.
LEMMA NotificationInvariant == NotificationSpec => []NotificationInv
BY NotificationInitial, NotificationStep, PTL DEF NotificationSpec

\* Rows, send jobs and the steps of their workers stay what the table and the queue
\* hold, with the attempts within the retries.
THEOREM NotificationsAreWellTyped == NotificationSpec => []NotificationTypeOK
<1>1. NotificationInv => NotificationTypeOK
  BY DEF NotificationInv
<1> QED BY <1>1, NotificationInvariant, PTL

\* Overlapping sweeps put no deferred notification into two digests, and list none
\* that is not closed out: both lists begin with the same row, whose key the second
\* one finds taken.
THEOREM EachItemIsInOneDigest == NotificationSpec => []EachItemInOneDigest
<1>1. NotificationInv => EachItemInOneDigest
  BY DEF NotificationInv
<1> QED BY <1>1, NotificationInvariant, PTL
==============================================================================
