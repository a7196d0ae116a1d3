----------------------------- MODULE Scheduler -----------------------------
(***************************************************************************)
(* One cadence definition and the window instances made from it.  A        *)
(* repeating tick sweeps PostgreSQL and enqueues work; generator workers   *)
(* materialise the occurrences inside a lookahead window as instance rows; *)
(* transition workers advance an instance through the milestones of its    *)
(* window, announcing one event each; the service pauses, resumes and      *)
(* cancels the definition.  None of them takes a lock: rows are protected  *)
(* by a unique index and by a compare-and-set on the status.               *)
(*                                                                         *)
(* Time is a counter, 0 when the definition is created.  The instants a    *)
(* cadence denotes are a constant (cadence.engine.ts computes them from    *)
(* the calendar).  A definition without an end is one whose EndsAt is      *)
(* beyond what any pass looks at.  A job that is added while one of its id *)
(* is retained is not added.                                               *)
(***************************************************************************)
EXTENDS Integers, Sequences, FiniteSets

CONSTANTS
    Instants,            \* the instants its cadence denotes
    StartsAt, EndsAt,    \* startsAt and endsAt of the definition
    Horizon,             \* horizonDays of nextOccurrenceAfter(): 400 days
    Policy,              \* its catchUpPolicy
    Lookahead,           \* its lookaheadSeconds
    Offset,              \* [Advanceable -> Nat]: its milestones, from an occurrence
    TickLookahead,       \* SCHEDULER_LOOKAHEAD_SECONDS
    TickInterval,        \* SCHEDULER_TICK_INTERVAL_MS
    TickBatch,           \* SCHEDULER_TICK_BATCH_SIZE
    CatchUpWindow,       \* MAX_CATCHUP_WINDOW_MS
    MaxCatchUp,          \* SCHEDULER_MAX_CATCHUP_OCCURRENCES
    Generators,          \* slots of the materialise workers
    Advancers,           \* slots of the transition workers
    MaxAdvanceAttempts,  \* "attempts" of the transition queue
    MaxTime,             \* bound on the clock
    Upsets,              \* kinds of upset that may happen, see Upset
    MaxUpsets            \* bound on their number

\* The statuses with a transition rule, in order, and the last one.
Path == <<"PENDING", "OPEN", "CLOSING", "CLOSED", "REVIEW_DUE">>
Advanceable == {Path[i] : i \in 1..4}
Rank(status) == CHOOSE i \in 1..5 : Path[i] = status
After(status) == Path[Rank(status) + 1]

InstanceStatus == {Path[i] : i \in 1..5} \cup {"none", "SKIPPED"}
DefinitionStatus == {"ACTIVE", "PAUSED", "CANCELLED", "COMPLETED"}

\* The instants that are to have a row.
Occurrences == {i \in Instants : StartsAt <= i /\ i < EndsAt}

ASSUME InstantsAssumption == Instants \subseteq Nat
\* windowClosingAt is at least windowOpensAt and at most windowClosesAt.
ASSUME OffsetAssumption ==
    /\ Offset \in [Advanceable -> Nat]
    /\ \A i \in 1..3 : Offset[Path[i]] <= Offset[Path[i + 1]]
ASSUME SchedulingAssumption ==
    /\ {StartsAt, EndsAt, Horizon, Lookahead, CatchUpWindow, MaxCatchUp, MaxTime}
         \subseteq Nat
    /\ MaxAdvanceAttempts \in Nat \ {0}

Null == -1

VARIABLES
    definition,          \* status, lastMaterializedAt and nextOccurrenceAt
    row,                 \* status of the instance of each occurrence
    announced,           \* milestone events published for it, in order
    materialise,         \* a materialise job waits
    generator,           \* each materialise worker's pass
    advanceJob,          \* transition jobs, by occurrence and status
    advanceAttempts,     \* attemptsMade of each transition job
    advancer,            \* each transition worker's pass
    resuming,            \* an open resume()
    clock, upsets

schedulerVars == <<definition, row, announced, materialise, generator, advanceJob,
                   advanceAttempts, advancer, resuming, clock, upsets>>

Jobs == Occurrences \X Advanceable
Due(o, status) == o + Offset[status]

Min2(a, b) == IF a <= b THEN a ELSE b
Max2(a, b) == IF a >= b THEN a ELSE b

Earliest(instants) ==
    IF instants = {} THEN Null ELSE CHOOSE i \in instants : \A j \in instants : i <= j

\* Mutants: the instant at the bound itself is passed over; the bound is taken for
\* the next instant.
NextInstantExclusive(from) == Earliest({i \in Instants : from < i /\ i < from + Horizon})
NextInstantAtOnce(from) == from

\* nextOccurrenceAfter: the first instant at or after another, if the horizon holds one.
NextInstant(from) == Earliest({i \in Instants : from <= i /\ i < from + Horizon})

\* Its callers but createDefinition take an instant from endsAt on for none.
NextOccurrence(from) == IF NextInstant(from) < EndsAt THEN NextInstant(from) ELSE Null

\* A service command ("pause", "resume", "cancel"), a failed pass ("fault") or a
\* finished job Redis forgets ("eviction").
Upset(kind) == kind \in Upsets /\ upsets < MaxUpsets /\ upsets' = upsets + 1

GeneratorIdle == [stage |-> "idle", through |-> 0, planned |-> <<>>, status |-> "ACTIVE",
                  now |-> 0]
AdvancerIdle == [stage |-> "idle", job |-> <<>>, now |-> 0, read |-> "none"]

-----------------------------------------------------------------------------
\* createDefinition; a caller may materialise at once, without a job.
SchedulerInit ==
    /\ definition = [status |-> "ACTIVE", cursor |-> Null,
                     next |-> NextInstant(StartsAt)]
    /\ row = [o \in Occurrences |-> "none"]
    /\ announced = [o \in Occurrences |-> <<>>]
    /\ materialise \in BOOLEAN
    /\ generator = [g \in Generators |-> GeneratorIdle]
    /\ advanceJob = [j \in Jobs |-> "none"]
    /\ advanceAttempts = [j \in Jobs |-> 0]
    /\ advancer = [a \in Advancers |-> AdvancerIdle]
    /\ resuming = [stage |-> "idle", next |-> Null]
    /\ clock = 0
    /\ upsets = 0

AdvanceClock ==
    /\ clock < MaxTime
    /\ clock' = clock + 1
    /\ UNCHANGED <<definition, row, announced, materialise, generator, advanceJob,
                   advanceAttempts, advancer, resuming, upsets>>

-----------------------------------------------------------------------------
\* The tick.

\* Mutant: one job id for all the milestones of an instance.
JobIdOfInstance(o, status) == <<o, "PENDING">>

JobId(o, status) == <<o, status>>

\* enqueueAdvance for a set of instances.
AddAdvanceJobs(occs) ==
    LET new == {j \in {JobId(o, row[o]) : o \in occs} : advanceJob[j] = "none"}
    IN  /\ advanceJob' = [j \in Jobs |-> IF j \in new THEN "delayed" ELSE advanceJob[j]]
        /\ advanceAttempts' = [j \in Jobs |-> IF j \in new THEN 0 ELSE advanceAttempts[j]]

DefinitionDue == /\ definition.status = "ACTIVE"
                 /\ StartsAt <= clock + TickLookahead
                 /\ \/ /\ definition.next # Null
                       /\ definition.next <= clock + TickLookahead
                    \/ definition.next = Null /\ definition.cursor = Null

InstancesDue ==
    {o \in Occurrences : /\ row[o] \in Advanceable
                         /\ Due(o, row[o]) <= clock + TickInterval}

\* The first TickBatch of them by nextTransitionAt.
IsBatch(batch) ==
    /\ Cardinality(batch) = Min2(TickBatch, Cardinality(InstancesDue))
    /\ \A o \in batch, p \in InstancesDue \ batch : Due(o, row[o]) <= Due(p, row[p])

\* Two sweeps; a deep materialise queue (of other definitions) skips the first.
Tick ==
    /\ \/ DefinitionDue /\ materialise' = TRUE
       \/ UNCHANGED materialise
    /\ \E batch \in SUBSET InstancesDue : IsBatch(batch) /\ AddAdvanceJobs(batch)
    /\ UNCHANGED <<definition, row, announced, generator, advancer, resuming,
                   clock, upsets>>

-----------------------------------------------------------------------------
\* The generator.

\* A cursor is before startsAt after a pass that ran before it.
WindowStart == Max2(IF definition.cursor = Null THEN StartsAt ELSE definition.cursor,
                    Max2(StartsAt, clock - CatchUpWindow))
WindowEnd == Min2(clock + Lookahead, EndsAt)

\* occurrencesBetween, one over the cap.
InWindow ==
    LET window == {o \in Occurrences : WindowStart <= o /\ o < WindowEnd}
    IN  {o \in window : Cardinality({p \in window : p < o}) < MaxCatchUp + 1}

\* applyCatchUpPolicy, then the cap: the latest MaxCatchUp of what is kept.
Retained(occs) ==
    LET past == {o \in occs : o < clock}
        kept == CASE Policy = "FIRE_ALL" -> past
                  [] Policy = "SKIP_MISSED" -> {}
                  [] OTHER -> {o \in past : \A p \in past : p <= o}
    IN  (occs \ past) \cup
        {o \in kept : Cardinality({p \in kept : p > o}) < MaxCatchUp}

\* Mutant: occurrences dropped by policy get no row.
PlannedDiscarding == [o \in Retained(InWindow) |-> "PENDING"]

\* planInstances
Planned == [o \in InWindow |-> IF o \in Retained(InWindow) THEN "PENDING"
                                                           ELSE "SKIPPED"]

\* A pass reads the definition and the clock once.
BeginMaterialize(g) ==
    /\ generator[g].stage = "idle"
    /\ materialise
    /\ materialise' = FALSE
    /\ LET empty == WindowEnd <= WindowStart
           stage == CASE definition.status # "ACTIVE" -> "idle"
                      [] empty \/ InWindow = {} -> "readCursor"
                      [] OTHER -> "persist"
       IN  generator' = [generator EXCEPT ![g] =
             IF stage = "idle" THEN GeneratorIdle
             ELSE [stage |-> stage,
                   through |-> IF empty THEN clock ELSE WindowEnd,
                   planned |-> IF empty THEN <<>> ELSE Planned,
                   status |-> "ACTIVE", now |-> clock]]
    /\ UNCHANGED <<definition, row, announced, advanceJob, advanceAttempts, advancer,
                   resuming, clock, upsets>>

\* createMany, skipping rows that exist, and the cursor, in one transaction.
Persist(g) ==
    /\ generator[g].stage = "persist"
    /\ LET plan == generator[g].planned
       IN  row' = [o \in Occurrences |->
                     IF o \in DOMAIN plan /\ row[o] = "none" THEN plan[o] ELSE row[o]]
    /\ definition' = [definition EXCEPT !.cursor = generator[g].through]
    /\ generator' = [generator EXCEPT ![g].stage = "readCursor"]
    /\ UNCHANGED <<announced, materialise, advanceJob, advanceAttempts, advancer, resuming,
                   clock, upsets>>

\* advanceDefinitionCursor reads the definition, then writes its status back.
ReadCursor(g) ==
    /\ generator[g].stage = "readCursor"
    /\ generator' = [generator EXCEPT ![g].stage = "writeCursor",
                                      ![g].status = definition.status]
    /\ UNCHANGED <<definition, row, announced, materialise, advanceJob, advanceAttempts,
                   advancer, resuming, clock, upsets>>

WriteCursor(g) ==
    /\ generator[g].stage = "writeCursor"
    /\ LET next == NextOccurrence(generator[g].through)
       IN  definition' = [status |-> IF next = Null THEN "COMPLETED"
                                     ELSE generator[g].status,
                          cursor |-> generator[g].through,
                          next |-> next]
    /\ generator' = [generator EXCEPT ![g] =
                       IF DOMAIN @.planned = {} THEN GeneratorIdle
                       ELSE [@ EXCEPT !.stage = "imminent"]]
    /\ UNCHANGED <<row, announced, materialise, advanceJob, advanceAttempts, advancer,
                   resuming, clock, upsets>>

ScheduleImminent(g) ==
    /\ generator[g].stage = "imminent"
    /\ LET plan == generator[g].planned
           horizon == generator[g].now + TickInterval
       IN  AddAdvanceJobs({o \in DOMAIN plan : /\ plan[o] = "PENDING"
                                               /\ Due(o, "PENDING") <= horizon
                                               /\ row[o] = "PENDING"})
    /\ generator' = [generator EXCEPT ![g] = GeneratorIdle]
    /\ UNCHANGED <<definition, row, announced, materialise, advancer, resuming,
                   clock, upsets>>

\* A call throws or the worker dies between two steps; the job is retried.
MaterializeFails(g) ==
    /\ generator[g].stage # "idle"
    /\ Upset("fault")
    /\ materialise' = TRUE
    /\ generator' = [generator EXCEPT ![g] = GeneratorIdle]
    /\ UNCHANGED <<definition, row, announced, advanceJob, advanceAttempts, advancer,
                   resuming, clock>>

-----------------------------------------------------------------------------
\* The transition workers.

TakeAdvance(a, o, status) ==
    /\ advancer[a].stage = "idle"
    /\ advanceJob[<<o, status>>] = "delayed"
    /\ clock >= Due(o, status)
    /\ advanceJob' = [advanceJob EXCEPT ![<<o, status>>] = "active"]
    /\ advancer' = [advancer EXCEPT ![a] = [stage |-> "read", now |-> clock,
                                            job |-> <<o, status>>, read |-> "none"]]
    /\ UNCHANGED <<definition, row, announced, materialise, generator, advanceAttempts,
                   resuming, clock, upsets>>

CompleteAdvance(a) ==
    /\ advancer' = [advancer EXCEPT ![a] = AdvancerIdle]
    /\ advanceJob' = [advanceJob EXCEPT ![advancer[a].job] = "completed"]

\* applyNextTransition, its read: without a rule or not yet due, advance() ends.
ReadInstance(a) ==
    /\ advancer[a].stage = "read"
    /\ LET o == advancer[a].job[1]
       IN  IF row[o] \in Advanceable /\ Due(o, row[o]) <= advancer[a].now
           THEN /\ advancer' = [advancer EXCEPT ![a].stage = "update",
                                                ![a].read = row[o]]
                /\ UNCHANGED advanceJob
           ELSE CompleteAdvance(a)
    /\ UNCHANGED <<definition, row, announced, materialise, generator, advanceAttempts,
                   resuming, clock, upsets>>

\* The outbox keeps one event per instance and milestone.
Announce(o, status) ==
    announced' = [announced EXCEPT ![o] =
        IF \E i \in 1..Len(@) : @[i] = status THEN @ ELSE Append(@, status)]

\* Mutant: an update without the status in its where clause.
UnmovedUnchecked(o, from) == TRUE

\* The compare-and-set: the row is still where it was read.
Unmoved(o, from) == row[o] = from

\* The update and the event commit together.
ApplyTransition(a) ==
    /\ advancer[a].stage = "update"
    /\ LET o == advancer[a].job[1]
           from == advancer[a].read
       IN  IF Unmoved(o, from)
           THEN /\ row' = [row EXCEPT ![o] = After(from)]
                /\ Announce(o, After(from))
                /\ advancer' = [advancer EXCEPT ![a].stage = "read"]
                /\ UNCHANGED advanceJob
           ELSE CompleteAdvance(a) /\ UNCHANGED <<row, announced>>
    /\ UNCHANGED <<definition, materialise, generator, advanceAttempts, resuming,
                   clock, upsets>>

\* A transaction of advance() throws: those before it stay committed.
AdvanceFails(a) ==
    /\ advancer[a].stage # "idle"
    /\ Upset("fault")
    /\ LET j == advancer[a].job
       IN  /\ advanceAttempts' = [advanceAttempts EXCEPT ![j] = @ + 1]
           /\ advanceJob' = [advanceJob EXCEPT ![j] =
                 IF advanceAttempts[j] + 1 < MaxAdvanceAttempts THEN "delayed" ELSE "failed"]
    /\ advancer' = [advancer EXCEPT ![a] = AdvancerIdle]
    /\ UNCHANGED <<definition, row, announced, materialise, generator, resuming,
                   clock>>

ForgetJob(j) ==
    /\ advanceJob[j] \in {"completed", "failed"}
    /\ Upset("eviction")
    /\ advanceJob' = [advanceJob EXCEPT ![j] = "none"]
    /\ UNCHANGED <<definition, row, announced, materialise, generator, advanceAttempts,
                   advancer, resuming, clock>>

-----------------------------------------------------------------------------
\* The service.

SetDefinition(status) == definition' = [definition EXCEPT !.status = status]

Pause ==
    /\ Upset("pause")
    /\ SetDefinition("PAUSED")
    /\ UNCHANGED <<row, announced, materialise, generator, advanceJob, advanceAttempts,
                   advancer, resuming, clock>>

\* resume() sets the status whatever it was, then recomputes nextOccurrenceAt.
Resume ==
    /\ resuming.stage = "idle"
    /\ Upset("resume")
    /\ SetDefinition("ACTIVE")
    /\ resuming' = [resuming EXCEPT !.stage = "read"]
    /\ UNCHANGED <<row, announced, materialise, generator, advanceJob, advanceAttempts,
                   advancer, clock>>

RecomputeRead ==
    /\ resuming.stage = "read"
    /\ resuming' = [stage |-> "write", next |->
         NextOccurrence(IF definition.cursor = Null THEN StartsAt ELSE definition.cursor)]
    /\ UNCHANGED <<definition, row, announced, materialise, generator, advanceJob,
                   advanceAttempts, advancer, clock, upsets>>

RecomputeWrite ==
    /\ resuming.stage = "write"
    /\ definition' = [definition EXCEPT !.next = resuming.next]
    /\ resuming' = [stage |-> "idle", next |-> Null]
    /\ UNCHANGED <<row, announced, materialise, generator, advanceJob, advanceAttempts,
                   advancer, clock, upsets>>

\* One transaction: the definition, and its instances that have not opened.
Cancel ==
    /\ Upset("cancel")
    /\ definition' = [definition EXCEPT !.status = "CANCELLED", !.next = Null]
    /\ row' = [o \in Occurrences |->
                 IF row[o] = "PENDING" THEN "SKIPPED" ELSE row[o]]
    /\ UNCHANGED <<announced, materialise, generator, advanceJob, advanceAttempts, advancer,
                   resuming, clock>>

-----------------------------------------------------------------------------
GeneratorStep(g) == \/ Persist(g) \/ ReadCursor(g) \/ WriteCursor(g)
                    \/ ScheduleImminent(g)
AdvancerStep(a) == ReadInstance(a) \/ ApplyTransition(a)
TakeJob ==
    \E a \in Advancers, o \in Occurrences, s \in Advanceable : TakeAdvance(a, o, s)

SchedulerNext ==
    \/ AdvanceClock
    \/ Tick
    \/ \E g \in Generators : BeginMaterialize(g) \/ GeneratorStep(g)
                             \/ MaterializeFails(g)
    \/ TakeJob
    \/ \E a \in Advancers : AdvancerStep(a) \/ AdvanceFails(a)
    \/ \E j \in Jobs : ForgetJob(j)
    \/ Pause \/ Resume \/ RecomputeRead \/ RecomputeWrite \/ Cancel

SchedulerSpec == SchedulerInit /\ [][SchedulerNext]_schedulerVars

\* Time passes, the tick repeats and is not throttled for ever, waiting jobs
\* are taken and passes run to their end.  Redis need not forget any job.
SchedulerFairness ==
    /\ WF_schedulerVars(AdvanceClock)
    /\ WF_schedulerVars(Tick /\ (DefinitionDue => materialise'))
    /\ WF_schedulerVars(\E g \in Generators : BeginMaterialize(g))
    /\ \A g \in Generators : WF_schedulerVars(GeneratorStep(g))
    /\ WF_schedulerVars(TakeJob)
    /\ \A a \in Advancers : WF_schedulerVars(AdvancerStep(a))
    /\ WF_schedulerVars(RecomputeRead \/ RecomputeWrite)

SchedulerFairSpec == SchedulerSpec /\ SchedulerFairness

-----------------------------------------------------------------------------
SchedulerTypeOK ==
    /\ definition \in [status : DefinitionStatus,
                       cursor : {Null} \cup 0..(MaxTime + Lookahead),
                       next : {Null} \cup Instants]
    /\ row \in [Occurrences -> InstanceStatus]
    /\ announced \in [Occurrences -> Seq(InstanceStatus)]
    /\ \A g \in Generators : DOMAIN generator[g].planned \subseteq Occurrences
    /\ advanceJob \in [Jobs -> {"none", "delayed", "active", "completed", "failed"}]
    /\ advanceAttempts \in [Jobs -> 0..MaxAdvanceAttempts]
    /\ \A a \in Advancers : advancer[a].read \in InstanceStatus
    /\ clock \in 0..MaxTime

\* schedule-transition.service.ts: "an event can never exist without the state
\* it announces, and vice versa".  The events of an instance are those of the
\* milestones up to its status, each once and in order, with several workers
\* advancing it, retries, redelivered jobs and a cancellation in between.
EventsMatchStatus ==
    \A o \in Occurrences :
        announced[o] = IF row[o] \in {"none", "SKIPPED"} THEN <<>>
                       ELSE SubSeq(Path, 2, Rank(row[o]))

\* No unexplained gap: an occurrence the cursor has passed has a row, even a
\* SKIPPED one, unless it was older than the catch-up window; and a definition
\* is completed only when no occurrence is left.  Racing passes move the cursor
\* both ways.  It holds of cadences whose next instant is always within the horizon:
\* one beyond it is not found, and the definition is completed all the same.
Forgotten(o) == row[o] = "none" /\ o + CatchUpWindow >= clock

NoGap ==
    \A o \in Occurrences :
        o < definition.cursor \/ definition.status = "COMPLETED" => ~Forgotten(o)

\* The occurrences of an active definition all get their rows, with a cursor that
\* racing passes and resumptions rewrite, unless it is paused or cancelled: it is
\* never completed, or left out of the tick's sweep, with an occurrence to come
\* (none being further from the one before than the horizon).
OccurrencesAreMaterialised ==
    \A o \in Occurrences :
        definition.status = "ACTIVE"
            ~> (~Forgotten(o) \/ definition.status \in {"PAUSED", "CANCELLED"})

\* A window that is to open runs its course to the review milestone: no job id
\* retained in Redis stands in the way of a later milestone, and fewer failures
\* than the queue's attempts lose none.
WindowsRunTheirCourse ==
    \A o \in Occurrences :
        row[o] = "PENDING" ~> row[o] \in {"REVIEW_DUE", "SKIPPED"}

=============================================================================
