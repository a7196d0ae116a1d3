# StratAlign in TLA+

StratAlign is a strategy-management platform: a TypeScript backend on PostgreSQL
(Prisma), with background workers on BullMQ/Redis, an XState approval machine and
a Next.js frontend. What can go wrong in it without a test noticing is what
happens *between* processes: several API and worker replicas, at-least-once
delivery, retries, process deaths and delayed jobs, around rows that are protected
by an advisory lock here, a unique index there, a compare-and-set elsewhere. This
directory models that core, checks it with TLC and proves parts of it with TLAPS.

Sources below are relative to `src/apps/backend/src/` unless they begin with
`packages/`. `PROJECT.json` maps each definition to its source lines.

## Inventory

| Component | State | Operations | Hard behaviour | What makes it correct |
|---|---|---|---|---|
| Audit journal (`modules/audit`) | `journal_entries`: hash chain | append, verifyChain, SIEM forwarding | concurrent appends, redelivery, death inside the transaction | chain verifies always; one row per event; SIEM never ahead of the journal; tampering shows |
| Outbox and dispatch (`events`) | `domain_events`, dispatch jobs | publishWithin, relay sweep, dispatch | replicas sweeping without locks, partial fan-out, lost replies, forgotten jobs | at-least-once; duplicates only after a death or an eviction |
| Queues (`queue`) | BullMQ jobs, dead letters | enqueue, retry, dead-letter | stalled jobs, retention of ids, exhausted attempts | every job completes or fails for good |
| Approval machine and governance (`packages/machines`, `modules/governance`) | cases, decision log, escalations | create, submit, transition, raise, acknowledge | concurrent decisions, timers of decided cases and earlier rounds, arbitrary definitions | case, log and outbox agree; separation of duties; decisions final; overdue cases escalated |
| Scheduler (`modules/scheduler`, `modules/cadence`) | definitions with a cursor, instances, transition jobs | tick, materialise, advance, pause, resume, cancel | racing passes, lost updates of the cursor and the status, retained job ids | no gap; completed only when exhausted; events match the status; windows run their course |
| Notifications (`modules/notifications`) | deliveries, digests, delivery jobs | request, digest sweep, dispatch | dedupe races, overlapping sweeps, death between send and record | an item in one digest; a row is settled |
| Performance (`modules/performance`) | measurements (supersession chain), capture sessions, status results, roll-ups | record, start, submit, recall, consume, recompute | concurrent corrections, redelivered triggers, reads outside the transaction | one effective measurement per period; one result per event, of a row no older than it |
| Strategy (`modules/strategy`) | plan versions, nodes, edges, staged changes | create, open, close, carry forward, write, stage, activate | plans opened at once, redelivered approvals, checks before writes | one active plan; a change is applied once, and only when approved |
| Portfolio import (`modules/portfolio`) | hierarchy imports | dry run, resolve, commit, resume | a commit repeated or resumed while its approval is being activated | the import and its staged change stay one |
| Value (`modules/value`, `packages/machines` value life cycle) | benefits, baselines, realised amounts, check-ins, gate reviews | transition, record, escalate, evaluate, decide | stale reads written back unconditionally, overlapping sweeps, several decisions | the state rests on approvals and facts; a decided gate stands |
| Execution (`modules/execution`) | initiatives and their stage | transitionStage; CRUD of milestones and risks | the owner moves a stage while a gate stops it | a stopped initiative is done |
| KPI registry (`modules/registry`) | definitions, versions | draft, publish, retire | checks before and under an advisory lock per KPI | versions form a line; a retired KPI is final |
| OKRs, alignments, KPI hierarchy (`modules/registry`) | OKRs, alignment sets, roll-up edges | create, set, link | concurrent links | the hierarchy stays acyclic (it need not, see below) |
| AI suggestions (`modules/ai`) | claims (provenance rows) | accept, claim, settle, release | concurrent accepts, failures at each step, a winner that dies | a suggestion creates one record |
| Rules engine (`modules/rules`) | versions of each rule, one of them in force | create a draft, publish, evaluate | reads before writes with no lock, only unique indexes | versions form one line; what is published never goes back |
| Scorecards (`modules/scorecard`) | perspectives, weightings by date, strategy maps | add, remove, preview, propose, publish, link | publications at once, perspectives and formulas that change under an approved case | what is published rests on its own approval; one map is published |
| Integrations, IAM, traceability, assistant | CRUD, read models, pure functions | | | |
| Frontend, API transport, pixelrag, infrastructure | none of their own | | | |

Interactions: every module writes its state and its domain events in one
transaction (`EventBusService.publishWithin`); the relay turns events into dispatch
jobs; subscribers (audit journal, governance timers, strategy activation,
recompute, gate creation, notifications, webhooks) run from those jobs. The
scheduler tick and the digest sweep are repeatable jobs. Accepting a suggestion
calls the registry and alignment services; a gate's stop writes the initiative and
its benefits in one transaction; strategy, registry and value consult governance
(`assertApproved`) before they write, and not in the transaction that writes.

## Modules

| Module | Models | EXTENDS / INSTANCE |
|---|---|---|
| `AuditJournal` | `journal.service.ts`, `audit-event.subscriber.ts` | |
| `AuditJournalProofs` | its theorems | `AuditJournal`, `TLAPS` |
| `ReliableDelivery` | abstract at-least-once promise | |
| `EventDelivery` | `events/*`, `queue/*`, `workers/event.workers.ts` | INSTANCE `ReliableDelivery` |
| `Governance` | `modules/governance/*`, `packages/machines` approval workflow | |
| `GovernanceProofs` | its theorems | `Governance`, `TLAPS` |
| `Scheduler` | `modules/scheduler/*`, the interface of `modules/cadence` | |
| `NotificationDelivery` | `modules/notifications` request, digest, dispatcher, worker | |
| `QueueProofs` | theorems about the last three: the components that run on BullMQ jobs | `EventDelivery`, `Scheduler`, `NotificationDelivery`, `FiniteSetTheorems`, `WellFoundedInduction`, `TLAPS` |
| `Measurements` | `measurement.service.ts`, `capture-session.service.ts` | |
| `Recompute` | `recompute.service.ts` and its subscriber, driven by the rows of the former | `Measurements` |
| `MeasurementsProofs` | theorems about both | `Recompute`, `TLAPS` |
| `StrategyPlans` | `strategy.service.ts`, activation, approval subscriber, the edge trigger | |
| `HierarchyImport` | the import of `portfolio.service.ts`, activated as a staged change | `StrategyPlans` |
| `StrategyProofs` | theorems about both | `HierarchyImport`, `TLAPS` |
| `Benefits` | `value.service.ts`, `scheduled-value.service.ts`, `packages/machines` value life cycle | |
| `ValueGates` | `value-gate.core.ts`, `transitionStage()` of execution | `Benefits` |
| `ValueProofs` | theorems about both | `ValueGates`, `FiniteSetTheorems`, `WellFoundedInduction`, `TLAPS` |
| `KpiRegistry` | `kpi-registry.service.ts` | |
| `Suggestions` | accept of `ai-suggestion.service.ts`, creating in the registry | `KpiRegistry` |
| `SuggestionsProofs` | theorems about the registry and about suggestions | `Suggestions`, `TLAPS` |
| `RuleVersions` | `rules.service.ts`: the versions of one rule | |
| `Scorecards` | `scorecard.service.ts`: perspectives, weightings, maps | `RuleVersions` |
| `ScorecardsProofs` | theorems about both | `Scorecards`, `TLAPS` |
| `MC*` | constants of TLC's instances | |

`EventDelivery`, `Scheduler` and `NotificationDelivery` share no state and are checked apart.
`QueueProofs` extends all three, so the names of the latter two are their own
(`SchedulerInit`, `NotificationTypeOK`, `advanceJob`, `sendJob`, ..).

### How state and actions correspond to the code

Atomicity follows the code's awaits. A PostgreSQL transaction that takes an
advisory lock first is split where something else can happen in between: the
lock, the reads, the commit. A statement outside a transaction is an action. What
a process holds in memory across awaits is a variable of its own (`previous`,
`relay`, `request`, `raising`, `generator`, `advancer`, `resuming`, `requester`,
`sweeper`). A job is a state (`waiting`/`delayed`, `active`, `completed`, `failed`)
under its id: adding a job whose id is retained does nothing, which is what the code
relies on.

* **AuditJournal.** `journal` is the table, keyed by its unique sequence number.
  `Handle` .. `Forward` are the steps of `handle()` in order; `Crash` rolls back and
  drops the lock. `Hash` is a constant operator: TLC takes the tuple of its
  arguments, the proofs any operator. Appends without a source event id (only
  scripts make them) are left out.
* **EventDelivery.** `outbox` and the relays' sweeps; `job`, `attempts`, `stalled`,
  `dead` stand for Redis. `EnqueueFails` covers both a call that never arrived and a
  reply that was lost. `Known` lets a build lack a subscriber that the relay still
  enqueues for. An event wakes at least the journal's wildcard subscriber.
* **Governance.** A definition is a set of transitions (any graph the schema
  accepts) with an initial state. `BeginTransition` is the lock, the read and the
  machine's step; `CommitTransition` everything the transaction writes, the two
  outbox rows included. An answer of the rules engine is arbitrary: a guard that
  fails refuses the request, which changes nothing. `BeginRaise`/`CommitRaise` are
  `raise()` under its own lock. Time is a counter; the outbox and the queue between
  the two halves are reduced to "an announced deadline is delivered, perhaps late,
  perhaps again", which is what EventDelivery establishes.
* **Scheduler.** One definition. The instants its cadence denotes are a constant set, of
  which those from `startsAt` to before `endsAt` are its occurrences; `NextInstant` is the
  search of `nextOccurrenceAfter()`, which looks no further than `Horizon` (400 days). Time
  starts when the definition is created, before or at `startsAt`. The
  milestones of a window are offsets. `Tick` is one sweep, `BeginMaterialize` ..
  `ScheduleImminent` the awaits of `materialize()`, `ReadInstance`/`ApplyTransition`
  the loop of `advance()`. Its cap of 8 transitions is above the four there are.
* **NotificationDelivery.** One recipient and channel. A digest is identified with
  its summary delivery. `Load` .. `JobDone` are the awaits of `dispatch()`,
  `AttemptFails` its catch with the worker's.
* **Measurements, Recompute.** One series: a KPI version, scope and period. `rows` is
  append-only, `supersedes` an index. `BeginRecord` is the advisory lock with the
  supersession check, `CommitRecord` the insert with its outbox event; `submit()` is
  four actions (`SubmitRead`, `SubmitResolve`, the record, `SubmitMark`), as none of
  its awaits share a transaction. In `Recompute` a worker carries what it has read
  from step to step; the insert with its unique dedupe key is one action. Delivery is
  the promise of `ReliableDelivery`: an event not yet handled is delivered, also to a
  second worker. The threshold rule is a constant function of the value.
* **StrategyPlans, HierarchyImport.** A node is known by its lineage: its copy in
  another plan is the same element. A request reads the plan (`ReadPlan`), and then
  stages (`Stage`) or writes (`WriteDraft`); an edge is checked by the trigger in
  `WriteDraft` and visible with `InsertEdge`. `CloseOthers` and `Open` are the two
  statements of `openPlanVersion()`, the second of which meets the partial unique
  index. `Activate` takes the row lock of the change; `CommitActivation` (or
  `CommitWithImport`) is everything its transaction writes. A case names the change
  it is about before the change exists, as the service does.
* **Benefits, ValueGates.** One benefit of one initiative. `Read` .. `Write` are the
  awaits of `transition()`: the row is read, a case is opened or consulted, the
  machine gives the next state, and the update writes it, with the case consulted, by the
  benefit's id and whatever the row has become since. `ReadOverdue`, `OpenEscalation`, `Raise`, `Link` are the sweep's
  separate transactions. A gate is created, linked to a case, evaluated and decided
  by different processes (`worker`, `decider`); `CommitDecision` is the transaction
  under the gate's lock, the stop of the initiative and its benefits included.
* **KpiRegistry, Suggestions.** A definition's versions are a sequence. `BeginDraft`,
  `BeginPublish`, `BeginRetire` take the advisory lock of the KPI and check; the commits write.
  `publishVersion()` reads its version and asserts the approval before the lock
  (`ReadDraft`, `AssertApproved`). A suggestion's `claim` is the provenance row;
  `Accept` .. `AwaitWinner` are the awaits of `acceptOne()`, and every one of them may
  fail (`CreationFails`, `SettleFails`) or be the last of a process (`CallEnds`).
  KPIs the suggestions create are drafted, published and retired by the registry's
  users at the same time.
* **RuleVersions, Scorecards.** The rows of one rule, in the order of their versions.
  `FindCurrent`, `FindLatest` are the queries of `createDraft()` and `CommitDraft` its
  writes; `FindDraft`, `CommitPublish` those of `publish()`. A row that the second query
  finds is superseded by the draft but stays as it is. Neither transaction locks what it
  reads, so any other may commit in between; the unique indexes (`Fits`) decide at the
  insert. A weighting is published in four steps, each a query of `publishWeighting()`
  (`CheckProposal`, `RequireRule`, `ReadCurrent`, `PublishWeighting`); those of
  `previewWeighting()` only decide whether it fails, and are one action. Links are chosen
  by one query and written by the next. `FindPublished` and `PublishMap` are the two
  updates of `publishMap()`: the first sees the maps that were published when it began,
  the second meets the partial unique index (`OnlyPublished`). The id of a perspective
  that was removed is not used again. A scorecard is created with any perspectives, for which
  there is no case (`balanced-scorecard.service.ts`). A link for an unknown map opens a draft
  beside those there are (`MissMap`).

## Checks

The runs, with what each shows:

| Run | Instance | Shows |
|---|---|---|
| `journal` | 2 workers, 3 events (2 security) | `ChainVerifies`, `OneRowPerEvent`, `TamperingShows` |
| `relays` | 2 replicas, 1 event, 2 subscribers (1 unknown), batch 1, 2 attempts, 1 fault, 2 deaths, 1 eviction, fair | `PublishedIsQueued`, `DuplicatesCollapse`, `ImplementsReliableDelivery` |
| `cases` | 1 case, 2 users, 2 servers, 2 workers, 2 rounds of changes, 1 roll-back, fair | `DecisionsAgree`, `SeparationOfDuties`, `DecidedIsFinal`, `OverdueIsEscalated` |
| `stale` | smallest | violation of `StaleTimerIsNoOp` |
| `courses` | 1 occurrence, 2 transition workers, 1 upset, fair | `EventsMatchStatus`, `WindowsRunTheirCourse` |
| `occurrences` | 2 occurrences, instants before `startsAt` and after `endsAt`, 2 generators, 1 upset, fair | `NoGap`, `OccurrencesAreMaterialised` |
| `deliveries` | 2 keys, 2 callers, 2 sweeps, 2 digests, 3 faults, 1 death, fair | `EachItemInOneDigest`, `DeliveriesAreSettled` |
| `performance` | 2 callers, 2 sessions, 2 rows, 2 workers, 1 fault | `ChainIsLinear`, `OncePerEvent`, `FreshAsItsEvent` |
| `strategy` | 3 plans, 4 nodes, 2 changes, 2 users, 2 workers, 2 requests, 1 import | `OneActivePlan`, `AppliedOnceAndApproved`, `ImportFollowsChange` |
| `value` | 2 users, 2 sweeps, 2 check-ins, 1 owner, 2 workers, 2 members of the committee, 3 cases | `LifecycleIsFounded`, `StopIsTerminal`, `GatesStand` |
| `registry` | 2 KPIs of 2 versions, 2 users, 2 suggestions (a KPI, an OKR), 2 people accepting | `VersionsAreLinear`, `RetiredIsFinal`, `OneRecordPerSuggestion` |
| `scorecard` | 2 rule authors, 2 versions, 2 editors, 1 perspective, 1 link, 3 cases, 3 weightings, 2 maps, 1 tick | `VersionsFormOneLine`, `PublicationsAreFounded`, `PublishedNeverGoesBack` |

Each component also has its type invariant in one run, or (rules and scorecards) as part of
the proved invariant. Each property of a passing run
has a mutant: an operator beside the code's, in the module, that stands for a
plausible bug and makes TLC report that property.

**Bounds.** Every unbounded thing is bounded by a named constant in a guard
(`MaxFaults`, `MaxCrashes`, `MaxEvictions`, `MaxUpsets`, `MaxTime`, `MaxLog`). Two
actors of each kind suffice for the races, which are pairwise: two transactions of
one lock, two readers of one row, two writers of one cursor. Two attempts tell a
last one from one before it. One or two failures suffice where the hazard is what
one failure interrupts; two deaths let a job stall for good. One event is enough for the relays:
events meet only in the batch of a sweep, which takes them one by one. Symmetry is used in
runs without fairness only. Deadlock is not checked
where the system may stop: every row settled, every budget spent.

Four runs also have a state constraint (`Narrow` in their MC modules), which keeps
apart hazards that do not meet. `performance`: two events at most, and either callers
and sessions race over the rows while no worker runs, or the workers race over rows
recorded one at a time, without a session. `value`: two actors are busy at a time, and
either the benefit runs its course with its check-ins or its initiative comes to its
first gate; a value is realised only while it is tracked. `registry`: two calls are
under way at a time, one KPI has a second version, and one is retired. `scorecard`: two
requests are under way at a time, maps are explored apart from weightings (they share
nothing but the cases), one case, the first if any, is about perspectives, two are about
weightings, no case is rejected, and a third
weighting is published under one version of the rule only. All the races
the properties are about are between two actors; what the constraints leave out is a
third. The theorems about the chain and what is recomputed from it, staged changes, value,
the registry, the suggestions, the rules and the scorecard have no such bound.

**Fairness.** Weak fairness only, of what the code's scheduling guarantees: a
repeatable job keeps sweeping (relay, tick, digest), a worker takes a waiting job,
a step that has begun goes on, time passes. Nothing is assumed of users (no
request has to be made), of subscribers or providers (they may fail every
time), or of Redis's retention. Failures and deaths are bounded, so "in the end" is
after the last of them. In `Scheduler` the tick's fairness says it is not
throttled for ever; in `Governance` that an escalation job does not run out of its
five attempts, which `MaxCrashes` is below.

The modules from `Measurements` on have no fairness: a person may leave a
draft, a benefit or a claim where it is, and that an event reaches its subscriber is
what `relays` shows.

### Disagreements found

`stale` is a run: `governance-escalation.service.ts:88` takes the timer of a decided
case for a no-op; `raise()` and `transition()` lock different keys, so an escalation can
be created for a case decided meanwhile.

The models reach these as well; they are written down here and have no run of their own:

* `cadence-generator.service.ts:393` completes "a cadence with nothing left to fire", but asks
  `nextOccurrenceAfter()`, whose search ends 400 days on (`cadence.engine.ts:66`). An ADHOC `runAt`
  further away than that starts with neither a next occurrence nor a cursor, so the first tick
  sweeps the definition once it has started, and its first pass completes it; the occurrence never
  gets a row. So does one after a longer gap, as of a cadence every 12 months on day 29 with
  `SKIP_MONTH`. The same file says at 148 that nothing is silently discarded; what a pass cannot
  list for its cap is (see `RoomForWindow` below).
* `event-dispatcher.service.ts:22` means an unknown subscriber to fail permanently;
  BullMQ retries it like any other error, as nothing wraps `PermanentError` for it.
* `scheduler.service.ts:135` discards instances that have not started; a pass that
  planned before the cancellation inserts PENDING ones after it, and its cursor update
  may write the status ACTIVE back.
* `notification.dispatcher.ts:43` excludes a second copy; a death between the send and
  `markSent` sends one.
* `recompute.service.ts:225` announces a breach only on an actual transition; two events
  of one period recomputed at once both read the old status, and the crossing is
  announced twice.
* A play "may belong to at most one Area of Focus" (migration
  `20260812184500_wire_portfolio_relationship_rules`): the trigger counts what is
  committed, so two edges inserted at once exceed the maximum.
* `kpi-hierarchy.service.ts:29` rejects any edge that would close a cycle; two calls at
  once can close one between them (read in the code, not modelled).
* `rules.testcontainers.spec.ts:241` "prevents creating two current drafts": of two requests
  at once, the one that found no current row takes the highest version, which is the other's
  new draft by then, and drafts beside it. Both are current until one of them is published.
* `scorecard.errors.ts` lets only draft maps be edited; the state is checked one query before
  the link is written, and a link can be written to a map published in between. Nor are the
  links a map is published with compared with those its case was approved for.
* `scorecard.service.ts:561` compares the active weighting with the perspectives and the
  formulas of today. Once a perspective is added or removed, or the formula has a new version,
  no weighting can be proposed any more.
* A perspective's case and a weighting's case serve as often as they are presented
  (`scorecard.service.ts` compares no perspective with the case): two perspectives can be
  added by one approval, and one weighting published twice.
* Two `setPlacement()` calls at once can put an objective in two perspectives (read in the
  code, not modelled).
* A gate's decision and its approval case may differ: the vote is cast before the gate's
  lock (`value-gate.core.ts:281`), and the committee member who loses the lock may have
  decided the case.

## Proofs

Every invariant and action property that a run checks is also proved, for every value of the
constants that satisfies the named assumptions (`DecisionsAgree` and `NoGap` under the
hypotheses explained below). Where a property is not inductive, the strengthening is a
conjunction of named parts, kept by one lemma per action or per group of actions.

**`AuditJournalProofs`**, for every set of workers and events and every digest:
`ChainAlwaysVerifies`, `NeverJournalledTwice`, `JournalIsWellTyped`, `AppendsNeverCollide`,
`SiemFollowsJournal`, and for an injective digest `TamperingAlwaysShows`.
(`InsertNeverCollides` and `SiemAfterJournal` are proved and not in a run.) The inductive
invariant `IndInv` is `TypeOK /\ Contiguous /\ LockHeld /\ ReadsHold /\ OneRowPerEvent /\
ChainVerifies /\ SiemAfterJournal`. `ChainVerifies` alone is not inductive: an insert keeps
it only if the sequence number read is still the last, which needs that a worker past its
look-up holds the lock (`LockHeld`) and that what it has read is still so (`ReadsHold`); and
the next number is free only if the numbers have no hole (`Contiguous`).

**`QueueProofs`**, about the three components that run on BullMQ jobs.

* EventDelivery: `PublishedEventsAreQueued`, `DuplicatesAlwaysCollapse` and
  `TransportIsWellTyped`, for any events, subscribers, relays, faults, deaths and evictions.
  `TransportInv` adds `SweepsAreSound` (what a sweep lists as done has all its jobs, though it
  read the row before another replica published it), `JobsHaveAttemptsLeft`, `NothingAhead` and
  `OneRunPerJob`: the job, not the relay, is what makes a second enqueue harmless.
  `DeliveryIsAtLeastOnce` is the safety part of the refinement of `ReliableDelivery`: `Init`
  implies `Promise!Init` and every step maps to `[Promise!Next]` on the outcomes. Its fairness
  part stays with TLC (`ImplementsReliableDelivery`).
* Scheduler: `EventsAlwaysMatchStatus`, `SchedulerIsWellTyped`, and `NoOccurrenceIsPassedOver`.
  `SchedulerShapes` says that no two advancers hold the same job, that a held job is active and
  that an advance starts from a status that has a rule. For the gap, `PassesMissNothing` says
  what an open pass still has to do for the occurrences it is about to move the cursor past; a
  pass may be overtaken by any number of others, a pause or a resumption, because a row is
  never removed and time does not go back (`NeverForgottenAgain`).
  The theorem has two hypotheses. `RoomForWindow`: no window holds more occurrences than
  `maxCatchUpOccurrences + 1`, what a pass can list. Without it the theorem is **false**, and
  TLC shows it on the smallest instance: with three occurrences, a lookahead of 3 and a cap of
  1, a pass lists two, moves the cursor to the end of the window, and the third has no row,
  not even a SKIPPED one. The comments at `cadence-generator.service.ts:110` ("detectable rather
  than silently truncated") and `:148` ("unexplained gap") say otherwise. The configuration
  allows it (`env.validation.ts`: cap at least 1, lookahead unbounded); with the defaults (cap 50,
  lookahead 300 s) and monthly or quarterly cadences the hypothesis holds, and it holds of the
  instance of `occurrences`. The second hypothesis is `HorizonSpansGaps`: as long as an occurrence
  is left, some instant of the cadence follows within the horizon. Without it the theorem is false
  too: with the one occurrence at 3 and a horizon of 2, the first pass completes the definition, and
  TLC reports `NoGap`. It holds of cadences that recur at least every 13
  months, and of an ADHOC instant within 400 days of the definition's creation; no validation asks
  for either. `OccurrencesAreMaterialised` needs it as well, and `occurrences` has the smallest
  horizon that spans the gaps of its instants.
* NotificationDelivery: `EachItemIsInOneDigest`, `NotificationsAreWellTyped`. `NotificationInv`
  adds `BuildsAreSound` (what a sweep is about to close out begins with a row no deferred one
  arrived before, and is all deferred unless a digest of that window exists: the unique key of
  the window is then what refuses the second sweep), `SentRowsAreTheirOwn` (a row being sent
  is none a digest may take) and `SendsOK`.

**`GovernanceProofs`**: `DutiesAreSeparated` and `GovernanceIsWellTyped` for every definition the
schema accepts; `DecisionsAreFinal` for those whose decided states have no transition. The
invariant `CaseInv` is `CaseTypes /\ RequestsHold /\ NoLogBeforeCreation /\
SeparationOfDuties`; `RequestsHold` says that an open request still holds its case's lock and
that what it read and was let through for is still so (without it a commit could log a decision of
whoever became the submitter, or leave a decided state). `DecisionsAlwaysAgree` has the
hypothesis `RecordsDecisions`: the definition logs and announces exactly what it decides, and
reopens nothing. A definition is data, and one without it is accepted: a transition to
`approved` without `emitApprovalGranted` decides a case nobody hears of, so the property is about
the definition as well as the code. `DefaultDecisionsAgree` shows that the default workflow
satisfies it, behind whatever guards. `StepsFit` is what it adds to `CaseInv`: the actions of an open
request are those of a transition of the definition.

**`MeasurementsProofs`**: `ChainStaysLinear`: each row supersedes the one before it,
for any number of callers and corrections. `ChainInv` adds `Validated` to it: the
holder of the lock has checked its target against the rows as they still are. The lemma
`ValidNamesNewest` is the heart: in a chain, what the validation lets through can only be
the newest row, as any other is superseded already. With `ResultInv` it proves
`ResultsOncePerEvent` and `StatusesAreFresh` for any number of workers: the newest row
is the one a worker resolves (`CurrentIsNewest`), the event was committed before it was
delivered, and rows are only added (`CallersOnlyAdd`), so the row read is no older than the
event's; the insert of a result meets the key of the event it was computed for.
`RecomputeIsWellTyped` adds the types of the calls; `HasLatest` in it is why "the latest status"
always exists: readings of the clock are bounded by the clock.

**`StrategyProofs`**: `EachChangeAppliedOnce`, `OnePlanIsActive`, `ImportAlwaysFollowsChange`,
`StrategyIsWellTyped`. `ActivationInv` says what a worker that has locked a change may rely
on: it is pending, its case is approved, and no other worker has it. All the other actions are
`Harmless`: an approved case stays approved and a change that exists stays as it is, which is
one lemma for each of the two modules. `OneActivePlan` is inductive but for the domain of
`status`: the plan that opens closes each active plan it saw and meets the unique index for the
rest. `ImportInv` adds what the requests between the transactions of a commit rely on: whoever is
to submit or to mark has a change to do it for, and whoever is to mark has submitted its case.
The types need more than shapes: edges join nodes that are present, so every request and staged
change must still name nodes of its plan when it is written (`Stands`), which holds because no
plan and no node goes away (`Grows`).

**`ValueProofs`**: `LifecycleStaysFounded`, the action property `DecidedGatesStand`,
`StopStaysTerminal` and `ValueIsWellTyped`, for any users, workers and committee. A request
writes the row it read however long ago, so `LifecycleInv` says of each request, not only of the
benefit, that what it is about to write is founded (`RequestFounded`). That survives whatever
the others do because no step takes an approval or the baseline back (`NextKeepsCases`).
`GateInv` says that a member about to commit holds the lock of its gate alone and found it
undecided under it, that whoever moves the initiative holds its row alone and found it not
done, and that a gate nobody has created has no evidence. `ValueShapes` adds to the shape of
every row what the calls rest on (`CallsOK`): a request past its read has a state to write, the
check-ins it defines reviews for exist, a sweep under way has a check-in left, a worker a gate.
`case` and `link` are numbers of cases there are, so the proof goes by the number of cases
after the step (`HoldsStep`); the earliest of a set of check-ins exists because the naturals are
well-founded (`LeastExists`).

**`SuggestionsProofs`**: `VersionsStayLinear` and the action property `RetirementIsFinal`,
for the registry composed with accepted suggestions. `RegistryInv` says that whoever is in
a transaction holds the lock of its KPI, that the KPI was not retired when it took it, and
that what it read under it is still so. `OneRecordEach`: `ClaimInv` says that a caller past the
claim holds the one open claim of its suggestion and that the suggestion has no record but the
one this caller has made; a claim is released only by a caller that has made none.
`SuggestionsAreWellTyped` rests on both, and says that a claim names a record from the moment it is
settled.

**`ScorecardsProofs`**: `VersionsStayInLine`, the action property `PublicationStays`, and
`PublicationsStayFounded`. `RulesInv` says that the versions form a line and that a version which
some request was decided from exists. Because they form a line, a publication supersedes the
version just before its own and no other, so one that commits late, over versions published
since, leaves those as they are. `ScorecardInv` adds
what each request holds: the case it publishes from is approved, the formula it checked has
left the draft status, the maps it is about to demote exist. These survive the actions of
others because approved cases and rule rows only grow (`CasesKept`, `RowsKept`), although
perspectives, weightings and maps do not stay as they were read.

**Assumptions.** Bounds are naturals: `BoundsAssumption` (EventDelivery, Governance, Measurements,
StrategyPlans, Benefits, Scorecards), `LimitsAssumption` (NotificationDelivery),
`SchedulingAssumption` (Scheduler), `VersionAssumption` (KpiRegistry), `MaxRulesAssumption`
(RuleVersions). A value that stands for nobody or nothing is none of the others:
`NobodyAssumption` (AuditJournal, Governance), `CallersAssumption` (Measurements),
`WindowAssumption` (Recompute), `NoIdAssumption` (StrategyPlans), `NoNodeAssumption`
(HierarchyImport), `NoOneAssumption` (KpiRegistry), `RecordAssumption` (Suggestions),
`DisjointAssumption` (NotificationDelivery). The rest say what the data are: `SecurityAssumption`,
`EventsAssumption` and `InterestedAssumption` (each event has a subscriber, as the journal takes
all), `DefinitionAssumption` (the schema), `InstantsAssumption` and `OffsetAssumption` (the order
of a window's milestones, as `planInstances()` computes them from durations that are not negative), `ImportsAssumption`,
`CharterAssumption` (the plan that is open at first), `MonthsAssumption`, `StartAssumption`,
`KpiAssumption`, `SuggestedAssumption`. TLC evaluates all of them in the runs.

**Only model-checked.** Liveness, which the prover does not reach: `OverdueIsEscalated`,
`WindowsRunTheirCourse`, `OccurrencesAreMaterialised`, `DeliveriesAreSettled`, and the fairness
part of `ImplementsReliableDelivery`. That `RoomForWindow` and `HorizonSpansGaps` hold is checked
of the constants of a run, and argued above for the program's. `StaleTimerIsNoOp` is violated.

## Not modelled

* Calendar arithmetic (time zones, fiscal periods, business days): pure functions
  over dates; the scheduler's occurrences are a constant.
* Backoff delays and job priorities: a retry may come at any time.
* Contents: templates, payloads, rule bodies, rendering, HTTP.
* Registration of workflow definitions and the read queries.
* Of performance: target series, commentary, read views. Of strategy: owners,
  `applyApprovedChanges()` (nothing calls it), the refresh of the traceability view. Of
  value: evidence, feeds, the taxonomy, `createGateReview()` (nothing calls it). Of
  execution: milestones, risks, dependencies. Of the registry: rule bindings, OKR
  progress, re-alignment, the KPI hierarchy. Of suggestions: the capture schedule
  (best effort) and their generation by a language model. Of rules: evaluation. Of
  scorecards: placements, the order of perspectives, scores, read views.
* Snapshots: one lock per aggregate, and dates that the caller chooses; a run of their own
  is planned.
* CRUD modules, read models, IAM, integrations, the API and the frontend: most of the
  repository's lines, and no protocol between processes.

## Plan

1. A second instance in `Scheduler`'s runs (starvation of a batch).
2. Proofs: the safety halves of the liveness properties, which only fairness then completes:
   as long as nobody has died, a PENDING delivery has a job or a call about to add one
   (`DeliveriesAreSettled`), a round that is overdue has a timer or an escalation of its own
   (`OverdueIsEscalated`), a window short of its last milestone has a job not yet used up
   (`WindowsRunTheirCourse`). An abstract append-only log for AuditJournal, and the refinement.
3. The KPI hierarchy, rule bindings and OKR progress beside `KpiRegistry`; placements beside
   `Scorecards`; `Snapshots`: validity intervals and reconstruction.
