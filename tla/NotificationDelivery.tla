------------------------ MODULE NotificationDelivery ------------------------
(***************************************************************************)
(* Notifications of one recipient on one channel.  A request creates one   *)
(* delivery row per dedupe key and, for an immediate one, enqueues a job;  *)
(* deferred rows wait until a sweep rolls the oldest into a digest, whose  *)
(* summary is a delivery of its own; the delivery worker sends a row and   *)
(* records the outcome in a statement apart.                               *)
(*                                                                         *)
(* The provider and BullMQ are external.  A digest is identified with its  *)
(* summary's delivery.  Rows have distinct createdAt, in order of arrival. *)
(***************************************************************************)
EXTENDS Naturals, Sequences, FiniteSets

CONSTANTS
    Requests,            \* dedupe keys
    Summaries,           \* digests, each the summary delivery it gets
    Requesters,          \* processes calling request(); any may repeat any key
    Sweepers,            \* digest sweeps that may overlap
    MaxItems,            \* items one digest takes
    MaxSendAttempts,     \* "attempts" of the delivery queue
    MaxSendFaults,       \* bound on failed sends and failed records
    MaxDeaths            \* bound on processes that die, or lose Redis or the
                         \* database where nothing makes up for it

ASSUME DisjointAssumption == Requests \cap Summaries = {}
ASSUME LimitsAssumption == {MaxItems, MaxSendAttempts} \subseteq Nat \ {0}

Notifications == Requests \cup Summaries
Status == {"none", "PENDING", "DEFERRED", "SUPPRESSED", "SENT", "FAILED", "DIGESTED"}
Steps == {"idle", "send", "markSent", "markDigestSent", "settled"}

VARIABLES
    delivery,            \* status of each row
    arrived,             \* deferred rows in order of createdAt
    requester,           \* each open request()
    digest,              \* each digest: its items, its window and its status
    sweeper,             \* each open sweep
    sendJob, sendAttempts,  \* the delivery jobs
    sendStalled,         \* jobs put back once after their worker died
    step,                \* where the dispatcher is with each active job
    allowance            \* faults and deaths left

jobVars == <<sendJob, sendAttempts, sendStalled, step>>
notificationVars == <<delivery, arrived, requester, digest, sweeper, jobVars, allowance>>

Free == [stage |-> "idle"]
NoDigest == [status |-> "none", items |-> {}, window |-> 0]

Uses(kinds) ==
    /\ \A kind \in kinds : allowance[kind] > 0
    /\ allowance' = [kind \in DOMAIN allowance |->
                       IF kind \in kinds THEN allowance[kind] - 1 ELSE allowance[kind]]
SetDelivery(d, status) == delivery' = [delivery EXCEPT ![d] = status]

NotificationInit ==
    /\ delivery = [d \in Notifications |-> "none"]
    /\ arrived = <<>>
    /\ requester = [r \in Requesters |-> Free]
    /\ digest = [s \in Summaries |-> NoDigest]
    /\ sweeper = [w \in Sweepers |-> Free]
    /\ sendJob = [d \in Notifications |-> "none"]
    /\ sendAttempts = [d \in Notifications |-> 0]
    /\ sendStalled = {}
    /\ step = [d \in Notifications |-> "idle"]
    /\ allowance = [faults |-> MaxSendFaults, crashes |-> MaxDeaths]

-----------------------------------------------------------------------------
\* request(): find, create, enqueue.  An existing row ends it.

Find(r, k) ==
    /\ requester[r] = Free
    /\ delivery[k] = "none"
    /\ requester' = [requester EXCEPT ![r] = [stage |-> "create", key |-> k]]
    /\ UNCHANGED <<delivery, arrived, digest, sweeper, jobVars, allowance>>

\* The preference, the mute list and the priority decide the status.  A row
\* another caller created meanwhile wins: the dedupe key is UNIQUE.
Create(r, status) ==
    /\ requester[r].stage = "create"
    /\ LET k == requester[r].key
       IN  IF delivery[k] # "none"
           THEN /\ requester' = [requester EXCEPT ![r] = Free]
                /\ UNCHANGED <<delivery, arrived>>
           ELSE /\ SetDelivery(k, status)
                /\ arrived' = IF status = "DEFERRED" THEN Append(arrived, k)
                              ELSE arrived
                /\ requester' = [requester EXCEPT ![r] =
                     IF status = "PENDING" THEN [stage |-> "enqueue", key |-> k]
                     ELSE Free]
    /\ UNCHANGED <<digest, sweeper, jobVars, allowance>>

AddSend(d) == sendJob' = [sendJob EXCEPT ![d] = IF @ = "none" THEN "waiting" ELSE @]

EnqueueDelivery(r) ==
    /\ requester[r].stage = "enqueue"
    /\ AddSend(requester[r].key)
    /\ requester' = [requester EXCEPT ![r] = Free]
    /\ UNCHANGED <<delivery, arrived, digest, sweeper, sendAttempts,
                   sendStalled, step, allowance>>

RequestDies(r) ==
    /\ requester[r] # Free
    /\ Uses({"crashes"})
    /\ requester' = [requester EXCEPT ![r] = Free]
    /\ UNCHANGED <<delivery, arrived, digest, sweeper, jobVars>>

-----------------------------------------------------------------------------
\* The digest sweep.

IsDeferred(k) == delivery[k] = "DEFERRED"

\* The places of the deferred rows, and the rows at the first MaxItems of them.
Waiting == {i \in DOMAIN arrived : IsDeferred(arrived[i])}
OldestDeferred ==
    {arrived[i] : i \in {j \in Waiting : Cardinality({h \in Waiting : h < j}) < MaxItems}}

\* The oldest has waited its interval; how long that is does not matter here.
ReadDeferred(w) ==
    /\ sweeper[w] = Free
    /\ \E i \in Waiting :
         /\ \A j \in Waiting : i <= j
         /\ sweeper' = [sweeper EXCEPT ![w] =
              [stage |-> "build", items |-> OldestDeferred, oldest |-> arrived[i]]]
    /\ UNCHANGED <<delivery, arrived, requester, digest, jobVars, allowance>>

\* Mutant: no unique index on the window.
WindowTakenNever(oldest) == FALSE

\* UNIQUE (recipient, channel, windowStartsAt): the window starts at the oldest.
WindowTaken(oldest) == \E s \in Summaries : digest[s].window = oldest

\* One transaction: the digest, its summary and the items it closes out.
CreateDigest(w) ==
    /\ sweeper[w].stage = "build"
    /\ LET items == sweeper[w].items
           oldest == sweeper[w].oldest
           new == CHOOSE s \in Summaries : digest[s] = NoDigest
       IN  IF WindowTaken(oldest)
           THEN /\ sweeper' = [sweeper EXCEPT ![w] = Free]
                /\ UNCHANGED <<delivery, digest>>
           ELSE /\ \E s \in Summaries : digest[s] = NoDigest
                /\ digest' = [digest EXCEPT ![new] =
                     [status |-> "OPEN", items |-> items, window |-> oldest]]
                /\ delivery' = [d \in Notifications |->
                     IF d = new THEN "PENDING"
                     ELSE IF d \in items /\ IsDeferred(d) THEN "DIGESTED"
                     ELSE delivery[d]]
                /\ sweeper' = [sweeper EXCEPT ![w] =
                     [stage |-> "enqueue", summary |-> new]]
    /\ UNCHANGED <<arrived, requester, jobVars, allowance>>

\* After the commit.
EnqueueSummary(w) ==
    /\ sweeper[w].stage = "enqueue"
    /\ AddSend(sweeper[w].summary)
    /\ sweeper' = [sweeper EXCEPT ![w] = Free]
    /\ UNCHANGED <<delivery, arrived, requester, digest, sendAttempts,
                   sendStalled, step, allowance>>

SweepDies(w) ==
    /\ sweeper[w] # Free
    /\ Uses({"crashes"})
    /\ sweeper' = [sweeper EXCEPT ![w] = Free]
    /\ UNCHANGED <<delivery, arrived, requester, digest, jobVars>>

-----------------------------------------------------------------------------
\* The delivery worker.

CompleteJob(d) == /\ sendJob' = [sendJob EXCEPT ![d] = "completed"]
                  /\ step' = [step EXCEPT ![d] = "idle"]

Goto(d, stage) == step' = [step EXCEPT ![d] = stage]

ToBeSent(d) == delivery[d] = "PENDING"

\* dispatch() skips a row that is not PENDING.
Load(d) ==
    /\ sendJob[d] = "waiting"
    /\ IF ToBeSent(d)
       THEN sendJob' = [sendJob EXCEPT ![d] = "active"] /\ Goto(d, "send")
       ELSE CompleteJob(d)
    /\ UNCHANGED <<delivery, arrived, requester, digest, sweeper, sendAttempts,
                   sendStalled, allowance>>

Send(d) ==
    /\ step[d] = "send"
    /\ Goto(d, "markSent")
    /\ UNCHANGED <<delivery, arrived, requester, digest, sweeper, sendJob, sendAttempts,
                   sendStalled, allowance>>

\* A PermanentError of the provider: the row is closed and the job completes.
SendRejected(d) ==
    /\ step[d] = "send"
    /\ SetDelivery(d, "FAILED")
    /\ CompleteJob(d)
    /\ UNCHANGED <<arrived, requester, digest, sweeper, sendAttempts,
                   sendStalled, allowance>>

MarkSent(d) ==
    /\ step[d] = "markSent"
    /\ SetDelivery(d, "SENT")
    /\ Goto(d, IF d \in Summaries THEN "markDigestSent" ELSE "settled")
    /\ UNCHANGED <<arrived, requester, digest, sweeper, sendJob, sendAttempts,
                   sendStalled, allowance>>

MarkDigestSent(d) ==
    /\ step[d] = "markDigestSent"
    /\ digest' = [digest EXCEPT ![d].status = "SENT"]
    /\ Goto(d, "settled")
    /\ UNCHANGED <<delivery, arrived, requester, sweeper, sendJob, sendAttempts,
                   sendStalled, allowance>>

JobDone(d) ==
    /\ step[d] = "settled"
    /\ CompleteJob(d)
    /\ UNCHANGED <<delivery, arrived, requester, digest, sweeper, sendAttempts,
                   sendStalled, allowance>>

\* Mutant: the row is left as it is when the attempts are used up.
MarkExhaustedNever(d) == UNCHANGED delivery

\* markExhausted writes FAILED whatever the row says.
MarkExhausted(d) == SetDelivery(d, "FAILED")

\* Mutant: one attempt too many.
ExhaustedLate(made) == made > MaxSendAttempts

Exhausted(made) == made >= MaxSendAttempts

\* A send or a record throws (the provider may have accepted the message): the
\* worker closes the row on the last attempt, unless that write is lost too, and
\* BullMQ retries or fails.
AttemptFails(d) ==
    /\ step[d] \in {"send", "markSent", "markDigestSent"}
    /\ LET made == sendAttempts[d] + 1
       IN  /\ sendAttempts' = [sendAttempts EXCEPT ![d] = made]
           /\ IF Exhausted(made)
              THEN \/ MarkExhausted(d) /\ Uses({"faults"})
                   \/ UNCHANGED delivery /\ Uses({"faults", "crashes"})
              ELSE UNCHANGED delivery /\ Uses({"faults"})
           /\ sendJob' = [sendJob EXCEPT ![d] =
                            IF Exhausted(made) THEN "failed" ELSE "waiting"]
    /\ Goto(d, "idle")
    /\ UNCHANGED <<arrived, requester, digest, sweeper, sendStalled>>

\* The worker dies: the job is put back once, and failed the second time.
WorkerDies(d) ==
    /\ sendJob[d] = "active"
    /\ Uses({"crashes"})
    /\ sendJob' = [sendJob EXCEPT ![d] = IF d \in sendStalled THEN "failed" ELSE "waiting"]
    /\ sendStalled' = sendStalled \cup {d}
    /\ Goto(d, "idle")
    /\ UNCHANGED <<delivery, arrived, requester, digest, sweeper, sendAttempts>>

-----------------------------------------------------------------------------
DispatchStep(d) == \/ Send(d) \/ SendRejected(d) \/ MarkSent(d)
                   \/ MarkDigestSent(d) \/ JobDone(d)

NotificationNext ==
    \/ \E r \in Requesters :
         \/ \E k \in Requests : Find(r, k)
         \/ \E status \in {"PENDING", "DEFERRED", "SUPPRESSED"} : Create(r, status)
         \/ EnqueueDelivery(r)
         \/ RequestDies(r)
    \/ \E w \in Sweepers :
         \/ ReadDeferred(w)
         \/ CreateDigest(w)
         \/ EnqueueSummary(w)
         \/ SweepDies(w)
    \/ \E d \in Notifications :
         \/ Load(d) \/ DispatchStep(d) \/ AttemptFails(d) \/ WorkerDies(d)

NotificationSpec == NotificationInit /\ [][NotificationNext]_notificationVars

\* The sweep repeats, the workers take jobs, and whatever has begun goes on.
\* Nothing has to be requested, and a request's first steps are its caller's to
\* repeat.
NotificationFairness ==
    /\ WF_notificationVars(\E r \in Requesters : EnqueueDelivery(r))
    /\ WF_notificationVars(\E w \in Sweepers :
          ReadDeferred(w) \/ CreateDigest(w) \/ EnqueueSummary(w))
    /\ WF_notificationVars(\E d \in Notifications : Load(d) \/ DispatchStep(d))

NotificationFairSpec == NotificationSpec /\ NotificationFairness

-----------------------------------------------------------------------------
NotificationTypeOK ==
    /\ delivery \in [Notifications -> Status]
    /\ arrived \in Seq(Requests)
    /\ \A s \in Summaries : digest[s].status \in {"none", "OPEN", "SENT"}
    /\ sendJob \in [Notifications -> {"none", "waiting", "active", "completed", "failed"}]
    /\ sendAttempts \in [Notifications -> 0..MaxSendAttempts]
    /\ step \in [Notifications -> Steps]

\* The recipient reads each deferred notification in exactly one summary: with
\* overlapping sweeps, a row closed out as DIGESTED is listed by one digest and
\* no digest lists a row that is not closed out.
EachItemInOneDigest ==
    /\ \A s, t \in Summaries : s # t => digest[s].items \cap digest[t].items = {}
    /\ \A k \in Requests :
         delivery[k] = "DIGESTED" <=> \E s \in Summaries : k \in digest[s].items

NobodyDied == allowance["crashes"] = MaxDeaths

\* As long as no process has died, a row is settled in the end, a deferred one
\* through its digest: no failure of the provider leaves it open.  (Requests are
\* finitely many, so again and again there is a time when none is open.)
NoneOpen == \A d \in Notifications : delivery[d] \notin {"PENDING", "DEFERRED"}

DeliveriesAreSettled == []<>(NoneOpen \/ ~NobodyDied)

=============================================================================
