----------------------------- MODULE Governance -----------------------------
(***************************************************************************)
(* Approval cases.  A case moves through a workflow definition; every move *)
(* is one transaction under an advisory lock of the case that reads it,    *)
(* runs the state machine, and writes the case, the decision log and the   *)
(* outbox together.  Each entry to pending_approval also announces a       *)
(* deadline: the pending-approval subscriber turns it into a delayed job,  *)
(* and the escalation worker raises an escalation in a transaction of its  *)
(* own, under a lock with another key.                                     *)
(*                                                                         *)
(* The outbox and the queue between the two are those of EventDelivery;    *)
(* here an announced deadline may be delivered any number of times.        *)
(***************************************************************************)
EXTENDS Naturals, Sequences, FiniteSets

CONSTANTS
    Cases, Users,
    Servers,             \* API processes running transition()
    Workers,             \* worker processes running raise()
    Nobody,              \* a free lock, an unset user
    Definition,          \* the workflow definition: a set of transitions
    Initial,             \* and its initial state
    Sla,                 \* approvalSlaMs, in ticks of the clock
    MaxTime,             \* bound on the clock
    MaxLog,              \* bound on a case's decision log
    MaxCrashes           \* bound on transactions rolled back

States == {"draft", "pending_approval", "approved", "rejected",
           "changes_requested"}
Decided == {"approved", "rejected"}
Decisions == {"APPROVE", "REJECT"}
EventTypes == Decisions \cup {"SUBMIT", "REQUEST_CHANGES", "RESUBMIT"}

Transition(from, on, target, guard, actions) ==
    [from |-> from, on |-> on, target |-> target, guard |-> guard,
     actions |-> actions]

\* DEFAULT_APPROVAL_WORKFLOW_DEFINITION
DefaultDefinition == {
    Transition("draft", "SUBMIT", "pending_approval", "none",
               {"scheduleEscalation"}),
    Transition("pending_approval", "APPROVE", "approved", "separationOfDuties",
               {"recordDecision", "emitApprovalGranted"}),
    Transition("pending_approval", "REJECT", "rejected", "separationOfDuties",
               {"recordDecision", "emitApprovalRejected"}),
    Transition("pending_approval", "REQUEST_CHANGES", "changes_requested",
               "none", {"recordChangesRequested"}),
    Transition("changes_requested", "RESUBMIT", "pending_approval", "none",
               {"scheduleEscalation"})}

Guards == {"none", "separationOfDuties", "ruleGate"}

\* recordSubmission and recordResubmission leave no trace.
Actions == {"recordDecision", "recordChangesRequested", "scheduleEscalation",
            "emitApprovalGranted", "emitApprovalRejected"}

\* workflowMachineDefinitionSchema: any graph over the states is a definition.
ASSUME DefinitionAssumption ==
    /\ Definition \subseteq [from : States, on : EventTypes, target : States,
                             guard : Guards, actions : SUBSET Actions]
    /\ Initial \in States
ASSUME NobodyAssumption == Nobody \notin Users \cup Servers \cup Workers
ASSUME BoundsAssumption == Sla \in Nat \ {0} /\ {MaxTime, MaxLog, MaxCrashes} \subseteq Nat

Deadlines == Sla..(MaxTime + Sla)
Timers == Cases \X Deadlines

VARIABLES
    caseState,           \* currentState, or "none" before createCase
    submitter,           \* submittedBy
    participant,         \* approvalParticipantId
    decisionLog,         \* decision log entries of each case, in order
    decisionEvents,      \* approvalGranted / approvalRejected outbox rows
    announced,           \* approvalPending outbox rows
    timer,               \* the delayed escalation jobs
    escalations,         \* escalation cases, with who acknowledged them
    caseLock,            \* holder of governance.approval:<case>
    escalationLock,      \* holder of governance.escalation:<case>
    request,             \* the open transition() of each server
    raising,             \* the open raise() of each worker
    clock, crashes,
    deadline             \* deadline announced last for each case (observed)

caseVars == <<caseState, submitter, participant, decisionLog, decisionEvents,
              announced, deadline, caseLock, request>>
escalationVars == <<timer, escalations, escalationLock, raising>>
vars == <<caseVars, escalationVars, clock, crashes>>

NoRequest == [case |-> Nobody]

Init == /\ caseState = [c \in Cases |-> "none"]
        /\ submitter = [c \in Cases |-> Nobody]
        /\ participant = [c \in Cases |-> Nobody]
        /\ decisionLog = [c \in Cases |-> <<>>]
        /\ decisionEvents = {}
        /\ announced = {}
        /\ timer = [t \in Timers |-> "none"]
        /\ escalations = [t \in {} |-> Nobody]
        /\ caseLock = [c \in Cases |-> Nobody]
        /\ escalationLock = [c \in Cases |-> Nobody]
        /\ request = [s \in Servers |-> NoRequest]
        /\ raising = [w \in Workers |-> NoRequest]
        /\ clock = 0
        /\ crashes = 0
        /\ deadline = [c \in Cases |-> 0]

-----------------------------------------------------------------------------
\* createCase; submitCase goes on with a SUBMIT in a transaction of its own.
CreateCase(c, u, p) ==
    /\ caseState[c] = "none"
    /\ caseState' = [caseState EXCEPT ![c] = Initial]
    /\ submitter' = [submitter EXCEPT ![c] = u]
    /\ participant' = [participant EXCEPT ![c] = p]
    /\ UNCHANGED <<decisionLog, decisionEvents, announced, deadline, caseLock,
                   request, escalationVars, clock, crashes>>

\* Mutant: only the definition's guards are left.
DutiesSeparateUnchecked(c, event, u) == TRUE

\* enforceSeparationOfDuties, ahead of whatever guard the definition names.
DutiesSeparate(c, event, u) == event \in Decisions => u # submitter[c]

\* The machine's guard of a transition.  A ruleGate evaluates a rule on the
\* proposed change: where it says no the request is refused like any other.
GuardHolds(t, c, u) ==
    t.guard = "separationOfDuties" => t.on \in Decisions /\ u # submitter[c]

\* An action the event does not go with throws, and the transaction with it.
ActionsFit(t) ==
    /\ t.actions \cap {"recordDecision", "emitApprovalGranted",
                       "emitApprovalRejected"} # {} => t.on \in Decisions
    /\ "recordChangesRequested" \in t.actions => t.on = "REQUEST_CHANGES"

\* Mutant: no advisory lock.
FreeAlways(lock, c) == TRUE

Free(lock, c) == lock[c] = Nobody

\* transition(): lock, read, run the machine.  A request that is refused or
\* would not change the state throws and changes nothing.
BeginTransition(s, c, t, u) ==
    /\ request[s] = NoRequest
    /\ Free(caseLock, c)
    /\ t.from = caseState[c]
    /\ DutiesSeparate(c, t.on, u)
    /\ GuardHolds(t, c, u)
    /\ ActionsFit(t)
    /\ t.target # t.from
    /\ Len(decisionLog[c]) < MaxLog
    /\ caseLock' = [caseLock EXCEPT ![c] = s]
    /\ request' = [request EXCEPT ![s] = [case |-> c, by |-> u, step |-> t]]
    /\ UNCHANGED <<caseState, submitter, participant, decisionLog,
                   decisionEvents, announced, deadline, escalationVars, clock,
                   crashes>>

Release(lock, c, p) == IF lock[c] = p THEN [lock EXCEPT ![c] = Nobody] ELSE lock

\* Mutant: the state reached is logged as the decision.
LogEntryOfState(step, u) == <<[decision |-> step.target, by |-> u]>>

\* Log entry of a step: recordDecision or recordChangesRequested.
LogEntry(step, u) ==
    IF step.actions \cap {"recordDecision", "recordChangesRequested"} = {} THEN <<>>
    ELSE <<[decision |-> step.on, by |-> u]>>

\* Outbox row of a step, with the dedupe key <<type, case>>.
DecisionEvent(step, c) ==
    CASE "emitApprovalGranted" \in step.actions -> {<<"emitApprovalGranted", c>>}
      [] "emitApprovalRejected" \in step.actions -> {<<"emitApprovalRejected", c>>}
      [] OTHER -> {}

Announcement(step, c) ==
    IF "scheduleEscalation" \in step.actions THEN {<<c, clock + Sla>>} ELSE {}

CommitTransition(s) ==
    /\ request[s] # NoRequest
    /\ LET c == request[s].case
           step == request[s].step
       IN  /\ caseState' = [caseState EXCEPT ![c] = step.target]
           /\ decisionLog' = [decisionLog EXCEPT
                                ![c] = @ \o LogEntry(step, request[s].by)]
           /\ decisionEvents' = decisionEvents \cup DecisionEvent(step, c)
           /\ announced' = announced \cup Announcement(step, c)
           /\ deadline' = IF Announcement(step, c) = {} THEN deadline
                          ELSE [deadline EXCEPT ![c] = clock + Sla]
           /\ caseLock' = Release(caseLock, c, s)
    /\ request' = [request EXCEPT ![s] = NoRequest]
    /\ UNCHANGED <<submitter, participant, escalationVars, clock, crashes>>

AbortTransition(s) ==
    /\ request[s] # NoRequest
    /\ crashes < MaxCrashes
    /\ crashes' = crashes + 1
    /\ caseLock' = Release(caseLock, request[s].case, s)
    /\ request' = [request EXCEPT ![s] = NoRequest]
    /\ UNCHANGED <<caseState, submitter, participant, decisionLog,
                   decisionEvents, announced, deadline, escalationVars, clock>>

-----------------------------------------------------------------------------
\* Mutant: a job id without the deadline.
JobIdOfCase(c, d) == <<c, Sla>>

\* Job id of the escalation timer.
JobId(c, d) == <<c, d>>

\* The pending-approval subscriber; a job id already in Redis is not added.
SchedulePending(c, d) ==
    /\ <<c, d>> \in announced
    /\ timer[JobId(c, d)] = "none"
    /\ timer' = [timer EXCEPT ![JobId(c, d)] = "delayed"]
    /\ UNCHANGED <<caseVars, escalations, escalationLock, raising, clock, crashes>>

\* raise(): lock, read the case; a stale timer is a no-op.
BeginRaise(w, c, d) ==
    /\ raising[w] = NoRequest
    /\ timer[<<c, d>>] = "delayed"
    /\ d <= clock
    /\ Free(escalationLock, c)
    /\ IF caseState[c] = "pending_approval"
       THEN /\ escalationLock' = [escalationLock EXCEPT ![c] = w]
            /\ raising' = [raising EXCEPT ![w] = [case |-> c, deadline |-> d]]
            /\ timer' = [timer EXCEPT ![<<c, d>>] = "active"]
       ELSE /\ timer' = [timer EXCEPT ![<<c, d>>] = "completed"]
            /\ UNCHANGED <<escalationLock, raising>>
    /\ UNCHANGED <<caseVars, escalations, clock, crashes>>

\* Upsert on (case, participant, deadline) and the escalationRaised row.
CommitRaise(w) ==
    /\ raising[w] # NoRequest
    /\ LET c == raising[w].case
           t == <<c, raising[w].deadline>>
       IN  /\ escalations' = [x \in DOMAIN escalations \cup {t} |->
                                IF x \in DOMAIN escalations THEN escalations[x]
                                ELSE Nobody]
           /\ timer' = [timer EXCEPT ![t] = "completed"]
           /\ escalationLock' = Release(escalationLock, c, w)
    /\ raising' = [raising EXCEPT ![w] = NoRequest]
    /\ UNCHANGED <<caseVars, clock, crashes>>

\* The worker dies after its commit and before BullMQ learns of it, or before
\* both: the job is run again.
CrashRaise(w) ==
    /\ raising[w] # NoRequest
    /\ crashes < MaxCrashes
    /\ crashes' = crashes + 1
    /\ LET c == raising[w].case
           t == <<c, raising[w].deadline>>
       IN  /\ timer' = [timer EXCEPT ![t] = "delayed"]
           /\ escalationLock' = Release(escalationLock, c, w)
           /\ \/ UNCHANGED escalations
              \/ /\ t \notin DOMAIN escalations
                 /\ escalations' = [x \in DOMAIN escalations \cup {t} |->
                                     IF x = t THEN Nobody ELSE escalations[x]]
    /\ raising' = [raising EXCEPT ![w] = NoRequest]
    /\ UNCHANGED <<caseVars, clock>>

\* acknowledge(): by the participant, once.
Acknowledge(t) ==
    /\ t \in DOMAIN escalations
    /\ escalations[t] = Nobody
    /\ escalations' = [escalations EXCEPT ![t] = participant[t[1]]]
    /\ UNCHANGED <<caseVars, timer, escalationLock, raising, clock, crashes>>

Tick == /\ clock < MaxTime
        /\ clock' = clock + 1
        /\ UNCHANGED <<caseVars, escalationVars, crashes>>

-----------------------------------------------------------------------------
Next ==
    \/ \E c \in Cases, u, p \in Users : CreateCase(c, u, p)
    \/ \E s \in Servers :
         \/ \E c \in Cases, t \in Definition, u \in Users :
              BeginTransition(s, c, t, u)
         \/ CommitTransition(s)
         \/ AbortTransition(s)
    \/ \E c \in Cases, d \in Deadlines : SchedulePending(c, d)
    \/ \E w \in Workers :
         \/ \E c \in Cases, d \in Deadlines : BeginRaise(w, c, d)
         \/ CommitRaise(w)
         \/ CrashRaise(w)
    \/ \E t \in Timers : Acknowledge(t)
    \/ Tick

Spec == Init /\ [][Next]_vars

\* Open transactions end, announcements are delivered, due timers fire and
\* time passes.  Users owe nothing: no transition has to be requested.
Fairness ==
    /\ \A s \in Servers : WF_vars(CommitTransition(s))
    /\ \A c \in Cases, d \in Deadlines :
         /\ WF_vars(SchedulePending(c, d))
         /\ WF_vars(\E w \in Workers : BeginRaise(w, c, d))
    /\ \A w \in Workers : WF_vars(CommitRaise(w))
    /\ WF_vars(Tick)

FairSpec == Spec /\ Fairness

-----------------------------------------------------------------------------
TypeOK ==
    /\ caseState \in [Cases -> States \cup {"none"}]
    /\ submitter \in [Cases -> Users \cup {Nobody}]
    /\ participant \in [Cases -> Users \cup {Nobody}]
    /\ \A c \in Cases : decisionLog[c] \in Seq([decision : EventTypes, by : Users])
    /\ announced \subseteq Timers
    /\ timer \in [Timers -> {"none", "delayed", "active", "completed"}]
    /\ DOMAIN escalations \subseteq Timers
    /\ caseLock \in [Cases -> Servers \cup {Nobody}]
    /\ escalationLock \in [Cases -> Workers \cup {Nobody}]
    /\ clock \in 0..MaxTime

\* The case, the decision log and the outbox tell the same story: a case is
\* decided exactly when one decision is logged, that decision and the one
\* decision event in the outbox are of its kind, however many requests decide it
\* at once.
IsDecision(entry) == entry.decision \in Decisions

DecisionsAgree ==
    \A c \in Cases :
        LET log == decisionLog[c]
            taken == {i \in 1..Len(log) : IsDecision(log[i])}
        IN  /\ taken # {} <=> caseState[c] \in Decided
            /\ \A i, j \in taken : i = j
            /\ \A i \in taken : log[i].decision = "APPROVE" <=> caseState[c] = "approved"
            /\ caseState[c] = "approved" <=> <<"emitApprovalGranted", c>> \in decisionEvents
            /\ caseState[c] = "rejected" <=> <<"emitApprovalRejected", c>> \in decisionEvents

\* Nobody decides a case they submitted, whatever guard the definition names.
SeparationOfDuties ==
    \A c \in Cases : \A i \in 1..Len(decisionLog[c]) :
        IsDecision(decisionLog[c][i]) => decisionLog[c][i].by # submitter[c]

\* What assertApproved has answered stays true: modules act on an approval in
\* later transactions, which read nothing of the case again.
DecidedIsFinal ==
    [][\A c \in Cases :
         caseState[c] \in Decided => caseState'[c] = caseState[c]]_vars

\* A case left pending past its deadline is escalated for that deadline, in
\* every round of changes, unless it moves on first.
Overdue(c, d) ==
    caseState[c] = "pending_approval" /\ deadline[c] = d /\ d <= clock

OverdueIsEscalated ==
    \A c \in Cases, d \in Deadlines :
        Overdue(c, d) ~> (<<c, d>> \in DOMAIN escalations \/ ~Overdue(c, d))

\* governance-escalation.service.ts: "A delayed job may legitimately fire after
\* the approval has already been decided. In that case the timer is stale and
\* is a no-op."  No escalation is created for a case that is not pending.
StaleTimerIsNoOp ==
    [][\A t \in DOMAIN escalations' \ DOMAIN escalations :
         caseState[t[1]] = "pending_approval"]_vars
=============================================================================
