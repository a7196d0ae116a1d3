------------------------------ MODULE Benefits ------------------------------
(***************************************************************************)
(* A benefit on its way from identification to closure, and the check-ins  *)
(* that follow.  A transition reads the benefit, asks governance where it  *)
(* has to, and then writes state and approval case whatever the row says   *)
(* by now.  Closing schedules check-ins one statement at a time; an        *)
(* overdue check-in is escalated in three transactions, by as many workers *)
(* as its event reaches.                                                   *)
(*                                                                         *)
(* Cases are the approval cases of governance in the order of their        *)
(* creation; 0 is no case.  A case is about the benefit, a check-in or a   *)
(* gate (ValueGates).  Amounts are left out.                               *)
(***************************************************************************)
EXTENDS Naturals, Sequences, FiniteSets

CONSTANTS
    Users,               \* open requests
    Sweepers,            \* workers that handle scheduler.review.due
    Months,              \* months after delivery of the check-ins
    MaxCases,            \* bound on approval cases
    MaxRequests          \* bound on requests

ASSUME MonthsAssumption == Months \subseteq Nat \ {0}
ASSUME BoundsAssumption == {MaxCases, MaxRequests} \subseteq Nat

VARIABLES
    benefit,             \* lifecycle_state and workflow_case_id
    baseline,            \* the benefit has a baseline
    realized,            \* a realized value is recorded
    checkin,             \* value.checkins by month
    elapsed,             \* months that have passed since the delivery
    cases,               \* governance.approval_cases
    request,             \* what each open request has read so far
    requests,
    sweeper              \* the overdue check-ins each worker has read

benefitVars == <<benefit, baseline, realized, checkin, elapsed, cases, request, requests,
                 sweeper>>

Step(from, event, to) == [from |-> from, event |-> event, to |-> to]
Lifecycle ==
    {Step("identification", "submit_for_approval", "pending_approval"),
     Step("pending_approval", "approval_granted", "approved"),
     Step("approved", "begin_validation", "validation"),
     Step("validation", "start_tracking", "tracking"),
     Step("tracking", "close", "closure")}
Moves == {t.event : t \in Lifecycle}
States == {"identification"} \cup {t.to : t \in Lifecycle}
Approved == {"approved", "validation", "tracking"}

Subject(kind, of) == [kind |-> kind, of |-> of]
OfBenefit == Subject("benefit", 0)
OfCheckin(m) == Subject("checkin", m)
OfGate(g) == Subject("gate", g)

Case(subject) == [for |-> subject, state |-> "pending", raised |-> FALSE]
Created(subject) == Append(cases, Case(subject))
DecidedAs(i, state) == [cases EXCEPT ![i].state = state]

Earliest(S) == CHOOSE m \in S : \A n \in S : m <= n

\* The machine: what it becomes, or "refused" when it stays where it is.
Guarded(t) == /\ t.event = "begin_validation" => baseline
              /\ t.event = "close" => realized
After(event) ==
    LET taken == {t \in Lifecycle : t.event = event /\ t.from = benefit.state /\ Guarded(t)}
    IN  IF taken = {} THEN "refused" ELSE (CHOOSE t \in taken : TRUE).to

Phases == {"idle", "open", "consult", "write", "schedule", "list", "define", "baseline"}
Request(phase, to, case, left) == [phase |-> phase, to |-> to, case |-> case, left |-> left]
Idle == Request("idle", "refused", 0, {})
Sweep(phase, left, case) == [phase |-> phase, left |-> left, case |-> case]
Resting == Sweep("idle", {}, 0)

At(u, phase) == request[u].phase = phase
Becomes(u, r) == request' = [request EXCEPT ![u] = r]
Ends(u) == Becomes(u, Idle)
Starts(u) == At(u, "idle") /\ requests < MaxRequests /\ requests' = requests + 1

BenefitInit ==
    /\ benefit = [state |-> "identification", case |-> 0]
    /\ baseline = FALSE /\ realized = FALSE
    /\ checkin = [m \in Months |-> [exists |-> FALSE, defined |-> FALSE,
                                    completed |-> FALSE, link |-> 0]]
    /\ elapsed = 0
    /\ cases = <<>>
    /\ request = [u \in Users |-> Idle]
    /\ requests = 0
    /\ sweeper = [w \in Sweepers |-> Resting]

-----------------------------------------------------------------------------
\* transition(): the row and the facts; a refusal shows only after governance
\* has been asked, where it is.
Read(u, event) ==
    /\ Starts(u)
    /\ LET goes(phase) == Becomes(u, Request(phase, After(event), benefit.case, {}))
       IN  CASE event = "submit_for_approval" -> goes("open")
             [] event = "approval_granted" -> benefit.case # 0 /\ goes("consult")
             [] OTHER -> After(event) # "refused" /\ goes("write")
    /\ UNCHANGED <<benefit, baseline, realized, checkin, elapsed, cases, sweeper>>

Goes(u, case) ==
    IF request[u].to = "refused" THEN Ends(u)
    ELSE Becomes(u, [request[u] EXCEPT !.phase = "write", !.case = case])

\* submitCase(): a case of its own for each submission.
OpenCase(u) ==
    /\ At(u, "open")
    /\ Len(cases) < MaxCases
    /\ cases' = Created(OfBenefit)
    /\ Goes(u, Len(cases'))
    /\ UNCHANGED <<benefit, baseline, realized, checkin, elapsed, requests, sweeper>>

\* assertApproved(), of the case that was read.
Consult(u) ==
    /\ At(u, "consult")
    /\ cases[request[u].case].state = "approved"
    /\ Goes(u, request[u].case)
    /\ UNCHANGED <<benefit, baseline, realized, checkin, elapsed, cases, requests, sweeper>>

\* Mutant: only a submission writes the case.
RowOfState(u) == [state |-> request[u].to,
                  case |-> IF request[u].to = "pending_approval" THEN request[u].case
                           ELSE benefit.case]

RowOf(u) == [state |-> request[u].to, case |-> request[u].case]

\* UPDATE .. WHERE id, whatever the row has become.
Write(u) ==
    /\ At(u, "write")
    /\ benefit' = RowOf(u)
    /\ IF request[u].to = "closure"
       THEN Becomes(u, Request("schedule", "closure", request[u].case, Months))
       ELSE Becomes(u, [request[u] EXCEPT !.phase = "list"])
    /\ UNCHANGED <<baseline, realized, checkin, elapsed, cases, requests, sweeper>>

\* scheduleCheckins(): ON CONFLICT DO NOTHING, earliest first.
Schedule(u) ==
    /\ At(u, "schedule")
    /\ LET m == Earliest(request[u].left)
           left == request[u].left \ {m}
       IN  /\ checkin' = [checkin EXCEPT ![m].exists = TRUE]
           /\ Becomes(u, [request[u] EXCEPT !.left = left,
                             !.phase = IF left = {} THEN "list" ELSE "schedule"])
    /\ UNCHANGED <<benefit, baseline, realized, elapsed, cases, requests, sweeper>>

\* Mutant: all three check-ins are taken to be there.
ListedAll == IF benefit.state = "closure" THEN Months ELSE {}

\* The benefit is read again; one that is closed has its check-ins listed.
Listed == IF benefit.state = "closure" THEN {m \in Months : checkin[m].exists} ELSE {}

List(u) ==
    /\ At(u, "list")
    /\ IF Listed = {} THEN Ends(u)
       ELSE Becomes(u, [request[u] EXCEPT !.phase = "define", !.left = Listed])
    /\ UNCHANGED <<benefit, baseline, realized, checkin, elapsed, cases, requests, sweeper>>

\* createDefinition(): its key is unique, and a second one fails the request.
Define(u) ==
    /\ At(u, "define")
    /\ LET m == Earliest(request[u].left)
           left == request[u].left \ {m}
       IN  /\ ~checkin[m].defined
           /\ checkin' = [checkin EXCEPT ![m].defined = TRUE]
           /\ IF left = {} THEN Ends(u) ELSE Becomes(u, [request[u] EXCEPT !.left = left])
    /\ UNCHANGED <<benefit, baseline, realized, elapsed, cases, requests, sweeper>>

\* setBaseline(): the state is read, then the only baseline inserted.
ReadApproved(u) ==
    /\ Starts(u)
    /\ benefit.state = "approved"
    /\ Becomes(u, [Idle EXCEPT !.phase = "baseline"])
    /\ UNCHANGED <<benefit, baseline, realized, checkin, elapsed, cases, sweeper>>

InsertBaseline(u) ==
    /\ At(u, "baseline")
    /\ ~baseline
    /\ baseline' = TRUE
    /\ Ends(u)
    /\ UNCHANGED <<benefit, realized, checkin, elapsed, cases, requests, sweeper>>

\* recordState() of a realized value, in any state of the benefit.
RecordRealized ==
    /\ ~realized
    /\ realized' = TRUE
    /\ UNCHANGED <<benefit, baseline, checkin, elapsed, cases, request, requests, sweeper>>

\* completeCheckin(): WHERE completed_at IS NULL.
CompleteCheckin(m) ==
    /\ checkin[m].exists /\ ~checkin[m].completed
    /\ checkin' = [checkin EXCEPT ![m].completed = TRUE]
    /\ UNCHANGED <<benefit, baseline, realized, elapsed, cases, request, requests, sweeper>>

RequestFails(u) ==
    /\ ~At(u, "idle")
    /\ Ends(u)
    /\ UNCHANGED <<benefit, baseline, realized, checkin, elapsed, cases, requests, sweeper>>

-----------------------------------------------------------------------------
\* Governance decides a case, of whatever subject.
DecideCase(i, state) ==
    /\ cases[i].state = "pending"
    /\ cases' = DecidedAs(i, state)
    /\ UNCHANGED <<benefit, baseline, realized, checkin, elapsed, request, requests, sweeper>>

\* Time passes to the next check-in's deadline.
Elapse ==
    /\ \E m \in Months : checkin[m].exists
    /\ \E m \in Months : m > elapsed
    /\ elapsed' = Earliest({m \in Months : m > elapsed})
    /\ UNCHANGED <<benefit, baseline, realized, checkin, cases, request, requests, sweeper>>

\* ValueCheckinDueSubscriber: the event of one check-in makes a worker read all
\* those overdue by then.
ReadOverdue(w, m) ==
    /\ sweeper[w] = Resting
    /\ checkin[m].defined /\ m <= elapsed
    /\ LET overdue == {n \in Months : /\ n <= m
                                      /\ checkin[n].exists /\ ~checkin[n].completed
                                      /\ checkin[n].link = 0}
       IN  /\ overdue # {}
           /\ sweeper' = [sweeper EXCEPT ![w] = Sweep("open", overdue, 0)]
    /\ UNCHANGED <<benefit, baseline, realized, checkin, elapsed, cases, request, requests>>

\* submitCase(), whatever became of the check-in since.
OpenEscalation(w) ==
    /\ sweeper[w].phase = "open"
    /\ Len(cases) < MaxCases
    /\ cases' = Created(OfCheckin(Earliest(sweeper[w].left)))
    /\ sweeper' = [sweeper EXCEPT ![w].phase = "raise", ![w].case = Len(cases')]
    /\ UNCHANGED <<benefit, baseline, realized, checkin, elapsed, request, requests>>

\* raise(): of a case that is still pending.
Raise(w) ==
    /\ sweeper[w].phase = "raise"
    /\ LET i == sweeper[w].case
       IN  cases' = [cases EXCEPT ![i].raised = @ \/ cases[i].state = "pending"]
    /\ sweeper' = [sweeper EXCEPT ![w].phase = "link"]
    /\ UNCHANGED <<benefit, baseline, realized, checkin, elapsed, request, requests>>

\* SET escalation_case_id .. WHERE escalation_case_id IS NULL.
Linked(old, new) == IF old = 0 THEN new ELSE old

Link(w) ==
    /\ sweeper[w].phase = "link"
    /\ LET m == Earliest(sweeper[w].left)
           left == sweeper[w].left \ {m}
       IN  /\ checkin' = [checkin EXCEPT ![m].link = Linked(@, sweeper[w].case)]
           /\ sweeper' = [sweeper EXCEPT ![w] =
                            IF left = {} THEN Resting ELSE Sweep("open", left, 0)]
    /\ UNCHANGED <<benefit, baseline, realized, elapsed, cases, request, requests>>

SweeperDies(w) ==
    /\ sweeper[w] # Resting
    /\ sweeper' = [sweeper EXCEPT ![w] = Resting]
    /\ UNCHANGED <<benefit, baseline, realized, checkin, elapsed, cases, request, requests>>

BenefitStep ==
    \/ \E u \in Users :
          \/ \E event \in Moves : Read(u, event)
          \/ OpenCase(u) \/ Consult(u) \/ Write(u) \/ Schedule(u) \/ List(u) \/ Define(u)
          \/ ReadApproved(u) \/ InsertBaseline(u) \/ RequestFails(u)
    \/ RecordRealized
    \/ \E m \in Months : CompleteCheckin(m)
    \/ \E i \in DOMAIN cases, d \in {"approved", "rejected"} : DecideCase(i, d)
    \/ Elapse
    \/ \E w \in Sweepers :
          \/ \E m \in Months : ReadOverdue(w, m)
          \/ OpenEscalation(w) \/ Raise(w) \/ Link(w) \/ SweeperDies(w)

BenefitSpec == BenefitInit /\ [][BenefitStep]_benefitVars

-----------------------------------------------------------------------------
BenefitTypeOK ==
    /\ benefit.state \in States /\ benefit.case \in 0..Len(cases)
    /\ baseline \in BOOLEAN /\ realized \in BOOLEAN
    /\ \A m \in Months : /\ checkin[m].defined \/ checkin[m].completed => checkin[m].exists
                         /\ checkin[m].link \in 0..Len(cases)
    /\ elapsed \in Months \cup {0}
    /\ \A i \in DOMAIN cases : cases[i].state \in {"pending", "approved", "rejected"}
    /\ \A u \in Users : /\ request[u].phase \in Phases
                        /\ request[u].to \in States \cup {"refused"}
                        /\ request[u].case \in 0..Len(cases)
                        /\ request[u].left \subseteq Months
    /\ requests \in 0..MaxRequests
    /\ \A w \in Sweepers : /\ sweeper[w].left \subseteq Months
                           /\ sweeper[w].case \in 0..Len(cases)

(***************************************************************************)
(* "APPROVAL_GRANTED only after governance has approved that sub-case": a  *)
(* benefit past its approval carries a case of its own that was approved,  *)
(* one in validation or tracking has a baseline, although every transition *)
(* writes a row it read some time ago.                                     *)
(***************************************************************************)
LifecycleIsFounded ==
    /\ benefit.state \in Approved =>
          /\ benefit.case # 0
          /\ cases[benefit.case].for = OfBenefit /\ cases[benefit.case].state = "approved"
    /\ benefit.state \in {"validation", "tracking"} => baseline
=============================================================================
