----------------------------- MODULE ValueProofs -----------------------------
(***************************************************************************)
(* A benefit's state rests on what its life cycle asks, a decided gate     *)
(* stands, a stop is final, and every row and call keeps its type: for any *)
(* requests, workers and committee.                                        *)
(***************************************************************************)
EXTENDS ValueGates, FiniteSetTheorems, WellFoundedInduction, TLAPS

-----------------------------------------------------------------------------
\* The table of cases.

CasesTable == \E S : cases \in Seq(S)

\* Cases are only added, keep their subject, and an approval stands.
CasesKept ==
    \A i \in DOMAIN cases :
        /\ i \in DOMAIN cases'
        /\ cases'[i].for = cases[i].for
        /\ cases[i].state = "approved" => cases'[i].state = "approved"

LEMMA SubmissionKeeps ==
    ASSUME CasesTable, NEW subject, cases' = Created(subject)
    PROVE  /\ CasesTable' /\ CasesKept
           /\ Len(cases') \in DOMAIN cases' /\ cases'[Len(cases')].for = subject
<1> DEFINE new == Case(subject)
<1> PICK S : cases \in Seq(S)
    BY DEF CasesTable
<1>1. cases' = Append(cases, new) /\ new.for = subject
    BY DEF Created, Case
<1> HIDE DEF new
<1>2. cases \in Seq(S \cup {new})
    OBVIOUS
<1>3. /\ cases' \in Seq(S \cup {new})
      /\ Len(cases') = Len(cases) + 1 /\ DOMAIN cases' = 1..Len(cases')
      /\ cases'[Len(cases) + 1] = new
      /\ \A i \in DOMAIN cases : cases'[i] = cases[i]
    BY <1>1, <1>2
<1>4. CasesTable'
    BY <1>3 DEF CasesTable
<1> QED BY <1>1, <1>3, <1>4 DEF CasesKept

\* A case that is pending is decided, or another of its fields written.
LEMMA DecisionKeeps ==
    ASSUME CasesTable, NEW i, NEW row, cases' = [cases EXCEPT ![i] = row],
           row.for = cases[i].for, cases[i].state = "approved" => row.state = "approved"
    PROVE  CasesTable' /\ CasesKept
<1> PICK S : cases \in Seq(S)
    BY DEF CasesTable
<1>1. Len(cases) \in Nat /\ cases \in [1..Len(cases) -> S]
    OBVIOUS
<1>2. cases' \in [1..Len(cases) -> S \cup {row}]
    BY <1>1
<1>3. cases' \in Seq(S \cup {row})
    BY <1>1, <1>2
<1>4. CasesTable'
    BY <1>3 DEF CasesTable
<1> QED BY <1>1, <1>4 DEF CasesKept

LEMMA VerdictKeeps ==
    ASSUME CasesTable, NEW i, NEW state, cases' = DecidedAs(i, state),
           cases[i].state = "pending"
    PROVE  CasesTable' /\ CasesKept
<1> DEFINE row == [cases[i] EXCEPT !.state = state]
<1>1. cases' = [cases EXCEPT ![i] = row] /\ row.for = cases[i].for
    BY DEF DecidedAs
<1> QED BY <1>1, DecisionKeeps

LEMMA CasesStay == CasesTable /\ UNCHANGED cases => CasesTable' /\ CasesKept
BY DEF CasesTable, CasesKept

\* What any step does to the cases.
LEMMA NextKeepsCases == CasesTable /\ [Next]_vars => CasesTable' /\ CasesKept
<1> SUFFICES ASSUME CasesTable, [Next]_vars PROVE CasesTable' /\ CasesKept
    OBVIOUS
<1>1. ASSUME UNCHANGED cases PROVE CasesTable' /\ CasesKept
    BY <1>1, CasesStay
<1>2. ASSUME NEW subject, cases' = Created(subject) PROVE CasesTable' /\ CasesKept
    BY <1>2, SubmissionKeeps
<1>3. ASSUME NEW i, NEW state, cases' = DecidedAs(i, state), cases[i].state = "pending"
      PROVE  CasesTable' /\ CasesKept
    BY <1>3, VerdictKeeps
<1>4. CASE BenefitStep
    <2>1. ASSUME NEW u \in Users,
                 \/ \E event \in Moves : Read(u, event)
                 \/ Consult(u) \/ Write(u) \/ Schedule(u) \/ List(u) \/ Define(u)
                 \/ ReadApproved(u) \/ InsertBaseline(u) \/ RequestFails(u)
          PROVE  UNCHANGED cases
        BY <2>1 DEF Read, Consult, Write, Schedule, List, Define, ReadApproved,
                    InsertBaseline, RequestFails
    <2>2. ASSUME NEW w \in Sweepers,
                 (\E m \in Months : ReadOverdue(w, m)) \/ Link(w) \/ SweeperDies(w)
          PROVE  UNCHANGED cases
        BY <2>2 DEF ReadOverdue, Link, SweeperDies
    <2>3. CASE RecordRealized \/ Elapse \/ \E m \in Months : CompleteCheckin(m)
        BY <1>1, <2>3 DEF RecordRealized, Elapse, CompleteCheckin
    <2>4. CASE \E u \in Users : OpenCase(u)
        BY <1>2, <2>4 DEF OpenCase
    <2>5. CASE \E w \in Sweepers : OpenEscalation(w)
        BY <1>2, <2>5 DEF OpenEscalation
    <2>6. CASE \E i \in DOMAIN cases, d \in {"approved", "rejected"} : DecideCase(i, d)
        BY <1>3, <2>6 DEF DecideCase
    <2>7. ASSUME NEW w \in Sweepers, Raise(w) PROVE CasesTable' /\ CasesKept
        <3> DEFINE i == sweeper[w].case
                   row == [cases[i] EXCEPT !.raised = @ \/ cases[i].state = "pending"]
        <3>1. cases' = [cases EXCEPT ![i] = row]
            BY <2>7 DEF Raise
        <3>2. row.for = cases[i].for /\ row.state = cases[i].state
            OBVIOUS
        <3> HIDE DEF row
        <3> QED BY <3>1, <3>2, DecisionKeeps
    <2> QED
        BY <1>1, <1>4, <2>1, <2>2, <2>3, <2>4, <2>5, <2>6, <2>7 DEF BenefitStep
<1>5. ASSUME NEW o \in Owners, BeginStage(o) \/ CommitStage(o) \/ AbortStage(o)
      PROVE  UNCHANGED cases
    BY <1>5 DEF BeginStage, CommitStage, AbortStage, benefitVars
<1>6. ASSUME NEW w \in Workers,
             \/ \E g \in Gates : CreateGate(w, g) \/ Evaluate(w, g)
             \/ FindCase(w) \/ LinkCase(w) \/ Freeze(w) \/ WorkerDies(w)
             \/ \E facts \in Facts : ReadFacts(w, facts)
      PROVE  UNCHANGED cases
    BY <1>6 DEF CreateGate, Evaluate, FindCase, LinkCase, Freeze, WorkerDies, ReadFacts,
                benefitVars
<1>7. CASE \E w \in Workers : OpenGateCase(w)
    BY <1>2, <1>7 DEF OpenGateCase
<1>8. ASSUME NEW d \in Committee,
             \/ \E g \in Gates, decision \in Decisions : ReadGate(d, g, decision)
             \/ ReadCase(d) \/ LockGate(d) \/ CommitDecision(d) \/ DeciderFails(d)
      PROVE  UNCHANGED cases
    BY <1>8 DEF ReadGate, ReadCase, LockGate, CommitDecision, DeciderFails, benefitVars
<1>9. CASE \E d \in Committee : Vote(d) \/ RejectCase(d)
    BY <1>1, <1>3, <1>9 DEF Vote, RejectCase
<1>10. CASE UNCHANGED vars
    BY <1>1, <1>10 DEF vars, benefitVars
<1> QED
    BY <1>1, <1>4, <1>5, <1>6, <1>7, <1>8, <1>9, <1>10 DEF Next

-----------------------------------------------------------------------------
\* The life cycle.

OwnCase(i, table) == i \in DOMAIN table /\ table[i].for = OfBenefit
Backed(i, table) == OwnCase(i, table) /\ table[i].state = "approved"

\* What a request writes was founded when it was read, and stays so.
RequestFounded(r, table, based) ==
    /\ r.phase = "open" => r.to \in {"pending_approval", "refused"}
    /\ r.phase = "consult" => r.to \in {"approved", "refused"} /\ OwnCase(r.case, table)
    /\ r.phase = "write" =>
          /\ r.case # 0 => OwnCase(r.case, table)
          /\ r.to \in Approved => Backed(r.case, table)
          /\ r.to \in {"validation", "tracking"} => based

LifecycleInv ==
    /\ CasesTable
    /\ DOMAIN request = Users
    /\ \A u \in Users : RequestFounded(request[u], cases, baseline)
    /\ benefit.case # 0 => OwnCase(benefit.case, cases)
    /\ LifecycleIsFounded

LEMMA LifecycleInitially == Init => LifecycleInv
<1> SUFFICES ASSUME Init PROVE LifecycleInv
    OBVIOUS
<1>1. /\ cases = <<>> /\ request = [u \in Users |-> Idle]
      /\ benefit.state = "identification" /\ benefit.case = 0
    BY DEF Init, BenefitInit
<1>2. Idle.phase = "idle"
    BY DEF Idle, Request
<1>3. CasesTable
    BY <1>1 DEF CasesTable
<1> QED BY <1>1, <1>2, <1>3 DEF LifecycleInv, RequestFounded, LifecycleIsFounded, Approved

LEMMA BackedStays ==
    ASSUME CasesKept, NEW i
    PROVE  (OwnCase(i, cases) => OwnCase(i, cases')) /\ (Backed(i, cases) => Backed(i, cases'))
BY DEF CasesKept, OwnCase, Backed

LEMMA FoundedStays ==
    ASSUME CasesKept, baseline => baseline', NEW r, RequestFounded(r, cases, baseline)
    PROVE  RequestFounded(r, cases', baseline')
<1>1. /\ OwnCase(r.case, cases) => OwnCase(r.case, cases')
      /\ Backed(r.case, cases) => Backed(r.case, cases')
    BY BackedStays
<1> QED BY <1>1 DEF RequestFounded

(***************************************************************************)
(* A step that writes the benefit only to close it, and leaves each        *)
(* request as it is or in a state that is founded.                         *)
(***************************************************************************)
LEMMA LifecycleStays ==
    ASSUME LifecycleInv, CasesTable', CasesKept, baseline => baseline',
           benefit'.case = benefit.case,
           benefit'.state = benefit.state \/ benefit'.state = "closure",
           DOMAIN request' = Users,
           \A u \in Users :
              request'[u] = request[u] \/ RequestFounded(request'[u], cases', baseline')
    PROVE  LifecycleInv'
<1>1. \A u \in Users : RequestFounded(request'[u], cases', baseline')
    <2> SUFFICES ASSUME NEW u \in Users, request'[u] = request[u]
                 PROVE  RequestFounded(request'[u], cases', baseline')
        OBVIOUS
    <2>1. RequestFounded(request[u], cases', baseline')
        BY FoundedStays DEF LifecycleInv
    <2> QED BY <2>1
<1>2. /\ OwnCase(benefit.case, cases) => OwnCase(benefit.case, cases')
      /\ Backed(benefit.case, cases) => Backed(benefit.case, cases')
    BY BackedStays
<1>3. (benefit.case # 0 => OwnCase(benefit.case, cases))'
    BY <1>2 DEF LifecycleInv
<1>4. LifecycleIsFounded'
    BY <1>2 DEF LifecycleInv, LifecycleIsFounded, Approved, Backed, OwnCase
<1> QED BY <1>1, <1>3, <1>4 DEF LifecycleInv

\* What the machine answers, by event.
LEMMA AfterEvent ==
    ASSUME NEW event \in Moves
    PROVE  /\ event \in {"submit_for_approval", "approval_granted", "begin_validation",
                         "start_tracking", "close"}
           /\ event = "submit_for_approval" => After(event) \in {"pending_approval", "refused"}
           /\ event = "approval_granted" => After(event) \in {"approved", "refused"}
           /\ event = "close" => After(event) \in {"closure", "refused"}
           /\ event = "begin_validation" =>
                 \/ After(event) = "refused"
                 \/ After(event) = "validation" /\ benefit.state = "approved" /\ baseline
           /\ event = "start_tracking" =>
                 \/ After(event) = "refused"
                 \/ After(event) = "tracking" /\ benefit.state = "validation"
<1> DEFINE taken == {t \in Lifecycle :
                        t.event = event /\ t.from = benefit.state /\ Guarded(t)}
           chosen == CHOOSE t \in taken : TRUE
<1>1. event \in {"submit_for_approval", "approval_granted", "begin_validation",
                 "start_tracking", "close"}
    BY DEF Moves, Lifecycle, Step
<1>2. CASE taken = {}
    BY <1>1, <1>2 DEF After
<1>3. CASE taken # {}
    <2>1. chosen \in taken
        BY <1>3
    <2>2. After(event) = chosen.to
        BY <1>3 DEF After
    <2>3. /\ chosen \in Lifecycle /\ chosen.event = event
          /\ chosen.from = benefit.state /\ Guarded(chosen)
        BY <2>1
    <2> HIDE DEF chosen
    <2> QED BY <1>1, <2>2, <2>3 DEF Lifecycle, Step, Guarded
<1> QED BY <1>2, <1>3

LEMMA RequestKeepsLifecycle ==
    ASSUME LifecycleInv, CasesTable', CasesKept, NEW u \in Users,
           \/ \E event \in Moves : Read(u, event)
           \/ OpenCase(u) \/ Consult(u) \/ Write(u) \/ Schedule(u) \/ List(u) \/ Define(u)
           \/ ReadApproved(u) \/ InsertBaseline(u) \/ RequestFails(u)
    PROVE  LifecycleInv'
<1> DEFINE r == request[u]
<1>1. DOMAIN request = Users /\ RequestFounded(r, cases, baseline)
    BY DEF LifecycleInv
\* The request goes on to a state that is founded, and the benefit stays.
<1>2. ASSUME NEW new, Becomes(u, new), RequestFounded(new, cases', baseline'),
             UNCHANGED benefit, baseline => baseline'
      PROVE  LifecycleInv'
    <2>1. /\ DOMAIN request' = Users
          /\ \A v \in Users : request'[v] = IF v = u THEN new ELSE request[v]
        BY <1>1, <1>2 DEF Becomes
    <2>2. \A v \in Users :
              request'[v] = request[v] \/ RequestFounded(request'[v], cases', baseline')
        BY <1>2, <2>1
    <2> QED BY <1>2, <2>1, <2>2, LifecycleStays
<1>3. ASSUME NEW new, new.phase \notin {"open", "consult", "write"}, Becomes(u, new),
             UNCHANGED benefit, baseline => baseline'
      PROVE  LifecycleInv'
    <2>1. RequestFounded(new, cases', baseline')
        BY <1>3 DEF RequestFounded
    <2> QED BY <1>2, <1>3, <2>1
<1>4. Idle.phase = "idle"
    BY DEF Idle, Request
<1>5. ASSUME NEW event \in Moves, Read(u, event) PROVE LifecycleInv'
    <2> DEFINE new(phase) == Request(phase, After(event), benefit.case, {})
    <2>1. UNCHANGED <<benefit, baseline, cases>>
        BY <1>5 DEF Read
    <2>2. /\ new("open").phase = "open" /\ new("consult").phase = "consult"
          /\ new("write").phase = "write"
          /\ \A phase : new(phase).to = After(event) /\ new(phase).case = benefit.case
        BY DEF Request
    <2>3. OwnCase(benefit.case, cases') <=> OwnCase(benefit.case, cases)
        BY <2>1 DEF OwnCase
    <2>4. Backed(benefit.case, cases') <=> Backed(benefit.case, cases)
        BY <2>1 DEF Backed, OwnCase
    <2>5. CASE event = "submit_for_approval"
        <3>1. Becomes(u, new("open"))
            BY <1>5, <2>5 DEF Read
        <3>2. RequestFounded(new("open"), cases', baseline')
            BY <2>1, <2>2, <2>5, AfterEvent DEF RequestFounded
        <3> QED BY <1>2, <2>1, <3>1, <3>2
    <2>6. CASE event = "approval_granted"
        <3>1. Becomes(u, new("consult")) /\ benefit.case # 0
            BY <1>5, <2>6 DEF Read
        <3>2. OwnCase(benefit.case, cases)
            BY <3>1 DEF LifecycleInv
        <3>3. RequestFounded(new("consult"), cases', baseline')
            BY <2>1, <2>2, <2>3, <2>6, <3>2, AfterEvent DEF RequestFounded
        <3> QED BY <1>2, <2>1, <3>1, <3>3
    <2>7. CASE event \notin {"submit_for_approval", "approval_granted"}
        <3>1. Becomes(u, new("write")) /\ After(event) # "refused"
            BY <1>5, <2>7 DEF Read
        <3>2. /\ After(event) \in {"validation", "tracking", "closure"}
              /\ After(event) = "validation" => benefit.state = "approved" /\ baseline
              /\ After(event) = "tracking" => benefit.state = "validation"
            BY <2>7, <3>1, AfterEvent
        <3>3. After(event) \in Approved => Backed(benefit.case, cases) /\ baseline
            BY <3>2 DEF LifecycleInv, LifecycleIsFounded, Approved, Backed
        <3>4. RequestFounded(new("write"), cases', baseline')
            <4>1. benefit.case # 0 => OwnCase(benefit.case, cases)
                BY DEF LifecycleInv
            <4> QED
                BY <2>1, <2>2, <2>3, <2>4, <3>2, <3>3, <4>1 DEF RequestFounded, Approved
        <3> QED BY <1>2, <2>1, <3>1, <3>4
    <2> QED BY <2>5, <2>6, <2>7
<1>6. CASE OpenCase(u)
    <2> DEFINE new == [r EXCEPT !.phase = "write", !.case = Len(cases')]
    <2>1. r.to \in {"pending_approval", "refused"} /\ UNCHANGED <<benefit, baseline>>
        BY <1>1, <1>6 DEF OpenCase, At, RequestFounded
    <2>2. OwnCase(Len(cases'), cases')
        BY <1>6, SubmissionKeeps DEF OpenCase, OwnCase, LifecycleInv
    <2>3. CASE r.to = "refused"
        BY <1>3, <1>4, <1>6, <2>1, <2>3 DEF OpenCase, Goes, Ends
    <2>4. CASE r.to # "refused"
        <3>1. Becomes(u, new)
            BY <1>6, <2>4 DEF OpenCase, Goes
        <3>2. r.phase = "open"
            BY <1>6 DEF OpenCase, At
        <3>3. new.phase = "write" /\ new.to = "pending_approval" /\ new.case = Len(cases')
            BY <2>1, <2>4
        <3> HIDE DEF new
        <3>4. RequestFounded(new, cases', baseline')
            BY <2>2, <3>3 DEF RequestFounded, Approved
        <3> QED BY <1>2, <2>1, <3>1, <3>4
    <2> QED BY <2>3, <2>4
<1>7. CASE Consult(u)
    <2> DEFINE new == [r EXCEPT !.phase = "write", !.case = r.case]
    <2>1. UNCHANGED <<benefit, baseline, cases>>
        BY <1>7 DEF Consult
    <2>2. r.to \in {"approved", "refused"} /\ Backed(r.case, cases)
        BY <1>1, <1>7 DEF Consult, At, RequestFounded, Backed
    <2>3. CASE r.to = "refused"
        BY <1>3, <1>4, <1>7, <2>1, <2>3 DEF Consult, Goes, Ends
    <2>4. CASE r.to # "refused"
        <3>1. Becomes(u, new)
            BY <1>7, <2>4 DEF Consult, Goes
        <3>2. new.phase = "write" /\ new.to = "approved" /\ new.case = r.case
            BY <2>2, <2>4
        <3> HIDE DEF new
        <3>3. Backed(r.case, cases') /\ OwnCase(r.case, cases')
            BY <2>1, <2>2 DEF Backed, OwnCase
        <3>4. RequestFounded(new, cases', baseline')
            BY <3>2, <3>3 DEF RequestFounded, OwnCase, Backed
        <3> QED BY <1>2, <2>1, <3>1, <3>4
    <2> QED BY <2>3, <2>4
<1>8. CASE Write(u)
    <2>1. /\ benefit'.state = r.to /\ benefit'.case = r.case
          /\ UNCHANGED <<baseline, cases>>
        BY <1>8 DEF Write, RowOf
    <2>2. \E new : Becomes(u, new) /\ new.phase \in {"schedule", "list"}
        <3> DEFINE list == [r EXCEPT !.phase = "list"]
                   schedule == Request("schedule", "closure", r.case, Months)
        <3>1. list.phase = "list" /\ schedule.phase = "schedule"
            BY DEF Request
        <3>2. Becomes(u, list) \/ Becomes(u, schedule)
            BY <1>8 DEF Write
        <3> HIDE DEF list, schedule
        <3> QED BY <3>1, <3>2
    <2>3. PICK new : Becomes(u, new) /\ new.phase \in {"schedule", "list"}
        BY <2>2
    <2>4. /\ DOMAIN request' = Users
          /\ \A v \in Users : request'[v] = IF v = u THEN new ELSE request[v]
        BY <1>1, <2>3 DEF Becomes
    <2>5. \A v \in Users : RequestFounded(request'[v], cases', baseline')
        <3> SUFFICES ASSUME NEW v \in Users PROVE RequestFounded(request'[v], cases', baseline')
            OBVIOUS
        <3>1. CASE v = u
            BY <2>3, <2>4, <3>1 DEF RequestFounded
        <3>2. CASE v # u
            <4>1. RequestFounded(request[v], cases, baseline)
                BY DEF LifecycleInv
            <4>2. RequestFounded(request[v], cases', baseline')
                BY <2>1, <4>1, FoundedStays
            <4> QED BY <2>4, <3>2, <4>2
        <3> QED BY <3>1, <3>2
    <2>6. /\ r.case # 0 => OwnCase(r.case, cases)
          /\ r.to \in Approved => Backed(r.case, cases)
          /\ r.to \in {"validation", "tracking"} => baseline
        BY <1>1, <1>8 DEF Write, At, RequestFounded
    <2>7. 0 \notin DOMAIN cases
        BY DEF LifecycleInv, CasesTable
    <2> QED BY <2>1, <2>4, <2>5, <2>6, <2>7
            DEF LifecycleInv, LifecycleIsFounded, OwnCase, Backed
<1>9. CASE Schedule(u) \/ List(u) \/ Define(u) \/ ReadApproved(u) \/ InsertBaseline(u)
           \/ RequestFails(u)
    <2>1. UNCHANGED benefit /\ (baseline => baseline')
        BY <1>9 DEF Schedule, List, Define, ReadApproved, InsertBaseline, RequestFails
    <2>2. \E new : Becomes(u, new) /\ new.phase \notin {"open", "consult", "write"}
        <3>1. CASE ReadApproved(u)
            <4> DEFINE new == [Idle EXCEPT !.phase = "baseline"]
            <4>1. Becomes(u, new) /\ new.phase = "baseline"
                BY <3>1 DEF ReadApproved, Idle, Request
            <4> QED BY <4>1
        <3>2. CASE InsertBaseline(u) \/ RequestFails(u)
            BY <1>4, <3>2 DEF InsertBaseline, RequestFails, Ends
        <3>3. CASE Schedule(u)
            <4> DEFINE left == r.left \ {Earliest(r.left)}
                       new == [r EXCEPT !.left = left,
                                  !.phase = IF left = {} THEN "list" ELSE "schedule"]
            <4>1. Becomes(u, new)
                BY <3>3 DEF Schedule
            <4>2. new.phase \in {"list", "schedule"}
                OBVIOUS
            <4> HIDE DEF new
            <4> QED BY <4>1, <4>2
        <3>4. CASE List(u)
            <4> DEFINE new == [r EXCEPT !.phase = "define", !.left = Listed]
            <4>1. Becomes(u, Idle) \/ Becomes(u, new)
                BY <3>4 DEF List, Ends
            <4>2. new.phase = "define"
                OBVIOUS
            <4> HIDE DEF new
            <4> QED BY <1>4, <4>1, <4>2
        <3>5. CASE Define(u)
            <4> DEFINE left == r.left \ {Earliest(r.left)}
                       new == [r EXCEPT !.left = left]
            <4>1. Becomes(u, Idle) \/ Becomes(u, new)
                BY <3>5 DEF Define, Ends
            <4>2. new.phase = "define"
                BY <3>5 DEF Define, At
            <4> HIDE DEF new
            <4> QED BY <1>4, <4>1, <4>2
        <3> QED BY <1>9, <3>1, <3>2, <3>3, <3>4, <3>5
    <2> QED BY <1>3, <2>1, <2>2
<1> QED BY <1>5, <1>6, <1>7, <1>8, <1>9

LEMMA NextKeepsLifecycle == LifecycleInv /\ [Next]_vars => LifecycleInv'
<1> SUFFICES ASSUME LifecycleInv, [Next]_vars PROVE LifecycleInv'
    OBVIOUS
<1>1. CasesTable' /\ CasesKept
    BY NextKeepsCases DEF LifecycleInv
<1>2. ASSUME UNCHANGED request, UNCHANGED benefit, baseline => baseline'
      PROVE  LifecycleInv'
    BY <1>1, <1>2, LifecycleStays DEF LifecycleInv
<1>3. CASE BenefitStep
    <2>1. ASSUME NEW u \in Users,
                 \/ \E event \in Moves : Read(u, event)
                 \/ OpenCase(u) \/ Consult(u) \/ Write(u) \/ Schedule(u) \/ List(u)
                 \/ Define(u) \/ ReadApproved(u) \/ InsertBaseline(u) \/ RequestFails(u)
          PROVE  LifecycleInv'
        BY <1>1, <2>1, RequestKeepsLifecycle
    <2>2. CASE \/ RecordRealized \/ Elapse
               \/ \E m \in Months : CompleteCheckin(m)
               \/ \E i \in DOMAIN cases, d \in {"approved", "rejected"} : DecideCase(i, d)
        BY <1>2, <2>2 DEF RecordRealized, Elapse, CompleteCheckin, DecideCase
    <2>3. ASSUME NEW w \in Sweepers,
                 \/ \E m \in Months : ReadOverdue(w, m)
                 \/ OpenEscalation(w) \/ Raise(w) \/ Link(w) \/ SweeperDies(w)
          PROVE  LifecycleInv'
        BY <1>2, <2>3 DEF ReadOverdue, OpenEscalation, Raise, Link, SweeperDies
    <2> QED BY <1>3, <2>1, <2>2, <2>3 DEF BenefitStep
<1>4. ASSUME NEW o \in Owners, BeginStage(o) \/ CommitStage(o) \/ AbortStage(o)
      PROVE  LifecycleInv'
    BY <1>2, <1>4 DEF BeginStage, CommitStage, AbortStage, benefitVars
<1>5. ASSUME NEW w \in Workers,
             \/ \E g \in Gates : CreateGate(w, g) \/ Evaluate(w, g)
             \/ FindCase(w) \/ OpenGateCase(w) \/ LinkCase(w) \/ Freeze(w) \/ WorkerDies(w)
             \/ \E facts \in Facts : ReadFacts(w, facts)
      PROVE  LifecycleInv'
    BY <1>2, <1>5 DEF CreateGate, Evaluate, FindCase, OpenGateCase, LinkCase, Freeze,
                      WorkerDies, ReadFacts, benefitVars
<1>6. ASSUME NEW d \in Committee,
             \/ \E g \in Gates, decision \in Decisions : ReadGate(d, g, decision)
             \/ ReadCase(d) \/ Vote(d) \/ LockGate(d) \/ RejectCase(d) \/ DeciderFails(d)
      PROVE  LifecycleInv'
    BY <1>2, <1>6 DEF ReadGate, ReadCase, Vote, LockGate, RejectCase, DeciderFails,
                      benefitVars
<1>7. ASSUME NEW d \in Committee, CommitDecision(d) PROVE LifecycleInv'
    <2>1. UNCHANGED <<request, baseline>>
        BY <1>7 DEF CommitDecision
    <2>2. benefit' = benefit \/ benefit' = [benefit EXCEPT !.state = "closure"]
        BY <1>7 DEF CommitDecision, Stops
    <2>3. /\ benefit'.case = benefit.case
          /\ benefit'.state = benefit.state \/ benefit'.state = "closure"
        <3> DEFINE closed == [benefit EXCEPT !.state = "closure"]
        <3>1. closed.case = benefit.case /\ closed.state = "closure"
            OBVIOUS
        <3>2. benefit' = benefit \/ benefit' = closed
            BY <2>2
        <3> HIDE DEF closed
        <3> QED BY <3>1, <3>2
    <2> QED BY <1>1, <2>1, <2>3, LifecycleStays DEF LifecycleInv
<1>8. CASE UNCHANGED vars
    BY <1>2, <1>8 DEF vars, benefitVars
<1> QED BY <1>3, <1>4, <1>5, <1>6, <1>7, <1>8 DEF Next

(***************************************************************************)
(* However late a transition writes what it has read, a benefit past its   *)
(* approval carries a case of its own that was approved, and one in        *)
(* validation or tracking has a baseline (LifecycleIsFounded).             *)
(***************************************************************************)
THEOREM LifecycleStaysFounded == Spec => []LifecycleIsFounded
<1>1. LifecycleInv => LifecycleIsFounded
    BY DEF LifecycleInv
<1> QED BY <1>1, LifecycleInitially, NextKeepsLifecycle, PTL DEF Spec

-----------------------------------------------------------------------------
\* The gates.

\* Whoever is about to decide a gate holds its lock, and found it undecided;
\* whoever is about to move the initiative holds its row, and found it moving.
GateInv ==
    /\ DOMAIN gate = Gates /\ DOMAIN decider = Committee /\ DOMAIN mover = Owners
    /\ \A g \in Gates : ~gate[g].exists => gate[g].evidence = "absent"
    /\ \A d \in Committee : Is(d, "idle") \/ decider[d].gate \in Gates
    /\ \A d \in Committee : Is(d, "commit") => Undecided(decider[d].gate)
    /\ \A c, d \in Committee :
          Is(c, "commit") /\ Is(d, "commit") /\ decider[c].gate = decider[d].gate => c = d
    /\ \A o \in Owners : mover[o] # 0 => stage # Done
    /\ \A o, p \in Owners : mover[o] # 0 /\ mover[p] # 0 => o = p
    /\ StopIsTerminal

\* Decisions and frozen facts stand.
GateStands ==
    \A g \in Gates :
        /\ ~Undecided(g) => gate'[g].decision = gate[g].decision
        /\ gate[g].evidence \in Facts => gate'[g].evidence = gate[g].evidence

LEMMA GatesInitially == Init => GateInv
<1> SUFFICES ASSUME Init PROVE GateInv
    OBVIOUS
<1>1. /\ gate = [g \in Gates |-> NoGate]
      /\ decider = [d \in Committee |-> Absent]
      /\ mover = [o \in Owners |-> 0]
    BY DEF Init
<1>2. /\ NoGate.evidence = "absent" /\ NoGate.decision = "none"
      /\ Absent.phase = "idle"
    BY DEF NoGate, Absent, Deciding
<1> QED BY <1>1, <1>2 DEF GateInv, Is, StopIsTerminal

\* A step that leaves the decisions, the stage and the locks alone.
LEMMA GatesUntouched ==
    ASSUME GateInv, UNCHANGED <<decider, mover, stage>>,
           DOMAIN gate' = Gates,
           \A g \in Gates :
              /\ gate'[g].decision = gate[g].decision
              /\ \/ gate'[g].exists = gate[g].exists /\ gate'[g].evidence = gate[g].evidence
                 \/ gate'[g].exists /\ gate[g].evidence \notin Facts
    PROVE  GateInv' /\ GateStands
<1>1. GateStands
    BY DEF GateStands
<1>2. \A g \in Gates : ~gate'[g].exists => gate'[g].evidence = "absent"
    BY DEF GateInv
<1>3. \A d \in Committee : Is(d, "commit")' => Undecided(decider[d].gate)'
    BY DEF GateInv, Is, Undecided
<1>4. StopIsTerminal'
    BY DEF GateInv, StopIsTerminal
<1> QED BY <1>1, <1>2, <1>3, <1>4 DEF GateInv, Is

LEMMA WorkerKeepsGates ==
    ASSUME GateInv, NEW w \in Workers,
           \/ \E g \in Gates : CreateGate(w, g) \/ Evaluate(w, g)
           \/ FindCase(w) \/ OpenGateCase(w) \/ LinkCase(w) \/ Freeze(w) \/ WorkerDies(w)
           \/ \E facts \in Facts : ReadFacts(w, facts)
    PROVE  GateInv' /\ GateStands
<1>1. UNCHANGED <<decider, mover, stage>>
    BY DEF CreateGate, Evaluate, FindCase, OpenGateCase, LinkCase, Freeze, WorkerDies,
           ReadFacts
<1>2. DOMAIN gate = Gates
    BY DEF GateInv
<1>3. ASSUME NEW g \in Gates, CreateGate(w, g) PROVE GateInv' /\ GateStands
    <2> DEFINE row == [gate[g] EXCEPT !.exists = TRUE,
                          !.evidence = IF gate[g].exists THEN @ ELSE "pending"]
    <2>1. gate' = [gate EXCEPT ![g] = row]
        BY <1>3 DEF CreateGate
    <2>2. /\ row.exists /\ row.decision = gate[g].decision
          /\ gate[g].exists => row.evidence = gate[g].evidence
          /\ ~gate[g].exists => gate[g].evidence \notin Facts
        BY DEF GateInv, Facts
    <2> HIDE DEF row
    <2>3. /\ DOMAIN gate' = Gates
          /\ \A h \in Gates : gate'[h] = IF h = g THEN row ELSE gate[h]
        BY <1>2, <2>1
    <2>4. \A h \in Gates :
              /\ gate'[h].decision = gate[h].decision
              /\ \/ gate'[h].exists = gate[h].exists /\ gate'[h].evidence = gate[h].evidence
                 \/ gate'[h].exists /\ gate[h].evidence \notin Facts
        <3> SUFFICES ASSUME NEW h \in Gates
                     PROVE  /\ gate'[h].decision = gate[h].decision
                            /\ \/ /\ gate'[h].exists = gate[h].exists
                                  /\ gate'[h].evidence = gate[h].evidence
                               \/ gate'[h].exists /\ gate[h].evidence \notin Facts
            OBVIOUS
        <3>1. CASE h = g
            <4>1. gate'[h] = row
                BY <2>3, <3>1
            <4> QED BY <2>2, <3>1, <4>1
        <3>2. CASE h # g
            BY <2>3, <3>2
        <3> QED BY <3>1, <3>2
    <2> QED BY <1>1, <2>3, <2>4, GatesUntouched
<1>4. CASE LinkCase(w)
    <2> DEFINE g == worker[w].gate
               row == [gate[g] EXCEPT !.case = Linked(@, worker[w].case)]
    <2>1. gate' = [gate EXCEPT ![g] = row]
        BY <1>4 DEF LinkCase
    <2>2. /\ row.exists = gate[g].exists /\ row.decision = gate[g].decision
          /\ row.evidence = gate[g].evidence
        OBVIOUS
    <2> HIDE DEF row
    <2> QED BY <1>1, <1>2, <2>1, <2>2, GatesUntouched
<1>5. CASE Freeze(w)
    <2> DEFINE g == worker[w].gate
               row == [gate[g] EXCEPT !.evidence = worker[w].facts]
    <2>1. CASE StillPending(g)
        <3>1. gate' = [gate EXCEPT ![g] = row]
            BY <1>5, <2>1 DEF Freeze
        <3>2. /\ row.exists = gate[g].exists /\ row.decision = gate[g].decision
              /\ gate[g].evidence = "pending"
            BY <2>1 DEF StillPending
        <3>3. gate[g].evidence \notin Facts /\ (g \in Gates => gate[g].exists)
            BY <3>2 DEF GateInv, Facts
        <3> HIDE DEF row
        <3> QED BY <1>1, <1>2, <3>1, <3>2, <3>3, GatesUntouched
    <2>2. CASE ~StillPending(g)
        BY <1>1, <1>2, <1>5, <2>2, GatesUntouched DEF Freeze
    <2> QED BY <2>1, <2>2
<1>6. CASE \/ \E g \in Gates : Evaluate(w, g)
           \/ FindCase(w) \/ OpenGateCase(w) \/ WorkerDies(w)
           \/ \E facts \in Facts : ReadFacts(w, facts)
    <2>1. UNCHANGED gate
        BY <1>6 DEF Evaluate, FindCase, OpenGateCase, WorkerDies, ReadFacts
    <2> QED BY <1>1, <1>2, <2>1, GatesUntouched
<1> QED BY <1>3, <1>4, <1>5, <1>6

LEMMA OwnerKeepsGates ==
    ASSUME GateInv, NEW o \in Owners, BeginStage(o) \/ CommitStage(o) \/ AbortStage(o)
    PROVE  GateInv' /\ GateStands
<1>1. UNCHANGED <<gate, decider>>
    BY DEF BeginStage, CommitStage, AbortStage
<1>2. GateStands
    BY <1>1 DEF GateStands
<1>3. CASE BeginStage(o)
    <2>1. /\ stage # Done /\ UNCHANGED stage
          /\ \A p \in Owners : mover[p] = 0
          /\ DOMAIN mover' = Owners
          /\ \A p \in Owners : mover'[p] = IF p = o THEN stage ELSE 0
        BY <1>3 DEF BeginStage, StageFree, GateInv
    <2> QED BY <1>1, <1>2, <2>1 DEF GateInv, Is, Undecided, StopIsTerminal
<1>4. CASE CommitStage(o) \/ AbortStage(o)
    <2>1. /\ mover[o] # 0
          /\ DOMAIN mover' = Owners
          /\ \A p \in Owners : mover'[p] = 0
        BY <1>4 DEF CommitStage, AbortStage, GateInv
    <2>2. \A g \in Gates : gate[g].decision # "stop"
        BY <2>1 DEF GateInv, StopIsTerminal
    <2> QED BY <1>1, <1>2, <2>1, <2>2 DEF GateInv, Is, Undecided, StopIsTerminal
<1> QED BY <1>3, <1>4

LEMMA DeciderKeepsGates ==
    ASSUME GateInv, NEW d \in Committee,
           \/ \E g \in Gates, decision \in Decisions : ReadGate(d, g, decision)
           \/ ReadCase(d) \/ Vote(d) \/ LockGate(d) \/ CommitDecision(d) \/ RejectCase(d)
           \/ DeciderFails(d)
    PROVE  GateInv' /\ GateStands
<1>1. DOMAIN decider = Committee /\ DOMAIN gate = Gates
    BY DEF GateInv
<1>2. UNCHANGED mover
    BY DEF ReadGate, ReadCase, Vote, LockGate, CommitDecision, RejectCase, DeciderFails
\* The member is not about to commit: nothing else matters.
<1>3. ASSUME UNCHANGED <<gate, stage>>, NEW new, new.phase # "commit",
             new.phase = "idle" \/ new.gate \in Gates,
             decider' = [decider EXCEPT ![d] = new]
      PROVE  GateInv' /\ GateStands
    <2>1. /\ DOMAIN decider' = Committee
          /\ \A c \in Committee : decider'[c] = IF c = d THEN new ELSE decider[c]
        BY <1>1, <1>3
    <2> QED BY <1>2, <1>3, <2>1 DEF GateInv, GateStands, Is, Undecided, StopIsTerminal
<1>4. Absent.phase = "idle"
    BY DEF Absent, Deciding
<1>5. ASSUME NEW g \in Gates, NEW decision \in Decisions, ReadGate(d, g, decision)
      PROVE  GateInv' /\ GateStands
    <2> DEFINE new == Deciding(IF gate[g].case = 0 THEN "lock" ELSE "case", g, decision,
                               gate[g].case)
    <2>1. decider' = [decider EXCEPT ![d] = new] /\ UNCHANGED <<gate, stage>>
        BY <1>5 DEF ReadGate
    <2>2. new.phase # "commit" /\ new.gate \in Gates
        BY DEF Deciding
    <2> HIDE DEF new
    <2> QED BY <1>3, <2>1, <2>2
<1>6. ASSUME UNCHANGED <<gate, stage>>, NEW phase, phase # "commit", Turns(d, phase),
             ~Is(d, "idle")
      PROVE  GateInv' /\ GateStands
    <2> DEFINE new == [decider[d] EXCEPT !.phase = phase]
    <2>1. decider' = [decider EXCEPT ![d] = new]
        BY <1>6 DEF Turns
    <2>2. new.phase = phase /\ new.gate = decider[d].gate
        OBVIOUS
    <2>3. new.gate \in Gates
        BY <1>6, <2>2 DEF GateInv
    <2> HIDE DEF new
    <2> QED BY <1>3, <1>6, <2>1, <2>2, <2>3
<1>7. ASSUME UNCHANGED <<gate, stage>>, Leaves(d) PROVE GateInv' /\ GateStands
    BY <1>3, <1>4, <1>7 DEF Leaves
<1>8. CASE ReadCase(d) \/ Vote(d) \/ RejectCase(d) \/ DeciderFails(d)
    <2>1. UNCHANGED <<gate, stage>>
        BY <1>8 DEF ReadCase, Vote, RejectCase, DeciderFails
    <2>2. \/ ~Is(d, "idle") /\ (Turns(d, "vote") \/ Turns(d, "lock"))
          \/ Leaves(d)
        BY <1>8 DEF ReadCase, Vote, RejectCase, DeciderFails, Is
    <2> QED BY <1>6, <1>7, <2>1, <2>2
<1>9. CASE LockGate(d)
    <2> DEFINE new == [decider[d] EXCEPT !.phase = "commit"]
    <2>1. UNCHANGED <<gate, stage>>
        BY <1>9 DEF LockGate
    <2>2. CASE Undecided(decider[d].gate)
        <3>1. decider' = [decider EXCEPT ![d] = new]
            BY <1>9, <2>2 DEF LockGate, OpenToDecision, Turns
        <3>2. new.phase = "commit" /\ new.gate = decider[d].gate
            OBVIOUS
        <3> HIDE DEF new
        <3>3. /\ DOMAIN decider' = Committee
              /\ \A c \in Committee : decider'[c] = IF c = d THEN new ELSE decider[c]
            BY <1>1, <3>1
        <3>4. \A c \in Committee : Is(c, "commit") => decider[c].gate # decider[d].gate
            BY <1>9 DEF LockGate
        <3>5. decider[d].gate \in Gates
            BY <1>9 DEF LockGate, GateInv, Is
        <3>6. \A c \in Committee : Is(c, "idle")' \/ decider'[c].gate \in Gates
            BY <3>2, <3>3, <3>5 DEF GateInv, Is
        <3>7. \A c \in Committee : Is(c, "commit")' => Undecided(decider[c].gate)'
            BY <2>1, <2>2, <3>2, <3>3 DEF GateInv, Is, Undecided
        <3>8. \A b, c \in Committee :
                  Is(b, "commit")' /\ Is(c, "commit")' /\ decider'[b].gate = decider'[c].gate
                  => b = c
            BY <3>2, <3>3, <3>4 DEF GateInv, Is
        <3> QED BY <1>2, <2>1, <3>3, <3>6, <3>7, <3>8 DEF GateInv, GateStands, StopIsTerminal
    <2>3. CASE ~Undecided(decider[d].gate)
        BY <1>7, <1>9, <2>1, <2>3 DEF LockGate, OpenToDecision
    <2> QED BY <2>2, <2>3
<1>10. CASE CommitDecision(d)
    <2> DEFINE g == decider[d].gate
               row == [gate[g] EXCEPT !.decision = decider[d].decision]
    <2>1. Is(d, "commit") /\ Undecided(g)
        BY <1>10 DEF CommitDecision, GateInv
    <2>2. gate' = [gate EXCEPT ![g] = row]
        BY <1>10 DEF CommitDecision
    <2>3. /\ row.exists = gate[g].exists /\ row.evidence = gate[g].evidence
          /\ row.decision = decider[d].decision
        OBVIOUS
    <2>4. \E new : /\ new.phase # "commit" /\ (new.phase = "idle" \/ new.gate \in Gates)
                   /\ decider' = [decider EXCEPT ![d] = new]
        <3> DEFINE new == [decider[d] EXCEPT !.phase = "reject", !.case = benefit.case]
        <3>1. decider' = [decider EXCEPT ![d] = new] \/ decider' = [decider EXCEPT ![d] = Absent]
            BY <1>10 DEF CommitDecision, Leaves
        <3>2. new.phase = "reject" /\ new.gate = g
            OBVIOUS
        <3>3. g \in Gates
            BY <2>1 DEF GateInv, Is
        <3> HIDE DEF new
        <3> QED BY <1>4, <3>1, <3>2, <3>3
    <2>5. /\ decider[d].decision # "stop" => UNCHANGED stage
          /\ decider[d].decision = "stop" => stage' = Done /\ \A o \in Owners : mover[o] = 0
        BY <1>10 DEF CommitDecision, Stops, StageFree
    <2> HIDE DEF row
    <2>6. /\ DOMAIN gate' = Gates
          /\ \A h \in Gates : gate'[h] = IF h = g THEN row ELSE gate[h]
        BY <1>1, <2>2
    <2>7. /\ DOMAIN decider' = Committee
          /\ ~Is(d, "commit")' /\ (Is(d, "idle")' \/ decider'[d].gate \in Gates)
          /\ \A c \in Committee \ {d} : decider'[c] = decider[c]
        BY <1>1, <2>4 DEF Is
    <2>8. GateStands
        BY <2>1, <2>3, <2>6 DEF GateStands, Undecided
    <2>9. \A h \in Gates : ~gate'[h].exists => gate'[h].evidence = "absent"
        BY <2>3, <2>6 DEF GateInv
    <2>10. \A c \in Committee : Is(c, "commit")' => Undecided(decider[c].gate)'
        <3> SUFFICES ASSUME NEW c \in Committee, Is(c, "commit")'
                     PROVE  Undecided(decider[c].gate)'
            OBVIOUS
        <3>1. c # d /\ decider'[c] = decider[c] /\ Is(c, "commit")
            BY <2>7 DEF Is
        <3>2. decider[c].gate # g /\ Undecided(decider[c].gate)
            BY <2>1, <3>1 DEF GateInv
        <3>3. gate'[decider[c].gate] = gate[decider[c].gate]
            BY <2>2, <3>2
        <3> QED BY <3>1, <3>2, <3>3 DEF Undecided
    <2>11. \A b, c \in Committee :
               Is(b, "commit")' /\ Is(c, "commit")' /\ decider'[b].gate = decider'[c].gate
               => b = c
        BY <2>7 DEF GateInv, Is
    <2>12. (\A o \in Owners : mover[o] # 0 => stage # Done)'
        BY <1>2, <2>5 DEF GateInv
    <2>13. StopIsTerminal'
        BY <2>3, <2>5, <2>6 DEF GateInv, StopIsTerminal
    <2>14. \A c \in Committee : Is(c, "idle")' \/ decider'[c].gate \in Gates
        BY <2>7 DEF GateInv, Is
    <2> QED BY <1>2, <2>6, <2>7, <2>8, <2>9, <2>10, <2>11, <2>12, <2>13, <2>14 DEF GateInv
<1> QED BY <1>5, <1>8, <1>9, <1>10

LEMMA NextKeepsGates == GateInv /\ [Next]_vars => GateInv' /\ GateStands
<1> SUFFICES ASSUME GateInv, [Next]_vars PROVE GateInv' /\ GateStands
    OBVIOUS
<1>1. ASSUME UNCHANGED gateVars PROVE GateInv' /\ GateStands
    BY <1>1 DEF gateVars, GateInv, GateStands, Is, Undecided, StopIsTerminal
<1>2. CASE (BenefitStep /\ UNCHANGED gateVars) \/ UNCHANGED vars
    BY <1>1, <1>2 DEF vars
<1> QED BY <1>2, OwnerKeepsGates, WorkerKeepsGates, DeciderKeepsGates DEF Next

LEMMA GatesInvariance == Spec => []GateInv
BY GatesInitially, NextKeepsGates, PTL DEF Spec

(***************************************************************************)
(* What a gate was judged by, and how it was decided, stand, for any number*)
(* of workers that evaluate it and members that decide it (GatesStand).    *)
(***************************************************************************)
THEOREM DecidedGatesStand == Spec => GatesStand
<1>1. GateInv /\ [Next]_vars => [GateStands]_vars
    BY NextKeepsGates
<1> QED BY <1>1, GatesInvariance, PTL DEF Spec, GatesStand, GateStands

(***************************************************************************)
(* An initiative that was stopped is done and stays done, whoever was      *)
(* moving it to another stage at that moment (StopIsTerminal).             *)
(***************************************************************************)
THEOREM StopStaysTerminal == Spec => []StopIsTerminal
<1>1. GateInv => StopIsTerminal
    BY DEF GateInv
<1> QED BY <1>1, GatesInvariance, PTL

-----------------------------------------------------------------------------
\* The types.

\* A set of naturals has a least element: the intervals 1..n that its elements
\* bound are well-founded by inclusion.
LEMMA LeastExists ==
    ASSUME NEW S \in SUBSET Nat, S # {}
    PROVE  \E m \in S : \A n \in S : m <= n
<1> DEFINE T == {1..n : n \in S}
           R == StrictSubsetOrdering(Nat)
<1>1. T \subseteq FiniteSubsetsOf(Nat)
  <2> SUFFICES ASSUME NEW n \in S PROVE 1..n \in SUBSET Nat /\ IsFiniteSet(1..n)
    BY DEF FiniteSubsetsOf
  <2> QED BY FS_Interval
<1>2. T # {}
  OBVIOUS
<1>3. IsWellFoundedOn(R, FiniteSubsetsOf(Nat))
  BY FS_StrictSubsetOrderingWellFounded
<1>4. PICK x \in T : \A y \in T : <<y, x>> \notin R
  <2> HIDE DEF T, R
  <2> QED BY <1>1, <1>2, <1>3, WFMin
<1>5. PICK m \in S : x = 1..m
  OBVIOUS
<1>6. ASSUME NEW n \in S PROVE m <= n
  <2>1. CASE n < m
    <3>1. 1..n \subseteq 1..m /\ m \in 1..m /\ m \notin 1..n
      BY <2>1
    <3>2. <<1..n, 1..m>> \in R
      BY <3>1 DEF StrictSubsetOrdering
    <3> QED BY <1>4, <1>5, <3>2
  <2> QED BY <2>1
<1> QED BY <1>6

\* The earliest check-in of some is one of them.
LEMMA EarliestIsOneOfThem ==
    ASSUME NEW S \in SUBSET Months, S # {}
    PROVE  Earliest(S) \in S
<1>1. \E m \in S : \A n \in S : m <= n
    BY MonthsAssumption, LeastExists
<1> QED BY <1>1 DEF Earliest

\* And some cases have a latest one.
LEMMA LatestExists ==
    ASSUME NEW n \in Nat, NEW S \in SUBSET (1..n), S # {}
    PROVE  \E i \in S : \A j \in S : j <= i
<1> DEFINE T == {n - i : i \in S}
<1>1. T \in SUBSET Nat /\ T # {}
    <2>1. \A i \in S : n - i \in Nat
        OBVIOUS
    <2> QED BY <2>1
<1>2. PICK m \in T : \A k \in T : m <= k
    <2> HIDE DEF T
    <2> QED BY <1>1, LeastExists
<1>3. PICK i \in S : m = n - i
    OBVIOUS
<1>4. ASSUME NEW j \in S PROVE j <= i
    <2>1. m <= n - j
        BY <1>2
    <2> QED BY <1>3, <2>1
<1> QED BY <1>4

\* The table of cases.
CaseRows == [for : [kind : {"benefit", "checkin", "gate"}, of : Nat],
             state : {"pending", "approved", "rejected"}, raised : BOOLEAN]

\* What the rows and the open calls hold, when cases are numbered up to n.
CheckinRows(n) == [exists : BOOLEAN, defined : BOOLEAN, completed : BOOLEAN, link : 0..n]
RequestRows(n) == [phase : Phases, to : States \cup {"refused"}, case : 0..n,
                   left : SUBSET Months]
SweepRows(n) == [phase : {"idle", "open", "raise", "link"}, left : SUBSET Months, case : 0..n]
GateRows(n) == [exists : BOOLEAN, case : 0..n, evidence : {"absent", "pending"} \cup Facts,
                decision : Decisions \cup {"none"}]
WorkRows(n) == [phase : {"idle", "find", "open", "link", "evaluate", "freeze"},
                gate : Gates \cup {0}, case : 0..n, facts : {"absent"} \cup Facts]
DecisionRows(n) == [phase : {"idle", "case", "vote", "lock", "commit", "reject"},
                    gate : Gates \cup {0}, decision : Decisions \cup {"none"}, case : 0..n]

Holds(n) ==
    /\ benefit \in [state : States, case : 0..n]
    /\ checkin \in [Months -> CheckinRows(n)]
    /\ request \in [Users -> RequestRows(n)]
    /\ sweeper \in [Sweepers -> SweepRows(n)]
    /\ gate \in [Gates -> GateRows(n)]
    /\ worker \in [Workers -> WorkRows(n)]
    /\ decider \in [Committee -> DecisionRows(n)]

\* What holds for some cases holds when there are more.
LEMMA HoldsMore ==
    ASSUME NEW m \in Nat, NEW n \in Nat, m <= n, Holds(m) PROVE Holds(n)
<1>0. 0..m \subseteq 0..n
    OBVIOUS
<1>1. /\ CheckinRows(m) \subseteq CheckinRows(n) /\ RequestRows(m) \subseteq RequestRows(n)
      /\ SweepRows(m) \subseteq SweepRows(n) /\ GateRows(m) \subseteq GateRows(n)
      /\ WorkRows(m) \subseteq WorkRows(n) /\ DecisionRows(m) \subseteq DecisionRows(n)
    BY <1>0 DEF CheckinRows, RequestRows, SweepRows, GateRows, WorkRows, DecisionRows
<1>2. benefit \in [state : States, case : 0..n]
    BY <1>0 DEF Holds
<1> QED BY <1>1, <1>2 DEF Holds

\* A request writes only a state the machine goes to, and defines the reviews of
\* check-ins that are there; a sweep has a check-in at hand, a worker a gate.
CallsOK ==
    /\ \A u \in Users :
        /\ At(u, "write") => request[u].to # "refused"
        /\ At(u, "define") =>
              request[u].left # {} /\ \A m \in request[u].left : checkin[m].exists
    /\ \A w \in Sweepers : sweeper[w].phase # "idle" => sweeper[w].left # {}
    /\ \A w \in Workers : ~Does(w, "idle") => worker[w].gate \in Gates

\* Only a check-in that is there has a review defined or is completed.
CheckinsOK == \A m \in Months : checkin[m].defined \/ checkin[m].completed => checkin[m].exists

\* The initiative leaves a stage behind for its gate, and the gate is announced.
StagesOK ==
    /\ stage \in Start..Done
    /\ mover \in [Owners -> Gates \cup {0}]
    /\ announced \subseteq Gates
    /\ \A g \in Gates : gate[g].exists => g \in announced
    /\ required \subseteq {g \in Gates : gate[g].decision = "intervene"}

\* The facts, the clock and the count of requests.
CountsOK == /\ baseline \in BOOLEAN /\ realized \in BOOLEAN
            /\ elapsed \in Months \cup {0}
            /\ requests \in 0..MaxRequests

(***************************************************************************)
(* The strengthening of the type invariant.  Besides the shape of every    *)
(* row it says what the calls in flight rest on: Write has a state to      *)
(* write, a sweep a check-in at hand, a worker a gate.  Without those a    *)
(* step could store what its reader never checked.                         *)
(***************************************************************************)
ValueShapes == /\ cases \in Seq(CaseRows)
               /\ Holds(Len(cases))
               /\ CallsOK /\ CheckinsOK /\ StagesOK /\ CountsOK

\* It holds at the start.
LEMMA ShapesInitially == Init => ValueShapes
<1> SUFFICES ASSUME Init PROVE ValueShapes
    OBVIOUS
<1> USE DEF Init, BenefitInit
<1>1. cases = <<>> /\ Len(cases) = 0 /\ cases \in Seq(CaseRows)
    OBVIOUS
<1>2. Holds(0)
    <2>1. benefit \in [state : States, case : 0..0]
        BY DEF States, Lifecycle, Step
    <2>2. checkin \in [Months -> CheckinRows(0)]
        BY DEF CheckinRows
    <2>3. request \in [Users -> RequestRows(0)]
        BY DEF RequestRows, Idle, Request, Phases
    <2>4. sweeper \in [Sweepers -> SweepRows(0)]
        BY DEF SweepRows, Resting, Sweep
    <2>5. gate \in [Gates -> GateRows(0)]
        BY DEF GateRows, NoGate
    <2>6. worker \in [Workers -> WorkRows(0)]
        BY DEF WorkRows, Unemployed, Work
    <2>7. decider \in [Committee -> DecisionRows(0)]
        BY DEF DecisionRows, Absent, Deciding
    <2> QED BY <2>1, <2>2, <2>3, <2>4, <2>5, <2>6, <2>7 DEF Holds
<1>3. CallsOK /\ CheckinsOK
    BY DEF CallsOK, CheckinsOK, At, Idle, Request, Resting, Sweep, Does, Unemployed, Work
<1>4. StagesOK
    BY StartAssumption DEF StagesOK, NoGate
<1>5. CountsOK
    <2>1. MaxRequests \in Nat
        BY BoundsAssumption
    <2>2. baseline \in BOOLEAN /\ realized \in BOOLEAN
        BY Zenon
    <2> QED BY <2>1, <2>2 DEF CountsOK
<1> QED BY <1>1, <1>2, <1>3, <1>4, <1>5 DEF ValueShapes

\* A case is added for a subject there is, and a decision leaves it in its place.
LEMMA CasesGrow ==
    ASSUME ValueShapes, [Next]_vars
    PROVE  cases' \in Seq(CaseRows) /\ Len(cases) <= Len(cases')
<1> DEFINE Goal == cases' \in Seq(CaseRows) /\ Len(cases) <= Len(cases')
<1>0. cases \in Seq(CaseRows) /\ Len(cases) \in Nat
    BY DEF ValueShapes
<1>1. ASSUME UNCHANGED cases PROVE Goal
    BY <1>0, <1>1
<1>2. ASSUME NEW subject \in [kind : {"benefit", "checkin", "gate"}, of : Nat],
             cases' = Created(subject)
      PROVE  Goal
    <2>1. Case(subject) \in CaseRows
        BY DEF Case, CaseRows
    <2> DEFINE row == Case(subject)
    <2>2. cases' = Append(cases, row)
        BY <1>2 DEF Created
    <2> HIDE DEF row
    <2>3. row \in CaseRows
        BY <2>1 DEF row
    <2> HIDE DEF Goal
    <2>4. cases' \in Seq(CaseRows) /\ Len(cases') = Len(cases) + 1
        BY <1>0, <2>2, <2>3
    <2> QED BY <1>0, <2>4 DEF Goal
<1>3. ASSUME NEW i, NEW row \in CaseRows, cases' = [cases EXCEPT ![i] = row]
      PROVE  Goal
    <2>0. cases \in [1..Len(cases) -> CaseRows]
        BY <1>0
    <2>1. cases' \in [1..Len(cases) -> CaseRows]
        BY <1>3, <2>0
    <2>2. cases' \in Seq(CaseRows) /\ Len(cases') = Len(cases)
        BY <1>0, <2>1
    <2> QED BY <1>0, <2>2
<1>4. ASSUME NEW i, NEW state \in {"approved", "rejected"}, cases' = DecidedAs(i, state)
      PROVE  Goal
    <2>1. CASE i \in DOMAIN cases
        <3>0. cases[i] \in CaseRows
            BY <1>0, <2>1
        <3>1. [cases[i] EXCEPT !.state = state] \in CaseRows
            BY <3>0 DEF CaseRows
        <3> QED BY <1>3, <1>4, <3>1 DEF DecidedAs
    <2>2. CASE i \notin DOMAIN cases
        <3>1. cases' = cases
            BY <1>0, <1>4, <2>2 DEF DecidedAs
        <3> QED BY <1>1, <3>1
    <2> QED BY <2>1, <2>2
<1>5. CASE BenefitStep
    <2>1. ASSUME NEW u \in Users, OpenCase(u) PROVE Goal
        <3>1. OfBenefit \in [kind : {"benefit", "checkin", "gate"}, of : Nat]
            BY DEF OfBenefit, Subject
        <3> QED BY <1>2, <2>1, <3>1 DEF OpenCase
    <2>2. ASSUME NEW w \in Sweepers, OpenEscalation(w) PROVE Goal
        <3>1. sweeper[w].left \in SUBSET Months /\ sweeper[w].left # {}
            BY <2>2 DEF OpenEscalation, ValueShapes, Holds, SweepRows, CallsOK
        <3>2. Earliest(sweeper[w].left) \in Nat
            BY <3>1, EarliestIsOneOfThem, MonthsAssumption
        <3>3. OfCheckin(Earliest(sweeper[w].left))
                 \in [kind : {"benefit", "checkin", "gate"}, of : Nat]
            BY <3>2 DEF OfCheckin, Subject
        <3> QED BY <1>2, <2>2, <3>3 DEF OpenEscalation
    <2>3. ASSUME NEW w \in Sweepers, Raise(w) PROVE Goal
        <3> DEFINE i == sweeper[w].case
                   row == [cases[i] EXCEPT !.raised = @ \/ cases[i].state = "pending"]
        <3>1. cases' = [cases EXCEPT ![i] = row]
            BY <2>3 DEF Raise
        <3>2. CASE i \in DOMAIN cases
            <4>1. cases[i] \in CaseRows
                BY <1>0, <3>2
            <4>2. (cases[i].raised \/ cases[i].state = "pending") \in BOOLEAN
                OBVIOUS
            <4> DEFINE raised == cases[i].raised \/ cases[i].state = "pending"
            <4>3. row = [cases[i] EXCEPT !.raised = raised]
                OBVIOUS
            <4> HIDE DEF raised, row, i
            <4>4. row \in CaseRows
                BY <4>1, <4>2, <4>3 DEF CaseRows, raised
            <4> QED BY <1>3, <3>1, <4>4
        <3>3. CASE i \notin DOMAIN cases
            <4>1. cases' = cases
                BY <1>0, <3>1, <3>3
            <4> QED BY <1>1, <4>1
        <3> QED BY <3>2, <3>3
    <2>4. ASSUME NEW u \in Users,
                 \/ \E event \in Moves : Read(u, event)
                 \/ Consult(u) \/ Write(u) \/ Schedule(u) \/ List(u) \/ Define(u)
                 \/ ReadApproved(u) \/ InsertBaseline(u) \/ RequestFails(u)
          PROVE  UNCHANGED cases
        BY <2>4 DEF Read, Consult, Write, Schedule, List, Define, ReadApproved,
                    InsertBaseline, RequestFails
    <2>5. ASSUME NEW w \in Sweepers,
                 (\E m \in Months : ReadOverdue(w, m)) \/ Link(w) \/ SweeperDies(w)
          PROVE  UNCHANGED cases
        BY <2>5 DEF ReadOverdue, Link, SweeperDies
    <2>6. CASE RecordRealized \/ Elapse \/ \E m \in Months : CompleteCheckin(m)
        BY <1>1, <2>6 DEF RecordRealized, Elapse, CompleteCheckin
    <2>7. CASE \E i \in DOMAIN cases, d \in {"approved", "rejected"} : DecideCase(i, d)
        BY <1>4, <2>7 DEF DecideCase
    <2> HIDE DEF Goal
    <2> QED BY <1>1, <1>5, <2>1, <2>2, <2>3, <2>4, <2>5, <2>6, <2>7 DEF BenefitStep, Goal
<1>6. ASSUME NEW o \in Owners, BeginStage(o) \/ CommitStage(o) \/ AbortStage(o)
      PROVE  UNCHANGED cases
    BY <1>6 DEF BeginStage, CommitStage, AbortStage, benefitVars
<1>7. ASSUME NEW w \in Workers,
             \/ \E g \in Gates : CreateGate(w, g) \/ Evaluate(w, g)
             \/ FindCase(w) \/ LinkCase(w) \/ Freeze(w) \/ WorkerDies(w)
             \/ \E facts \in Facts : ReadFacts(w, facts)
      PROVE  UNCHANGED cases
    BY <1>7 DEF CreateGate, Evaluate, FindCase, LinkCase, Freeze, WorkerDies, ReadFacts,
                benefitVars
<1>8. ASSUME NEW w \in Workers, OpenGateCase(w) PROVE Goal
    <2>1. worker[w].gate \in Gates
        BY <1>8 DEF OpenGateCase, ValueShapes, CallsOK, Does
    <2>2. worker[w].gate \in Nat
        BY <2>1, StartAssumption DEF Gates, Design, Done
    <2>3. OfGate(worker[w].gate) \in [kind : {"benefit", "checkin", "gate"}, of : Nat]
        BY <2>2 DEF OfGate, Subject
    <2> QED BY <1>2, <1>8, <2>3 DEF OpenGateCase
<1>9. ASSUME NEW d \in Committee,
             \/ \E g \in Gates, decision \in Decisions : ReadGate(d, g, decision)
             \/ ReadCase(d) \/ LockGate(d) \/ CommitDecision(d) \/ DeciderFails(d)
      PROVE  UNCHANGED cases
    BY <1>9 DEF ReadGate, ReadCase, LockGate, CommitDecision, DeciderFails, benefitVars
<1>10. CASE \E d \in Committee : Vote(d) \/ RejectCase(d)
    BY <1>1, <1>4, <1>10 DEF Vote, RejectCase
<1>11. CASE UNCHANGED vars
    BY <1>1, <1>11 DEF vars, benefitVars
<1> HIDE DEF Goal
<1> QED BY <1>1, <1>5, <1>6, <1>7, <1>8, <1>9, <1>10, <1>11 DEF Next, Goal

\* What the machine answers is a state or a refusal.
LEMMA AfterIsAState ==
    ASSUME NEW event \in Moves PROVE After(event) \in States \cup {"refused"}
BY AfterEvent DEF States, Lifecycle, Step

\* What a request of the benefit's writes has the shape of its row.
LEMMA RequestHolds ==
    ASSUME ValueShapes, NEW n \in Nat, n = Len(cases'), Holds(n), NEW u \in Users,
           \/ \E event \in Moves : Read(u, event)
           \/ OpenCase(u) \/ Consult(u) \/ Write(u) \/ Schedule(u) \/ List(u) \/ Define(u)
           \/ ReadApproved(u) \/ InsertBaseline(u) \/ RequestFails(u)
    PROVE  /\ benefit' \in [state : States, case : 0..n]
           /\ checkin' \in [Months -> CheckinRows(n)]
           /\ request' \in [Users -> RequestRows(n)]
<1> DEFINE r == request[u]
           BenefitTyped == benefit' \in [state : States, case : 0..n]
           CheckinTyped == checkin' \in [Months -> CheckinRows(n)]
           RequestTyped == request' \in [Users -> RequestRows(n)]
<1>0. /\ benefit \in [state : States, case : 0..n]
      /\ checkin \in [Months -> CheckinRows(n)]
      /\ request \in [Users -> RequestRows(n)] /\ r \in RequestRows(n)
    BY DEF Holds
<1>1. ASSUME NEW new \in RequestRows(n), Becomes(u, new) PROVE RequestTyped
    BY <1>0, <1>1 DEF Becomes
<1>2. ASSUME Ends(u) PROVE RequestTyped
    <2>1. Idle \in RequestRows(n)
        BY DEF Idle, Request, RequestRows, Phases
    <2> QED BY <1>1, <1>2, <2>1 DEF Ends
<1>3. ASSUME NEW phase \in Phases, NEW left \in SUBSET Months
      PROVE  [r EXCEPT !.phase = phase, !.left = left] \in RequestRows(n)
    BY <1>0 DEF RequestRows
<1>4. ASSUME NEW case \in 0..n, Goes(u, case) PROVE RequestTyped
    <2>1. [r EXCEPT !.phase = "write", !.case = case] \in RequestRows(n)
        BY <1>0 DEF RequestRows, Phases
    <2> QED BY <1>1, <1>2, <1>4, <2>1 DEF Goes
<1>5. ASSUME NEW m, NEW row, checkin' = [checkin EXCEPT ![m] = row],
             m \in Months => row \in CheckinRows(n)
      PROVE  CheckinTyped
    BY <1>0, <1>5
<1>6. r.left \in SUBSET Months /\ r.case \in 0..n
    BY <1>0 DEF RequestRows
<1> HIDE DEF BenefitTyped, CheckinTyped, RequestTyped
<1>7. ASSUME NEW event \in Moves, Read(u, event)
      PROVE  BenefitTyped /\ CheckinTyped /\ RequestTyped
    <2>1. \A phase \in Phases : Request(phase, After(event), benefit.case, {}) \in RequestRows(n)
        BY <1>0, AfterIsAState DEF Request, RequestRows
    <2>2. \E phase \in Phases : Becomes(u, Request(phase, After(event), benefit.case, {}))
        BY <1>7 DEF Read, Phases
    <2> QED BY <1>0, <1>1, <1>7, <2>1, <2>2 DEF Read, BenefitTyped, CheckinTyped
<1>8. CASE OpenCase(u)
    <2>1. Goes(u, n) /\ UNCHANGED <<benefit, checkin>>
        BY <1>8 DEF OpenCase
    <2> QED BY <1>0, <1>4, <2>1 DEF BenefitTyped, CheckinTyped, RequestTyped
<1>9. CASE Consult(u)
    <2>1. Goes(u, r.case) /\ UNCHANGED <<benefit, checkin>>
        BY <1>9 DEF Consult
    <2> QED BY <1>0, <1>4, <1>6, <2>1 DEF BenefitTyped, CheckinTyped, RequestTyped
<1>10. CASE Write(u)
    <2>1. r.to \in States
        BY <1>0, <1>10 DEF Write, At, ValueShapes, CallsOK, RequestRows
    <2>2. RowOf(u) \in [state : States, case : 0..n]
        BY <1>6, <2>1 DEF RowOf
    <2>3. CASE r.to = "closure"
        <3>1. Request("schedule", "closure", r.case, Months) \in RequestRows(n)
            BY <1>0, <1>6, <2>1, <2>3 DEF Request, RequestRows, Phases
        <3> QED BY <1>0, <1>1, <1>10, <2>2, <2>3, <3>1
                DEF Write, BenefitTyped, CheckinTyped, RequestTyped
    <2>4. CASE r.to # "closure"
        <3>1. [r EXCEPT !.phase = "list"] \in RequestRows(n)
            BY <1>0 DEF RequestRows, Phases
        <3> QED BY <1>0, <1>1, <1>10, <2>2, <2>4, <3>1
                DEF Write, BenefitTyped, CheckinTyped, RequestTyped
    <2> QED BY <2>3, <2>4
<1>11. CASE Schedule(u)
    <2> DEFINE m == Earliest(r.left)
               left == r.left \ {m}
               phase == IF left = {} THEN "list" ELSE "schedule"
               row == [checkin[m] EXCEPT !.exists = TRUE]
    <2>1. /\ checkin' = [checkin EXCEPT ![m] = row] /\ UNCHANGED benefit
          /\ Becomes(u, [r EXCEPT !.left = left, !.phase = phase])
        BY <1>11 DEF Schedule
    <2>2. phase \in Phases /\ left \in SUBSET Months
        BY <1>6 DEF Phases
    <2>3. m \in Months => row \in CheckinRows(n)
        BY <1>0 DEF CheckinRows
    <2> HIDE DEF m, left, phase, row
    <2>4. [r EXCEPT !.left = left, !.phase = phase] \in RequestRows(n)
        BY <1>0, <2>2 DEF RequestRows
    <2> QED BY <1>0, <1>1, <1>5, <2>1, <2>3, <2>4 DEF BenefitTyped, CheckinTyped, RequestTyped
<1>12. CASE List(u)
    <2>1. Listed \in SUBSET Months /\ "define" \in Phases
        BY DEF Listed, Phases
    <2>2. [r EXCEPT !.phase = "define", !.left = Listed] \in RequestRows(n)
        BY <1>3, <2>1
    <2> QED BY <1>0, <1>1, <1>2, <1>12, <2>2
            DEF List, BenefitTyped, CheckinTyped, RequestTyped
<1>13. CASE Define(u)
    <2> DEFINE m == Earliest(r.left)
               left == r.left \ {m}
               row == [checkin[m] EXCEPT !.defined = TRUE]
    <2>1. /\ checkin' = [checkin EXCEPT ![m] = row] /\ UNCHANGED benefit
          /\ Ends(u) \/ Becomes(u, [r EXCEPT !.left = left])
        BY <1>13 DEF Define
    <2>2. left \in SUBSET Months
        BY <1>6
    <2>3. m \in Months => row \in CheckinRows(n)
        BY <1>0 DEF CheckinRows
    <2> HIDE DEF m, left, row
    <2>4. [r EXCEPT !.left = left] \in RequestRows(n)
        BY <1>0, <2>2 DEF RequestRows
    <2> QED BY <1>0, <1>1, <1>2, <1>5, <2>1, <2>3, <2>4
            DEF BenefitTyped, CheckinTyped, RequestTyped
<1>14. CASE ReadApproved(u) \/ InsertBaseline(u) \/ RequestFails(u)
    <2>1. [Idle EXCEPT !.phase = "baseline"] \in RequestRows(n)
        BY DEF Idle, Request, RequestRows, Phases
    <2> QED BY <1>0, <1>1, <1>2, <1>14, <2>1
            DEF ReadApproved, InsertBaseline, RequestFails, BenefitTyped, CheckinTyped,
                RequestTyped
<1> QED
    BY <1>7, <1>8, <1>9, <1>10, <1>11, <1>12, <1>13, <1>14
    DEF BenefitTyped, CheckinTyped, RequestTyped

\* So has what the handler of overdue check-ins writes.
LEMMA SweepHolds ==
    ASSUME ValueShapes, NEW n \in Nat, n = Len(cases'), Holds(n), NEW w \in Sweepers,
           \/ \E m \in Months : ReadOverdue(w, m)
           \/ OpenEscalation(w) \/ Raise(w) \/ Link(w) \/ SweeperDies(w)
    PROVE  /\ checkin' \in [Months -> CheckinRows(n)]
           /\ sweeper' \in [Sweepers -> SweepRows(n)]
<1> DEFINE sweep == sweeper[w]
           CheckinTyped == checkin' \in [Months -> CheckinRows(n)]
           SweepTyped == sweeper' \in [Sweepers -> SweepRows(n)]
<1>0. /\ checkin \in [Months -> CheckinRows(n)]
      /\ sweeper \in [Sweepers -> SweepRows(n)] /\ sweep \in SweepRows(n)
    BY DEF Holds
<1>1. ASSUME NEW new \in SweepRows(n), sweeper' = [sweeper EXCEPT ![w] = new]
      PROVE  SweepTyped
    BY <1>0, <1>1
<1>2. Resting \in SweepRows(n)
    BY DEF Resting, Sweep, SweepRows
<1>3. ASSUME NEW left \in SUBSET Months PROVE Sweep("open", left, 0) \in SweepRows(n)
    BY DEF Sweep, SweepRows
<1> HIDE DEF CheckinTyped, SweepTyped
<1>4. CASE (\E m \in Months : ReadOverdue(w, m)) \/ SweeperDies(w)
    <2>1. /\ UNCHANGED checkin
          /\ \/ sweeper' = [sweeper EXCEPT ![w] = Resting]
             \/ \E left \in SUBSET Months :
                   sweeper' = [sweeper EXCEPT ![w] = Sweep("open", left, 0)]
        BY <1>4 DEF ReadOverdue, SweeperDies
    <2> QED BY <1>0, <1>1, <1>2, <1>3, <2>1 DEF CheckinTyped, SweepTyped
<1>5. CASE OpenEscalation(w)
    <2> DEFINE new == [sweep EXCEPT !.phase = "raise", !.case = n]
    <2>1. sweeper' = [sweeper EXCEPT ![w] = new] /\ UNCHANGED checkin
        BY <1>5 DEF OpenEscalation
    <2>2. new \in SweepRows(n)
        <3>1. n \in 0..n
            OBVIOUS
        <3> HIDE DEF sweep
        <3> QED BY <1>0, <3>1 DEF SweepRows
    <2> HIDE DEF new
    <2> QED BY <1>0, <1>1, <2>1, <2>2 DEF CheckinTyped, SweepTyped
<1>6. CASE Raise(w)
    <2> DEFINE new == [sweep EXCEPT !.phase = "link"]
    <2>1. sweeper' = [sweeper EXCEPT ![w] = new] /\ UNCHANGED checkin
        BY <1>6 DEF Raise
    <2>2. new \in SweepRows(n)
        BY <1>0 DEF SweepRows
    <2> HIDE DEF new
    <2> QED BY <1>0, <1>1, <2>1, <2>2 DEF CheckinTyped, SweepTyped
<1>7. CASE Link(w)
    <2> DEFINE m == Earliest(sweep.left)
               left == sweep.left \ {m}
               row == [checkin[m] EXCEPT !.link = Linked(@, sweep.case)]
               new == IF left = {} THEN Resting ELSE Sweep("open", left, 0)
    <2>1. checkin' = [checkin EXCEPT ![m] = row] /\ sweeper' = [sweeper EXCEPT ![w] = new]
        BY <1>7 DEF Link
    <2>2. new \in SweepRows(n)
        BY <1>0, <1>2, <1>3 DEF SweepRows
    <2>3. m \in Months => row \in CheckinRows(n)
        BY <1>0 DEF CheckinRows, SweepRows, Linked
    <2> HIDE DEF m, left, row, new
    <2>4. checkin' \in [Months -> CheckinRows(n)]
        BY <1>0, <2>1, <2>3
    <2> QED BY <1>1, <2>1, <2>2, <2>4 DEF CheckinTyped, SweepTyped
<1> QED BY <1>4, <1>5, <1>6, <1>7 DEF CheckinTyped, SweepTyped

\* And what a worker writes of a gate.
LEMMA WorkerHolds ==
    ASSUME ValueShapes, NEW n \in Nat, n = Len(cases'), Len(cases) <= n, Holds(n),
           NEW w \in Workers,
           \/ \E g \in Gates : CreateGate(w, g) \/ Evaluate(w, g)
           \/ FindCase(w) \/ OpenGateCase(w) \/ LinkCase(w) \/ Freeze(w) \/ WorkerDies(w)
           \/ \E facts \in Facts : ReadFacts(w, facts)
    PROVE  /\ gate' \in [Gates -> GateRows(n)]
           /\ worker' \in [Workers -> WorkRows(n)]
<1> DEFINE work == worker[w]
           GateTyped == gate' \in [Gates -> GateRows(n)]
           WorkTyped == worker' \in [Workers -> WorkRows(n)]
<1>0. /\ gate \in [Gates -> GateRows(n)]
      /\ worker \in [Workers -> WorkRows(n)] /\ work \in WorkRows(n)
    BY DEF Holds
<1>1. ASSUME NEW new \in WorkRows(n), worker' = [worker EXCEPT ![w] = new]
      PROVE  WorkTyped
    BY <1>0, <1>1
<1>2. ASSUME NEW g, NEW row, gate' = [gate EXCEPT ![g] = row],
             g \in Gates => row \in GateRows(n)
      PROVE  GateTyped
    BY <1>0, <1>2
<1> HIDE DEF work
<1>3. /\ Unemployed \in WorkRows(n)
      /\ \A phase \in {"find", "evaluate"} : \A g \in Gates :
            Work(phase, g, 0, "absent") \in WorkRows(n)
      /\ \A phase \in {"link", "evaluate"} : [work EXCEPT !.phase = phase] \in WorkRows(n)
    BY <1>0 DEF WorkRows, Work, Unemployed
<1> HIDE DEF GateTyped, WorkTyped
<1>4. ASSUME NEW g \in Gates, CreateGate(w, g) PROVE GateTyped /\ WorkTyped
    <2> DEFINE row == [gate[g] EXCEPT !.exists = TRUE,
                          !.evidence = IF gate[g].exists THEN @ ELSE "pending"]
               phase == IF gate[g].case = 0 THEN "find" ELSE "evaluate"
    <2>1. /\ gate' = [gate EXCEPT ![g] = row]
          /\ worker' = [worker EXCEPT ![w] = Work(phase, g, 0, "absent")]
        BY <1>4 DEF CreateGate
    <2>2. row \in GateRows(n)
        BY <1>0 DEF GateRows
    <2>3. phase \in {"find", "evaluate"}
        OBVIOUS
    <2> HIDE DEF row, phase
    <2> QED BY <1>1, <1>2, <1>3, <2>1, <2>2, <2>3
<1>5. ASSUME NEW g \in Gates, Evaluate(w, g) PROVE GateTyped /\ WorkTyped
    BY <1>0, <1>1, <1>3, <1>5 DEF Evaluate, GateTyped
<1>6. CASE FindCase(w)
    <2> DEFINE found == {i \in DOMAIN cases : cases[i].for = OfGate(work.gate)}
               latest == CHOOSE i \in found : \A j \in found : j <= i
               phase == IF found = {} THEN "open" ELSE "link"
               case == IF found = {} THEN 0 ELSE latest
    <2>1. /\ worker' = [worker EXCEPT ![w] = [work EXCEPT !.phase = phase, !.case = case]]
          /\ UNCHANGED gate
        <3>1. /\ worker' = [worker EXCEPT ![w].phase = phase, ![w].case = case]
              /\ UNCHANGED gate
            BY <1>6 DEF FindCase, work
        <3> HIDE DEF phase, case
        <3> QED BY <1>0, <3>1 DEF work
    <2>2. Len(cases) \in Nat /\ DOMAIN cases = 1..Len(cases)
        BY DEF ValueShapes
    <2>3. found # {} => latest \in found
        <3>1. found \in SUBSET (1..Len(cases))
            BY <2>2
        <3> HIDE DEF found
        <3>2. found # {} => \E i \in found : \A j \in found : j <= i
            BY <2>2, <3>1, LatestExists
        <3> QED BY <3>2
    <2>4. case \in 0..n
        BY <2>2, <2>3
    <2>5. phase \in {"open", "link"}
        OBVIOUS
    <2> HIDE DEF phase, case
    <2>6. [work EXCEPT !.phase = phase, !.case = case] \in WorkRows(n)
        BY <1>0, <2>4, <2>5 DEF WorkRows
    <2> QED BY <1>0, <1>1, <2>1, <2>6 DEF GateTyped, WorkTyped
<1>7. CASE OpenGateCase(w)
    <2>1. /\ worker' = [worker EXCEPT ![w] = [work EXCEPT !.phase = "link", !.case = n]]
          /\ UNCHANGED gate
        BY <1>7 DEF OpenGateCase, work
    <2>2. n \in 0..n
        OBVIOUS
    <2>3. [work EXCEPT !.phase = "link", !.case = n] \in WorkRows(n)
        BY <1>0, <2>2 DEF WorkRows
    <2> QED BY <1>0, <1>1, <2>1, <2>3 DEF GateTyped, WorkTyped
<1>8. CASE LinkCase(w)
    <2> DEFINE g == work.gate
               row == [gate[g] EXCEPT !.case = Linked(@, work.case)]
    <2>1. /\ gate' = [gate EXCEPT ![g] = row]
          /\ worker' = [worker EXCEPT ![w] = [work EXCEPT !.phase = "evaluate"]]
        BY <1>8 DEF LinkCase, Proceeds, work
    <2>2. g \in Gates => row \in GateRows(n)
        <3>1. work.case \in 0..n
            BY <1>0 DEF WorkRows
        <3> HIDE DEF g
        <3>2. ASSUME g \in Gates PROVE Linked(gate[g].case, work.case) \in 0..n
            BY <1>0, <3>1, <3>2 DEF GateRows, Linked
        <3> QED BY <1>0, <3>2 DEF GateRows
    <2> HIDE DEF g, row
    <2>3. GateTyped
        BY <1>2, <2>1, <2>2
    <2> QED BY <1>1, <1>3, <2>1, <2>3 DEF GateTyped, WorkTyped
<1>9. ASSUME NEW facts \in Facts, ReadFacts(w, facts) PROVE GateTyped /\ WorkTyped
    <2> DEFINE new == [work EXCEPT !.phase = "freeze", !.facts = facts]
    <2>1. /\ UNCHANGED gate
          /\ \/ worker' = [worker EXCEPT ![w] = new]
             \/ worker' = [worker EXCEPT ![w] = Unemployed]
        BY <1>9 DEF ReadFacts, Rests, work
    <2>2. new \in WorkRows(n)
        BY <1>0 DEF WorkRows
    <2> HIDE DEF new
    <2> QED BY <1>0, <1>1, <1>3, <2>1, <2>2 DEF GateTyped
<1>10. CASE Freeze(w)
    <2> DEFINE g == work.gate
               row == [gate[g] EXCEPT !.evidence = work.facts]
    <2>1. /\ gate' = gate \/ gate' = [gate EXCEPT ![g] = row]
          /\ worker' = [worker EXCEPT ![w] = Unemployed]
        BY <1>10 DEF Freeze, Rests, work
    <2>2. g \in Gates => row \in GateRows(n)
        BY <1>0 DEF GateRows, WorkRows
    <2> HIDE DEF g, row
    <2>3. GateTyped
        BY <1>0, <1>2, <2>1, <2>2 DEF GateTyped
    <2> QED BY <1>1, <1>3, <2>1, <2>3 DEF GateTyped, WorkTyped
<1>11. CASE WorkerDies(w)
    BY <1>0, <1>1, <1>3, <1>11 DEF WorkerDies, Rests, GateTyped, WorkTyped
<1> QED
    BY <1>4, <1>5, <1>6, <1>7, <1>8, <1>9, <1>10, <1>11 DEF GateTyped, WorkTyped

\* And what the committee writes: of the gate, and of the benefit when it stops.
LEMMA DeciderHolds ==
    ASSUME ValueShapes, NEW n \in Nat, n = Len(cases'), Holds(n), NEW d \in Committee,
           \/ \E g \in Gates, decision \in Decisions : ReadGate(d, g, decision)
           \/ ReadCase(d) \/ Vote(d) \/ LockGate(d) \/ CommitDecision(d) \/ RejectCase(d)
           \/ DeciderFails(d)
    PROVE  /\ benefit' \in [state : States, case : 0..n]
           /\ gate' \in [Gates -> GateRows(n)]
           /\ decider' \in [Committee -> DecisionRows(n)]
<1> DEFINE member == decider[d]
           BenefitTyped == benefit' \in [state : States, case : 0..n]
           GateTyped == gate' \in [Gates -> GateRows(n)]
           DeciderTyped == decider' \in [Committee -> DecisionRows(n)]
<1>0. /\ benefit \in [state : States, case : 0..n]
      /\ gate \in [Gates -> GateRows(n)]
      /\ decider \in [Committee -> DecisionRows(n)] /\ member \in DecisionRows(n)
    BY DEF Holds
<1>1. ASSUME NEW new \in DecisionRows(n), decider' = [decider EXCEPT ![d] = new]
      PROVE  DeciderTyped
    BY <1>0, <1>1
<1> HIDE DEF member
<1>2. Absent \in DecisionRows(n)
    BY DEF Absent, Deciding, DecisionRows
<1>3. ASSUME NEW phase \in {"vote", "lock", "commit"}
      PROVE  [member EXCEPT !.phase = phase] \in DecisionRows(n)
    BY <1>0 DEF DecisionRows
<1> HIDE DEF BenefitTyped, GateTyped, DeciderTyped
<1>4. ASSUME NEW g \in Gates, NEW decision \in Decisions, ReadGate(d, g, decision)
      PROVE  BenefitTyped /\ GateTyped /\ DeciderTyped
    <2> DEFINE phase == IF gate[g].case = 0 THEN "lock" ELSE "case"
    <2>1. /\ decider' = [decider EXCEPT ![d] = Deciding(phase, g, decision, gate[g].case)]
          /\ UNCHANGED <<benefit, gate>>
        BY <1>4 DEF ReadGate, benefitVars
    <2>2. phase \in {"lock", "case"} /\ gate[g].case \in 0..n
        BY <1>0 DEF GateRows
    <2> HIDE DEF phase
    <2>3. Deciding(phase, g, decision, gate[g].case) \in DecisionRows(n)
        BY <2>2 DEF Deciding, DecisionRows
    <2> QED BY <1>0, <1>1, <2>1, <2>3 DEF BenefitTyped, GateTyped
<1>5. CASE ReadCase(d) \/ Vote(d) \/ LockGate(d) \/ RejectCase(d) \/ DeciderFails(d)
    <2>1. /\ UNCHANGED <<benefit, gate>>
          /\ \/ \E phase \in {"vote", "lock", "commit"} :
                   decider' = [decider EXCEPT ![d] = [member EXCEPT !.phase = phase]]
             \/ decider' = [decider EXCEPT ![d] = Absent]
        BY <1>5 DEF ReadCase, Vote, LockGate, RejectCase, DeciderFails, Turns, Leaves,
                    benefitVars, member
    <2> QED BY <1>0, <1>1, <1>2, <1>3, <2>1 DEF BenefitTyped, GateTyped, DeciderTyped
<1>6. CASE CommitDecision(d)
    <2> DEFINE g == member.gate
               row == [gate[g] EXCEPT !.decision = member.decision]
               new == [member EXCEPT !.phase = "reject", !.case = benefit.case]
    <2>1. /\ gate' = [gate EXCEPT ![g] = row]
          /\ benefit' = benefit \/ benefit' = [benefit EXCEPT !.state = "closure"]
          /\ decider' = [decider EXCEPT ![d] = new] \/ decider' = [decider EXCEPT ![d] = Absent]
        BY <1>6 DEF CommitDecision, Stops, Leaves, member
    <2>2. g \in Gates => row \in GateRows(n)
        <3>1. \/ g \notin Gates
              \/ gate[g] \in GateRows(n) /\ member.decision \in Decisions \cup {"none"}
            BY <1>0 DEF DecisionRows
        <3> HIDE DEF g
        <3> QED BY <3>1 DEF GateRows
    <2>3. new \in DecisionRows(n)
        BY <1>0 DEF DecisionRows
    <2>4. "closure" \in States
        BY DEF States, Lifecycle, Step
    <2> HIDE DEF g, row, new
    <2>5. BenefitTyped /\ GateTyped
        BY <1>0, <2>1, <2>2, <2>4 DEF BenefitTyped, GateTyped
    <2> QED BY <1>1, <1>2, <2>1, <2>3, <2>5 DEF BenefitTyped, GateTyped, DeciderTyped
<1> QED BY <1>4, <1>5, <1>6 DEF BenefitTyped, GateTyped, DeciderTyped

\* Check-ins are not removed, and only those that are there are worked on.
LEMMA CheckinsStep ==
    ASSUME ValueShapes, [Next]_vars
    PROVE  CheckinsOK' /\ \A m \in Months : checkin[m].exists => checkin'[m].exists
<1> DEFINE Goal == CheckinsOK' /\ \A m \in Months : checkin[m].exists => checkin'[m].exists
<1>0. /\ CheckinsOK /\ checkin \in [Months -> CheckinRows(Len(cases))]
      /\ \A u \in Users : request[u].left \in SUBSET Months
    BY DEF ValueShapes, Holds, RequestRows
<1>1. ASSUME UNCHANGED checkin PROVE Goal
    BY <1>0, <1>1 DEF CheckinsOK
<1>2. ASSUME NEW m, NEW row, checkin' = [checkin EXCEPT ![m] = row],
             m \in Months => /\ checkin[m].exists => row.exists
                             /\ row.defined \/ row.completed => row.exists
      PROVE  Goal
    <2>1. \A k \in Months : checkin'[k] = IF k = m THEN row ELSE checkin[k]
        BY <1>0, <1>2
    <2> QED BY <1>0, <1>2, <2>1 DEF CheckinsOK
<1>3. \A m \in Months : checkin[m] \in CheckinRows(Len(cases))
    BY <1>0
<1> HIDE DEF Goal
<1>4. ASSUME NEW u \in Users, Schedule(u) PROVE Goal
    <2> DEFINE m == Earliest(request[u].left)
               row == [checkin[m] EXCEPT !.exists = TRUE]
    <2>1. checkin' = [checkin EXCEPT ![m] = row]
        BY <1>4 DEF Schedule
    <2> HIDE DEF m
    <2>2. m \in Months => row.exists
        BY <1>3 DEF CheckinRows
    <2> HIDE DEF row
    <2> QED BY <1>2, <2>1, <2>2
<1>5. ASSUME NEW u \in Users, Define(u) PROVE Goal
    <2> DEFINE m == Earliest(request[u].left)
               row == [checkin[m] EXCEPT !.defined = TRUE]
    <2>1. checkin' = [checkin EXCEPT ![m] = row]
        BY <1>5 DEF Define
    <2>2. m \in Months /\ checkin[m].exists
        <3>1. /\ request[u].left # {} /\ request[u].left \in SUBSET Months
              /\ \A k \in request[u].left : checkin[k].exists
            BY <1>0, <1>5 DEF Define, ValueShapes, CallsOK
        <3>2. m \in request[u].left
            BY <3>1, EarliestIsOneOfThem
        <3> QED BY <3>1, <3>2
    <2> HIDE DEF m
    <2>3. row.exists
        BY <1>3, <2>2 DEF CheckinRows
    <2> HIDE DEF row
    <2> QED BY <1>2, <2>1, <2>3
<1>6. ASSUME NEW m \in Months, CompleteCheckin(m) PROVE Goal
    <2> DEFINE row == [checkin[m] EXCEPT !.completed = TRUE]
    <2>1. checkin' = [checkin EXCEPT ![m] = row] /\ checkin[m].exists
        BY <1>6 DEF CompleteCheckin
    <2>2. row.exists
        BY <1>3, <2>1 DEF CheckinRows
    <2> HIDE DEF row
    <2> QED BY <1>2, <2>1, <2>2
<1>7. ASSUME NEW w \in Sweepers, Link(w) PROVE Goal
    <2> DEFINE m == Earliest(sweeper[w].left)
               row == [checkin[m] EXCEPT !.link = Linked(@, sweeper[w].case)]
    <2>1. checkin' = [checkin EXCEPT ![m] = row]
        BY <1>7 DEF Link
    <2> HIDE DEF m
    <2>2. m \in Months => /\ row.exists = checkin[m].exists /\ row.defined = checkin[m].defined
                          /\ row.completed = checkin[m].completed
        BY <1>3 DEF CheckinRows
    <2> HIDE DEF row
    <2>3. m \in Months => (checkin[m].defined \/ checkin[m].completed => checkin[m].exists)
        BY <1>0 DEF CheckinsOK
    <2> QED BY <1>2, <2>1, <2>2, <2>3
<1>8. CASE BenefitStep
    <2>1. ASSUME NEW u \in Users,
                 \/ \E event \in Moves : Read(u, event)
                 \/ OpenCase(u) \/ Consult(u) \/ Write(u) \/ List(u)
                 \/ ReadApproved(u) \/ InsertBaseline(u) \/ RequestFails(u)
          PROVE  UNCHANGED checkin
        BY <2>1 DEF Read, OpenCase, Consult, Write, List, ReadApproved, InsertBaseline,
                    RequestFails
    <2>2. ASSUME NEW w \in Sweepers,
                 \/ \E m \in Months : ReadOverdue(w, m)
                 \/ OpenEscalation(w) \/ Raise(w) \/ SweeperDies(w)
          PROVE  UNCHANGED checkin
        BY <2>2 DEF ReadOverdue, OpenEscalation, Raise, SweeperDies
    <2>3. CASE RecordRealized \/ Elapse
               \/ \E i \in DOMAIN cases, d \in {"approved", "rejected"} : DecideCase(i, d)
        <3>1. UNCHANGED checkin
            BY <2>3 DEF RecordRealized, Elapse, DecideCase
        <3> QED BY <1>1, <3>1 DEF Goal
    <2> QED BY <1>1, <1>4, <1>5, <1>6, <1>7, <1>8, <2>1, <2>2, <2>3 DEF BenefitStep, Goal
<1>9. ASSUME NEW o \in Owners, BeginStage(o) \/ CommitStage(o) \/ AbortStage(o)
      PROVE  UNCHANGED checkin
    BY <1>9 DEF BeginStage, CommitStage, AbortStage, benefitVars
<1>10. ASSUME NEW w \in Workers,
             \/ \E g \in Gates : CreateGate(w, g) \/ Evaluate(w, g)
             \/ FindCase(w) \/ OpenGateCase(w) \/ LinkCase(w) \/ Freeze(w) \/ WorkerDies(w)
             \/ \E facts \in Facts : ReadFacts(w, facts)
      PROVE  UNCHANGED checkin
    BY <1>10 DEF CreateGate, Evaluate, FindCase, OpenGateCase, LinkCase, Freeze, WorkerDies,
                 ReadFacts, benefitVars
<1>11. ASSUME NEW d \in Committee,
             \/ \E g \in Gates, decision \in Decisions : ReadGate(d, g, decision)
             \/ ReadCase(d) \/ Vote(d) \/ LockGate(d) \/ CommitDecision(d) \/ RejectCase(d)
             \/ DeciderFails(d)
      PROVE  UNCHANGED checkin
    BY <1>11 DEF ReadGate, ReadCase, Vote, LockGate, CommitDecision, RejectCase,
                 DeciderFails, benefitVars
<1>12. CASE UNCHANGED vars
    <2>1. UNCHANGED checkin
        BY <1>12 DEF vars, benefitVars
    <2> QED BY <1>1, <2>1 DEF Goal
<1> QED BY <1>1, <1>8, <1>9, <1>10, <1>11, <1>12 DEF Next, Goal

\* The calls keep to what they read, and the check-ins stay there for them.
LEMMA CallsStep ==
    ASSUME ValueShapes, [Next]_vars PROVE CallsOK'
<1> DEFINE RequestOK(r) == /\ r.phase = "write" => r.to # "refused"
                           /\ r.phase = "define" => /\ r.left # {}
                                                    /\ \A m \in r.left : checkin'[m].exists
           Users1 == \A u \in Users : RequestOK(request'[u])
           Sweepers1 == \A w \in Sweepers : sweeper'[w].phase # "idle" => sweeper'[w].left # {}
           Workers1 == \A w \in Workers : worker'[w].phase # "idle" => worker'[w].gate \in Gates
<1> SUFFICES Users1 /\ Sweepers1 /\ Workers1
    BY DEF CallsOK, At, Does
<1>0. /\ request \in [Users -> RequestRows(Len(cases))]
      /\ sweeper \in [Sweepers -> SweepRows(Len(cases))]
      /\ worker \in [Workers -> WorkRows(Len(cases))]
    BY DEF ValueShapes, Holds
<1>1. \A m \in Months : checkin[m].exists => checkin'[m].exists
    BY CheckinsStep
<1>2. \A u \in Users : RequestOK(request[u])
    <2> SUFFICES ASSUME NEW u \in Users PROVE RequestOK(request[u])
        OBVIOUS
    <2>1. request[u].left \in SUBSET Months
        BY <1>0 DEF RequestRows
    <2>2. /\ request[u].phase = "write" => request[u].to # "refused"
          /\ request[u].phase = "define" =>
               request[u].left # {} /\ \A m \in request[u].left : checkin[m].exists
        BY DEF ValueShapes, CallsOK, At
    <2> QED BY <1>1, <2>1, <2>2
<1> HIDE DEF RequestOK
<1>3. UNCHANGED request => Users1
    BY <1>2
<1>4. UNCHANGED sweeper => Sweepers1
    BY DEF ValueShapes, CallsOK
<1>5. UNCHANGED worker => Workers1
    BY DEF ValueShapes, CallsOK, Does
<1>6. ASSUME NEW u \in Users, NEW new, Becomes(u, new), RequestOK(new) PROVE Users1
    <2>1. \A v \in Users : request'[v] = IF v = u THEN new ELSE request[v]
        BY <1>0, <1>6 DEF Becomes
    <2> QED BY <1>2, <1>6, <2>1
<1>7. ASSUME NEW u \in Users, NEW new, Becomes(u, new), new.phase \notin {"write", "define"}
      PROVE  Users1
    <2>1. RequestOK(new)
        BY <1>7 DEF RequestOK
    <2> QED BY <1>6, <1>7, <2>1
<1>8. ASSUME NEW u \in Users, Ends(u) PROVE Users1
    <2>1. Idle.phase = "idle"
        BY DEF Idle, Request
    <2> QED BY <1>7, <1>8, <2>1 DEF Ends
<1>9. ASSUME NEW u \in Users,
             \/ \E event \in Moves : Read(u, event)
             \/ OpenCase(u) \/ Consult(u) \/ Write(u) \/ Schedule(u) \/ List(u) \/ Define(u)
             \/ ReadApproved(u) \/ InsertBaseline(u) \/ RequestFails(u)
      PROVE  Users1
    <2> DEFINE r == request[u]
    <2>0. r \in RequestRows(Len(cases))
        BY <1>0
    <2> HIDE DEF Users1
    <2>1. ASSUME NEW event \in Moves, Read(u, event) PROVE Users1
        <3> DEFINE new(phase) == Request(phase, After(event), benefit.case, {})
        <3>1. /\ new("open").phase = "open" /\ new("consult").phase = "consult"
              /\ new("write").phase = "write" /\ new("write").to = After(event)
            BY DEF Request
        <3>2. \/ Becomes(u, new("open")) \/ Becomes(u, new("consult"))
              \/ Becomes(u, new("write")) /\ After(event) # "refused"
            BY <2>1 DEF Read
        <3> HIDE DEF new
        <3>3. After(event) # "refused" => RequestOK(new("write"))
            BY <3>1 DEF RequestOK
        <3> QED BY <1>6, <1>7, <3>1, <3>2, <3>3
    <2>2. ASSUME NEW case, Goes(u, case) PROVE Users1
        <3> DEFINE new == [r EXCEPT !.phase = "write", !.case = case]
        <3>1. CASE r.to = "refused"
            BY <1>8, <2>2, <3>1 DEF Goes
        <3>2. CASE r.to # "refused"
            <4>1. Becomes(u, new)
                BY <2>2, <3>2 DEF Goes
            <4>2. new.phase = "write" /\ new.to = r.to
                BY <2>0 DEF RequestRows
            <4> HIDE DEF new
            <4>3. RequestOK(new)
                BY <3>2, <4>2 DEF RequestOK
            <4> QED BY <1>6, <4>1, <4>3
        <3> QED BY <3>1, <3>2
    <2>3. CASE OpenCase(u) \/ Consult(u)
        BY <2>2, <2>3 DEF OpenCase, Consult
    <2>4. CASE Write(u)
        <3> DEFINE list == [r EXCEPT !.phase = "list"]
                   schedule == Request("schedule", "closure", r.case, Months)
        <3>1. list.phase = "list" /\ schedule.phase = "schedule"
            BY <2>0 DEF Request, RequestRows
        <3>2. Becomes(u, list) \/ Becomes(u, schedule)
            BY <2>4 DEF Write
        <3> HIDE DEF list, schedule
        <3> QED BY <1>7, <3>1, <3>2
    <2>5. CASE Schedule(u)
        <3> DEFINE left == r.left \ {Earliest(r.left)}
                   phase == IF left = {} THEN "list" ELSE "schedule"
                   new == [r EXCEPT !.left = left, !.phase = phase]
        <3>1. Becomes(u, new)
            BY <2>5 DEF Schedule
        <3>2. phase \notin {"write", "define"}
            OBVIOUS
        <3> HIDE DEF left, phase
        <3>3. new.phase = phase
            BY <2>0 DEF RequestRows
        <3> HIDE DEF new
        <3> QED BY <1>7, <3>1, <3>2, <3>3
    <2>6. CASE List(u)
        <3> DEFINE new == [r EXCEPT !.phase = "define", !.left = Listed]
        <3>1. CASE Listed = {}
            BY <1>8, <2>6, <3>1 DEF List
        <3>2. CASE Listed # {}
            <4>1. Becomes(u, new) /\ UNCHANGED checkin
                BY <2>6, <3>2 DEF List
            <4>2. new.phase = "define" /\ new.left = Listed
                BY <2>0 DEF RequestRows
            <4>3. \A m \in Listed : checkin[m].exists
                BY DEF Listed
            <4> HIDE DEF new
            <4>4. RequestOK(new)
                BY <3>2, <4>1, <4>2, <4>3 DEF RequestOK
            <4> QED BY <1>6, <4>1, <4>4
        <3> QED BY <3>1, <3>2
    <2>7. CASE Define(u)
        <3> DEFINE left == r.left \ {Earliest(r.left)}
                   new == [r EXCEPT !.left = left]
        <3>1. CASE left = {}
            BY <1>8, <2>7, <3>1 DEF Define
        <3>2. CASE left # {}
            <4>1. Becomes(u, new) /\ r.phase = "define"
                BY <2>7, <3>2 DEF Define, At
            <4>2. RequestOK(r) /\ left \subseteq r.left
                BY <1>2
            <4> HIDE DEF left
            <4>3. new.phase = "define" /\ new.left = left
                BY <2>0, <4>1 DEF RequestRows
            <4> HIDE DEF new
            <4>4. RequestOK(new)
                BY <3>2, <4>1, <4>2, <4>3 DEF RequestOK
            <4> QED BY <1>6, <4>1, <4>4
        <3> QED BY <3>1, <3>2
    <2>8. CASE ReadApproved(u)
        <3>1. [Idle EXCEPT !.phase = "baseline"].phase = "baseline"
            BY DEF Idle, Request
        <3> QED BY <1>7, <2>8, <3>1 DEF ReadApproved
    <2>9. CASE InsertBaseline(u) \/ RequestFails(u)
        BY <1>8, <2>9 DEF InsertBaseline, RequestFails
    <2> QED BY <1>9, <2>1, <2>3, <2>4, <2>5, <2>6, <2>7, <2>8, <2>9
<1>10. ASSUME NEW w \in Sweepers, NEW new, sweeper' = [sweeper EXCEPT ![w] = new],
              new.phase # "idle" => new.left # {}
       PROVE  Sweepers1
    <2>1. \A v \in Sweepers : sweeper'[v] = IF v = w THEN new ELSE sweeper[v]
        BY <1>0, <1>10
    <2> QED BY <1>10, <2>1 DEF ValueShapes, CallsOK
<1>11. ASSUME NEW w \in Sweepers,
              \/ \E m \in Months : ReadOverdue(w, m)
              \/ OpenEscalation(w) \/ Raise(w) \/ Link(w) \/ SweeperDies(w)
       PROVE  Sweepers1
    <2> DEFINE sweep == sweeper[w]
    <2>0. /\ sweep \in SweepRows(Len(cases))
          /\ sweep.phase # "idle" => sweep.left # {}
        BY <1>0 DEF ValueShapes, CallsOK
    <2> HIDE DEF Sweepers1
    <2>1. Resting.phase = "idle" /\ \A left : Sweep("open", left, 0).left = left
        BY DEF Resting, Sweep
    <2>2. CASE (\E m \in Months : ReadOverdue(w, m)) \/ SweeperDies(w) \/ Link(w)
        <3>1. \/ sweeper' = [sweeper EXCEPT ![w] = Resting]
              \/ \E left : /\ left # {}
                           /\ sweeper' = [sweeper EXCEPT ![w] = Sweep("open", left, 0)]
            BY <2>2 DEF ReadOverdue, SweeperDies, Link
        <3> QED BY <1>10, <2>1, <3>1
    <2>3. CASE OpenEscalation(w)
        <3> DEFINE new == [sweep EXCEPT !.phase = "raise", !.case = Len(cases')]
        <3>1. sweeper' = [sweeper EXCEPT ![w] = new] /\ sweep.phase = "open"
            BY <2>3 DEF OpenEscalation
        <3>2. new.left = sweep.left
            BY <2>0 DEF SweepRows
        <3> HIDE DEF new
        <3> QED BY <1>10, <2>0, <3>1, <3>2
    <2>4. CASE Raise(w)
        <3> DEFINE new == [sweep EXCEPT !.phase = "link"]
        <3>1. sweeper' = [sweeper EXCEPT ![w] = new] /\ sweep.phase = "raise"
            BY <2>4 DEF Raise
        <3>2. new.left = sweep.left
            BY <2>0 DEF SweepRows
        <3> HIDE DEF new
        <3> QED BY <1>10, <2>0, <3>1, <3>2
    <2> QED BY <1>11, <2>2, <2>3, <2>4
<1>12. ASSUME NEW w \in Workers, NEW new, worker' = [worker EXCEPT ![w] = new],
              new.phase # "idle" => new.gate \in Gates
       PROVE  Workers1
    <2>1. \A v \in Workers : worker'[v] = IF v = w THEN new ELSE worker[v]
        BY <1>0, <1>12
    <2> QED BY <1>12, <2>1 DEF ValueShapes, CallsOK, Does
<1>13. ASSUME NEW w \in Workers,
              \/ \E g \in Gates : CreateGate(w, g) \/ Evaluate(w, g)
              \/ FindCase(w) \/ OpenGateCase(w) \/ LinkCase(w) \/ Freeze(w) \/ WorkerDies(w)
              \/ \E facts \in Facts : ReadFacts(w, facts)
       PROVE  Workers1
    <2> DEFINE work == worker[w]
    <2>0. /\ work \in WorkRows(Len(cases))
          /\ work.phase # "idle" => work.gate \in Gates
        BY <1>0 DEF ValueShapes, CallsOK, Does
    <2>1. /\ Unemployed.phase = "idle"
          /\ \A phase, g, facts : Work(phase, g, 0, facts).gate = g
        BY DEF Unemployed, Work
    <2> HIDE DEF Workers1
    <2>2. ASSUME Rests(w) PROVE Workers1
        BY <1>12, <2>1, <2>2 DEF Rests
    <2>3. ASSUME NEW g \in Gates, CreateGate(w, g) \/ Evaluate(w, g) PROVE Workers1
        <3>1. PICK phase : worker' = [worker EXCEPT ![w] = Work(phase, g, 0, "absent")]
            BY <2>3 DEF CreateGate, Evaluate
        <3> DEFINE new == Work(phase, g, 0, "absent")
        <3>2. worker' = [worker EXCEPT ![w] = new] /\ new.gate = g
            BY <2>1, <3>1
        <3> HIDE DEF new
        <3> QED BY <1>12, <3>2
    <2>4. CASE FindCase(w)
        <3>1. PICK phase, case : worker' = [worker EXCEPT ![w].phase = phase, ![w].case = case]
            BY <2>4 DEF FindCase
        <3> DEFINE new == [work EXCEPT !.phase = phase, !.case = case]
        <3>2. worker' = [worker EXCEPT ![w] = new] /\ work.phase = "find"
            BY <1>0, <2>4, <3>1 DEF FindCase, Does
        <3>3. new.gate = work.gate
            BY <2>0 DEF WorkRows
        <3> HIDE DEF new
        <3> QED BY <1>12, <2>0, <3>2, <3>3
    <2>5. CASE OpenGateCase(w)
        <3> DEFINE new == [work EXCEPT !.phase = "link", !.case = Len(cases')]
        <3>1. worker' = [worker EXCEPT ![w] = new] /\ work.phase = "open"
            BY <2>5 DEF OpenGateCase, Does
        <3>2. new.gate = work.gate
            BY <2>0 DEF WorkRows
        <3> HIDE DEF new
        <3> QED BY <1>12, <2>0, <3>1, <3>2
    <2>6. CASE LinkCase(w)
        <3> DEFINE new == [work EXCEPT !.phase = "evaluate"]
        <3>1. worker' = [worker EXCEPT ![w] = new] /\ work.phase = "link"
            BY <2>6 DEF LinkCase, Proceeds, Does
        <3>2. new.gate = work.gate
            BY <2>0 DEF WorkRows
        <3> HIDE DEF new
        <3> QED BY <1>12, <2>0, <3>1, <3>2
    <2>7. ASSUME NEW facts \in Facts, ReadFacts(w, facts) PROVE Workers1
        <3> DEFINE new == [work EXCEPT !.phase = "freeze", !.facts = facts]
        <3>1. /\ Rests(w) \/ worker' = [worker EXCEPT ![w] = new]
              /\ work.phase = "evaluate"
            BY <2>7 DEF ReadFacts, Does
        <3>2. new.gate = work.gate
            BY <2>0 DEF WorkRows
        <3> HIDE DEF new
        <3> QED BY <1>12, <2>0, <2>2, <3>1, <3>2
    <2>8. CASE Freeze(w) \/ WorkerDies(w)
        BY <2>2, <2>8 DEF Freeze, WorkerDies
    <2> QED BY <1>13, <2>3, <2>4, <2>5, <2>6, <2>7, <2>8
<1> HIDE DEF Users1, Sweepers1, Workers1
<1>14. ASSUME NEW u \in Users,
             \/ \E event \in Moves : Read(u, event)
             \/ OpenCase(u) \/ Consult(u) \/ Write(u) \/ Schedule(u) \/ List(u) \/ Define(u)
             \/ ReadApproved(u) \/ InsertBaseline(u) \/ RequestFails(u)
       PROVE  UNCHANGED sweeper
    BY <1>14 DEF Read, OpenCase, Consult, Write, Schedule, List, Define, ReadApproved,
                 InsertBaseline, RequestFails
<1>15. ASSUME NEW w \in Sweepers,
              \/ \E m \in Months : ReadOverdue(w, m)
              \/ OpenEscalation(w) \/ Raise(w) \/ Link(w) \/ SweeperDies(w)
       PROVE  UNCHANGED request
    BY <1>15 DEF ReadOverdue, OpenEscalation, Raise, Link, SweeperDies
<1>16. CASE BenefitStep /\ UNCHANGED gateVars
    <2>1. UNCHANGED worker
        BY <1>16 DEF gateVars
    <2>2. CASE \/ RecordRealized \/ Elapse
               \/ \E m \in Months : CompleteCheckin(m)
               \/ \E i \in DOMAIN cases, d \in {"approved", "rejected"} : DecideCase(i, d)
        BY <1>3, <1>4, <1>5, <2>1, <2>2 DEF RecordRealized, Elapse, CompleteCheckin, DecideCase
    <2> QED
        BY <1>3, <1>4, <1>5, <1>9, <1>11, <1>14, <1>15, <1>16, <2>1, <2>2 DEF BenefitStep
<1>17. ASSUME NEW o \in Owners, BeginStage(o) \/ CommitStage(o) \/ AbortStage(o)
       PROVE  UNCHANGED <<request, sweeper, worker>>
    BY <1>17 DEF BeginStage, CommitStage, AbortStage, benefitVars
<1>18. ASSUME NEW w \in Workers,
              \/ \E g \in Gates : CreateGate(w, g) \/ Evaluate(w, g)
              \/ FindCase(w) \/ OpenGateCase(w) \/ LinkCase(w) \/ Freeze(w) \/ WorkerDies(w)
              \/ \E facts \in Facts : ReadFacts(w, facts)
       PROVE  UNCHANGED <<request, sweeper>>
    BY <1>18 DEF CreateGate, Evaluate, FindCase, OpenGateCase, LinkCase, Freeze, WorkerDies,
                 ReadFacts, benefitVars
<1>19. ASSUME NEW d \in Committee,
              \/ \E g \in Gates, decision \in Decisions : ReadGate(d, g, decision)
              \/ ReadCase(d) \/ Vote(d) \/ LockGate(d) \/ CommitDecision(d) \/ RejectCase(d)
              \/ DeciderFails(d)
       PROVE  UNCHANGED <<request, sweeper, worker>>
    BY <1>19 DEF ReadGate, ReadCase, Vote, LockGate, CommitDecision, RejectCase,
                 DeciderFails, benefitVars
<1>20. CASE UNCHANGED vars
    BY <1>3, <1>4, <1>5, <1>20 DEF vars, benefitVars, gateVars
<1> QED BY <1>3, <1>4, <1>5, <1>13, <1>16, <1>17, <1>18, <1>19, <1>20 DEF Next

\* Only the owner and the committee move the initiative, and a requirement stays
\* with the decision that made it.
LEMMA StagesStep ==
    ASSUME ValueShapes, GateInv, [Next]_vars PROVE StagesOK'
<1> DEFINE Stage1 == stage' \in Start..Done
           Mover1 == mover' \in [Owners -> Gates \cup {0}]
           Announced1 == announced' \subseteq Gates
           Gate1 == \A g \in Gates : gate'[g].exists => g \in announced'
           Required1 == required' \subseteq {g \in Gates : gate'[g].decision = "intervene"}
<1> SUFFICES Stage1 /\ Mover1 /\ Announced1 /\ Gate1 /\ Required1
    BY DEF StagesOK
<1>0. StagesOK /\ gate \in [Gates -> GateRows(Len(cases))]
    BY DEF ValueShapes, Holds
<1>1. GateStands
    BY NextKeepsGates
<1>2. UNCHANGED required => Required1
    BY <1>0, <1>1 DEF GateStands, Undecided, StagesOK
<1>3. UNCHANGED <<stage, mover, announced>> => Stage1 /\ Mover1 /\ Announced1
    BY <1>0 DEF StagesOK
<1>4. ASSUME announced \subseteq announced', UNCHANGED gate PROVE Gate1
    BY <1>0, <1>4 DEF StagesOK
<1>5. ASSUME NEW g, NEW row, gate' = [gate EXCEPT ![g] = row], UNCHANGED announced,
             g \in Gates /\ row.exists => gate[g].exists \/ g \in announced
      PROVE  Gate1
    <2>1. \A h \in Gates : gate'[h] = IF h = g THEN row ELSE gate[h]
        BY <1>0, <1>5
    <2> QED BY <1>0, <1>5, <2>1 DEF StagesOK
<1> HIDE DEF Stage1, Mover1, Announced1, Gate1, Required1
<1> DEFINE All == Stage1 /\ Mover1 /\ Announced1 /\ Gate1 /\ Required1
<1>6. UNCHANGED gateVars => All
    BY <1>2, <1>3, <1>4 DEF gateVars
<1>7. ASSUME NEW o \in Owners, BeginStage(o) PROVE All
    <2>1. stage \in Gates
        BY <1>0, <1>7, StartAssumption DEF BeginStage, StagesOK, Gates, Design, Done
    <2>2. Mover1
        BY <1>0, <1>7, <2>1 DEF BeginStage, StagesOK, Mover1
    <2>3. Stage1 /\ Announced1
        BY <1>0, <1>7 DEF BeginStage, StagesOK, Stage1, Announced1
    <2> QED BY <1>2, <1>4, <1>7, <2>2, <2>3 DEF BeginStage
<1>8. ASSUME NEW o \in Owners, CommitStage(o) PROVE All
    <2>1. mover[o] \in Gates
        BY <1>0, <1>8 DEF CommitStage, StagesOK
    <2>2. mover[o] + 1 \in Start..Done
        BY <2>1, StartAssumption DEF Gates, Design, Done
    <2>3. Mover1
        BY <1>0, <1>8 DEF CommitStage, StagesOK, Mover1
    <2>4. Stage1 /\ Announced1
        BY <1>0, <1>8, <2>1, <2>2 DEF CommitStage, StagesOK, Stage1, Announced1
    <2> QED BY <1>2, <1>4, <1>8, <2>3, <2>4 DEF CommitStage
<1>9. ASSUME NEW o \in Owners, AbortStage(o) PROVE All
    <2>1. Mover1
        BY <1>0, <1>9 DEF AbortStage, StagesOK, Mover1
    <2>2. Stage1 /\ Announced1
        BY <1>0, <1>9 DEF AbortStage, StagesOK, Stage1, Announced1
    <2> QED BY <1>2, <1>4, <1>9, <2>1, <2>2 DEF AbortStage
<1>10. ASSUME NEW w \in Workers,
              \/ \E g \in Gates : CreateGate(w, g) \/ Evaluate(w, g)
              \/ FindCase(w) \/ OpenGateCase(w) \/ LinkCase(w) \/ Freeze(w) \/ WorkerDies(w)
              \/ \E facts \in Facts : ReadFacts(w, facts)
       PROVE  All
    <2>1. UNCHANGED <<stage, mover, announced, required>>
        BY <1>10 DEF CreateGate, Evaluate, FindCase, OpenGateCase, LinkCase, Freeze,
                     WorkerDies, ReadFacts
    <2>2. ASSUME NEW g \in Gates, CreateGate(w, g) PROVE Gate1
        <3> DEFINE row == [gate[g] EXCEPT !.exists = TRUE,
                              !.evidence = IF gate[g].exists THEN @ ELSE "pending"]
        <3>1. gate' = [gate EXCEPT ![g] = row] /\ g \in announced /\ UNCHANGED announced
            BY <2>2 DEF CreateGate
        <3> HIDE DEF row
        <3> QED BY <1>5, <3>1
    <2>3. ASSUME LinkCase(w) PROVE Gate1
        <3> DEFINE g == worker[w].gate
                   row == [gate[g] EXCEPT !.case = Linked(@, worker[w].case)]
        <3>1. gate' = [gate EXCEPT ![g] = row] /\ UNCHANGED announced
            BY <2>3 DEF LinkCase
        <3> HIDE DEF g
        <3>2. g \in Gates => row.exists = gate[g].exists
            BY <1>0 DEF GateRows
        <3> HIDE DEF row
        <3> QED BY <1>5, <3>1, <3>2
    <2>4. ASSUME Freeze(w) PROVE Gate1
        <3> DEFINE g == worker[w].gate
                   row == [gate[g] EXCEPT !.evidence = worker[w].facts]
        <3>1. /\ gate' = [gate EXCEPT ![g] = row] \/ gate' = gate
              /\ UNCHANGED announced
            BY <2>4 DEF Freeze
        <3> HIDE DEF g
        <3>2. g \in Gates => row.exists = gate[g].exists
            BY <1>0 DEF GateRows
        <3> HIDE DEF row
        <3> QED BY <1>4, <1>5, <3>1, <3>2
    <2>5. ASSUME \/ \E g \in Gates : Evaluate(w, g)
                 \/ FindCase(w) \/ OpenGateCase(w) \/ WorkerDies(w)
                 \/ \E facts \in Facts : ReadFacts(w, facts)
          PROVE  Gate1
        <3>1. UNCHANGED <<gate, announced>>
            BY <2>5 DEF Evaluate, FindCase, OpenGateCase, WorkerDies, ReadFacts
        <3> QED BY <1>4, <3>1
    <2> QED BY <1>2, <1>3, <1>10, <2>1, <2>2, <2>3, <2>4, <2>5
<1>11. ASSUME NEW d \in Committee,
              \/ \E g \in Gates, decision \in Decisions : ReadGate(d, g, decision)
              \/ ReadCase(d) \/ Vote(d) \/ LockGate(d) \/ RejectCase(d) \/ DeciderFails(d)
       PROVE  UNCHANGED <<stage, mover, announced, gate, required>>
    BY <1>11 DEF ReadGate, ReadCase, Vote, LockGate, RejectCase, DeciderFails
<1>12. ASSUME NEW d \in Committee, CommitDecision(d) PROVE All
    <2> DEFINE g == decider[d].gate
               decision == decider[d].decision
               row == [gate[g] EXCEPT !.decision = decision]
    <2>1. /\ gate' = [gate EXCEPT ![g] = row] /\ UNCHANGED <<mover, announced>>
          /\ \/ required' = required
             \/ decision = "intervene" /\ required' = required \cup {g}
          /\ stage' = stage \/ stage' = Done
        <3>1. CommitDecision(d)
            BY <1>12
        <3>2. stage' = stage \/ stage' = Done
            BY <3>1 DEF CommitDecision, Stops
        <3> QED BY <3>1, <3>2 DEF CommitDecision
    <2>2. g \in Gates
        BY <1>12 DEF GateInv, CommitDecision, Is
    <2> HIDE DEF g
    <2>3. row.exists = gate[g].exists /\ row.decision = decision
        BY <1>0, <2>2 DEF GateRows
    <2> HIDE DEF row, decision
    <2>4. Gate1
        BY <1>5, <2>1, <2>3
    <2>5. Stage1 /\ Mover1 /\ Announced1
        BY <1>0, <2>1, StartAssumption DEF StagesOK, Stage1, Mover1, Announced1, Design, Done
    <2>6. Required1
        <3>1. \A h \in required : h \in Gates /\ gate'[h].decision = "intervene"
            BY <1>0, <1>1 DEF GateStands, Undecided, StagesOK
        <3>2. gate'[g].decision = decision
            BY <1>0, <2>1, <2>2, <2>3
        <3> QED BY <2>1, <2>2, <3>1, <3>2 DEF Required1
    <2> QED BY <2>4, <2>5, <2>6
<1> HIDE DEF All
<1>13. ASSUME BenefitStep /\ UNCHANGED gateVars PROVE All
    BY <1>6, <1>13
<1>14. ASSUME UNCHANGED vars PROVE All
    BY <1>6, <1>14 DEF vars
<1>15. UNCHANGED <<stage, mover, announced, gate, required>> => All
    BY <1>2, <1>3, <1>4 DEF All
<1>16. All
    BY <1>7, <1>8, <1>9, <1>10, <1>11, <1>12, <1>13, <1>14, <1>15 DEF Next
<1> QED BY <1>16 DEF All

\* Time goes from one deadline to the next, and requests are counted up to the bound.
LEMMA CountsStep ==
    ASSUME ValueShapes, [Next]_vars PROVE CountsOK'
<1> DEFINE Counts == elapsed' \in Months \cup {0} /\ requests' \in 0..MaxRequests
<1> SUFFICES Counts /\ baseline' \in BOOLEAN /\ realized' \in BOOLEAN
    BY DEF CountsOK
<1>0. elapsed \in Months \cup {0} /\ requests \in 0..MaxRequests
    BY DEF ValueShapes, CountsOK
<1>1. UNCHANGED <<elapsed, requests>> => Counts
    BY <1>0
<1>2. ASSUME UNCHANGED elapsed, requests' = requests + 1, requests < MaxRequests PROVE Counts
    BY <1>0, <1>2, BoundsAssumption
<1>3. ASSUME Elapse PROVE Counts
    <2> DEFINE S == {m \in Months : m > elapsed}
    <2>1. elapsed' = Earliest(S) /\ S # {} /\ S \in SUBSET Months /\ UNCHANGED requests
        BY <1>3 DEF Elapse
    <2>2. Earliest(S) \in S
        BY <2>1, EarliestIsOneOfThem
    <2> QED BY <1>0, <2>1, <2>2
<1> HIDE DEF Counts
<1>4. ASSUME BenefitStep PROVE Counts
    <2>1. ASSUME NEW u \in Users,
                 \/ \E event \in Moves : Read(u, event)
                 \/ ReadApproved(u)
          PROVE  Counts
        BY <1>2, <2>1 DEF Read, ReadApproved, Starts
    <2>2. ASSUME NEW u \in Users,
                 \/ OpenCase(u) \/ Consult(u) \/ Write(u) \/ Schedule(u) \/ List(u) \/ Define(u)
                 \/ InsertBaseline(u) \/ RequestFails(u)
          PROVE  UNCHANGED <<elapsed, requests>>
        BY <2>2 DEF OpenCase, Consult, Write, Schedule, List, Define, InsertBaseline, RequestFails
    <2>3. ASSUME NEW w \in Sweepers,
                 \/ \E m \in Months : ReadOverdue(w, m)
                 \/ OpenEscalation(w) \/ Raise(w) \/ Link(w) \/ SweeperDies(w)
          PROVE  UNCHANGED <<elapsed, requests>>
        BY <2>3 DEF ReadOverdue, OpenEscalation, Raise, Link, SweeperDies
    <2>4. ASSUME \/ RecordRealized
                 \/ \E m \in Months : CompleteCheckin(m)
                 \/ \E i \in DOMAIN cases, d \in {"approved", "rejected"} : DecideCase(i, d)
          PROVE  UNCHANGED <<elapsed, requests>>
        BY <2>4 DEF RecordRealized, CompleteCheckin, DecideCase
    <2> QED BY <1>1, <1>3, <1>4, <2>1, <2>2, <2>3, <2>4 DEF BenefitStep
<1>5. ASSUME NEW o \in Owners, BeginStage(o) \/ CommitStage(o) \/ AbortStage(o)
      PROVE  UNCHANGED <<elapsed, requests>>
    BY <1>5 DEF BeginStage, CommitStage, AbortStage, benefitVars
<1>6. ASSUME NEW w \in Workers,
             \/ \E g \in Gates : CreateGate(w, g) \/ Evaluate(w, g)
             \/ FindCase(w) \/ OpenGateCase(w) \/ LinkCase(w) \/ Freeze(w) \/ WorkerDies(w)
             \/ \E facts \in Facts : ReadFacts(w, facts)
      PROVE  UNCHANGED <<elapsed, requests>>
    BY <1>6 DEF CreateGate, Evaluate, FindCase, OpenGateCase, LinkCase, Freeze, WorkerDies,
                ReadFacts, benefitVars
<1>7. ASSUME NEW d \in Committee,
             \/ \E g \in Gates, decision \in Decisions : ReadGate(d, g, decision)
             \/ ReadCase(d) \/ Vote(d) \/ LockGate(d) \/ CommitDecision(d) \/ RejectCase(d)
             \/ DeciderFails(d)
      PROVE  UNCHANGED <<elapsed, requests>>
    BY <1>7 DEF ReadGate, ReadCase, Vote, LockGate, CommitDecision, RejectCase, DeciderFails,
                benefitVars
<1>8. ASSUME UNCHANGED vars PROVE Counts
    BY <1>1, <1>8 DEF vars, benefitVars
<1>9. Counts
    BY <1>1, <1>4, <1>5, <1>6, <1>7, <1>8 DEF Next
<1>10. \/ UNCHANGED <<baseline, realized>>
       \/ baseline' = TRUE /\ UNCHANGED realized
       \/ realized' = TRUE /\ UNCHANGED baseline
    <2>1. ASSUME NEW u \in Users,
                 \/ \E event \in Moves : Read(u, event)
                 \/ OpenCase(u) \/ Consult(u) \/ Write(u) \/ Schedule(u) \/ List(u) \/ Define(u)
                 \/ ReadApproved(u) \/ RequestFails(u)
          PROVE  UNCHANGED <<baseline, realized>>
        BY <2>1 DEF Read, OpenCase, Consult, Write, Schedule, List, Define, ReadApproved,
                    RequestFails
    <2>2. ASSUME NEW u \in Users, InsertBaseline(u)
          PROVE  baseline' = TRUE /\ UNCHANGED realized
        BY <2>2 DEF InsertBaseline
    <2>3. ASSUME RecordRealized PROVE realized' = TRUE /\ UNCHANGED baseline
        BY <2>3 DEF RecordRealized
    <2>4. ASSUME NEW w \in Sweepers,
                 \/ \E m \in Months : ReadOverdue(w, m)
                 \/ OpenEscalation(w) \/ Raise(w) \/ Link(w) \/ SweeperDies(w)
          PROVE  UNCHANGED <<baseline, realized>>
        BY <2>4 DEF ReadOverdue, OpenEscalation, Raise, Link, SweeperDies
    <2>5. ASSUME \/ Elapse
                 \/ \E m \in Months : CompleteCheckin(m)
                 \/ \E i \in DOMAIN cases, d \in {"approved", "rejected"} : DecideCase(i, d)
          PROVE  UNCHANGED <<baseline, realized>>
        BY <2>5 DEF Elapse, CompleteCheckin, DecideCase
    <2>6. ASSUME NEW o \in Owners, BeginStage(o) \/ CommitStage(o) \/ AbortStage(o)
          PROVE  UNCHANGED <<baseline, realized>>
        BY <2>6 DEF BeginStage, CommitStage, AbortStage, benefitVars
    <2>7. ASSUME NEW w \in Workers,
                 \/ \E g \in Gates : CreateGate(w, g) \/ Evaluate(w, g)
                 \/ FindCase(w) \/ OpenGateCase(w) \/ LinkCase(w) \/ Freeze(w) \/ WorkerDies(w)
                 \/ \E facts \in Facts : ReadFacts(w, facts)
          PROVE  UNCHANGED <<baseline, realized>>
        BY <2>7 DEF CreateGate, Evaluate, FindCase, OpenGateCase, LinkCase, Freeze, WorkerDies,
                    ReadFacts, benefitVars
    <2>8. ASSUME NEW d \in Committee,
                 \/ \E g \in Gates, decision \in Decisions : ReadGate(d, g, decision)
                 \/ ReadCase(d) \/ Vote(d) \/ LockGate(d) \/ CommitDecision(d) \/ RejectCase(d)
                 \/ DeciderFails(d)
          PROVE  UNCHANGED <<baseline, realized>>
        BY <2>8 DEF ReadGate, ReadCase, Vote, LockGate, CommitDecision, RejectCase,
                    DeciderFails, benefitVars
    <2>9. UNCHANGED vars => UNCHANGED <<baseline, realized>>
        BY DEF vars, benefitVars
    <2> QED BY <2>1, <2>2, <2>3, <2>4, <2>5, <2>6, <2>7, <2>8, <2>9 DEF Next, BenefitStep
<1>11. baseline \in BOOLEAN /\ realized \in BOOLEAN
    BY DEF ValueShapes, CountsOK
<1> HIDE DEF Counts
<1> QED BY <1>9, <1>10, <1>11

\* Rows and calls keep their shape, with the cases there are after the step.
LEMMA HoldsStep ==
    ASSUME ValueShapes, NEW n \in Nat, n = Len(cases'), Len(cases) <= n, [Next]_vars
    PROVE  Holds(n)'
<1> DEFINE Benefit1 == benefit' \in [state : States, case : 0..n]
           Checkin1 == checkin' \in [Months -> CheckinRows(n)]
           Request1 == request' \in [Users -> RequestRows(n)]
           Sweeper1 == sweeper' \in [Sweepers -> SweepRows(n)]
           Gate1 == gate' \in [Gates -> GateRows(n)]
           Worker1 == worker' \in [Workers -> WorkRows(n)]
           Decider1 == decider' \in [Committee -> DecisionRows(n)]
           All == /\ Benefit1 /\ Checkin1 /\ Request1 /\ Sweeper1
                  /\ Gate1 /\ Worker1 /\ Decider1
<1> SUFFICES All
    BY DEF Holds
<1>0. Holds(n)
    BY HoldsMore DEF ValueShapes
<1>1. /\ benefit' = benefit => Benefit1
      /\ checkin' = checkin => Checkin1
      /\ request' = request => Request1
      /\ sweeper' = sweeper => Sweeper1
      /\ gate' = gate => Gate1
      /\ worker' = worker => Worker1
      /\ decider' = decider => Decider1
    BY <1>0 DEF Holds
<1>2. ASSUME NEW u \in Users, UNCHANGED gateVars,
             \/ \E event \in Moves : Read(u, event)
             \/ OpenCase(u) \/ Consult(u) \/ Write(u) \/ Schedule(u) \/ List(u) \/ Define(u)
             \/ ReadApproved(u) \/ InsertBaseline(u) \/ RequestFails(u)
      PROVE  All
    <2>1. Benefit1 /\ Checkin1 /\ Request1
        BY <1>0, <1>2, RequestHolds
    <2>2. UNCHANGED sweeper
        BY <1>2 DEF Read, OpenCase, Consult, Write, Schedule, List, Define, ReadApproved,
                    InsertBaseline, RequestFails
    <2>3. UNCHANGED <<gate, worker, decider>>
        BY <1>2 DEF gateVars
    <2> HIDE DEF Benefit1, Checkin1, Request1, Sweeper1, Gate1, Worker1, Decider1
    <2> QED BY <1>1, <2>1, <2>2, <2>3
<1>3. ASSUME NEW w \in Sweepers, UNCHANGED gateVars,
             \/ \E m \in Months : ReadOverdue(w, m)
             \/ OpenEscalation(w) \/ Raise(w) \/ Link(w) \/ SweeperDies(w)
      PROVE  All
    <2>1. Checkin1 /\ Sweeper1
        BY <1>0, <1>3, SweepHolds
    <2>2. UNCHANGED <<benefit, request>>
        BY <1>3 DEF ReadOverdue, OpenEscalation, Raise, Link, SweeperDies
    <2>3. UNCHANGED <<gate, worker, decider>>
        BY <1>3 DEF gateVars
    <2> HIDE DEF Benefit1, Checkin1, Request1, Sweeper1, Gate1, Worker1, Decider1
    <2> QED BY <1>1, <2>1, <2>2, <2>3
<1>4. ASSUME NEW m \in Months, UNCHANGED gateVars, CompleteCheckin(m) PROVE All
    <2>1. checkin' = [checkin EXCEPT ![m].completed = TRUE]
          /\ UNCHANGED <<benefit, request, sweeper>>
        BY <1>4 DEF CompleteCheckin
    <2>2. checkin[m] \in CheckinRows(n) /\ checkin \in [Months -> CheckinRows(n)]
        BY <1>0 DEF Holds
    <2>3. [checkin[m] EXCEPT !.completed = TRUE] \in CheckinRows(n)
        BY <2>2 DEF CheckinRows
    <2>4. Checkin1
        BY <2>1, <2>2, <2>3
    <2>5. UNCHANGED <<gate, worker, decider>>
        BY <1>4 DEF gateVars
    <2> HIDE DEF Benefit1, Checkin1, Request1, Sweeper1, Gate1, Worker1, Decider1
    <2> QED BY <1>1, <2>1, <2>4, <2>5
<1>5. ASSUME UNCHANGED gateVars,
             \/ RecordRealized \/ Elapse
             \/ \E i \in DOMAIN cases, d \in {"approved", "rejected"} : DecideCase(i, d)
      PROVE  All
    <2>1. UNCHANGED <<benefit, checkin, request, sweeper>>
        BY <1>5 DEF RecordRealized, Elapse, DecideCase
    <2>2. UNCHANGED <<gate, worker, decider>>
        BY <1>5 DEF gateVars
    <2> HIDE DEF Benefit1, Checkin1, Request1, Sweeper1, Gate1, Worker1, Decider1
    <2> QED BY <1>1, <2>1, <2>2
<1>6. ASSUME NEW o \in Owners, BeginStage(o) \/ CommitStage(o) \/ AbortStage(o) PROVE All
    <2>1. UNCHANGED <<benefit, checkin, request, sweeper, gate, worker, decider>>
        BY <1>6 DEF BeginStage, CommitStage, AbortStage, benefitVars
    <2> HIDE DEF Benefit1, Checkin1, Request1, Sweeper1, Gate1, Worker1, Decider1
    <2> QED BY <1>1, <2>1
<1>7. ASSUME NEW w \in Workers,
             \/ \E g \in Gates : CreateGate(w, g) \/ Evaluate(w, g)
             \/ FindCase(w) \/ OpenGateCase(w) \/ LinkCase(w) \/ Freeze(w) \/ WorkerDies(w)
             \/ \E facts \in Facts : ReadFacts(w, facts)
      PROVE  All
    <2>1. Gate1 /\ Worker1
        BY <1>0, <1>7, WorkerHolds
    <2>2. UNCHANGED <<benefit, checkin, request, sweeper, decider>>
        BY <1>7 DEF CreateGate, Evaluate, FindCase, OpenGateCase, LinkCase, Freeze,
                    WorkerDies, ReadFacts, benefitVars
    <2> HIDE DEF Benefit1, Checkin1, Request1, Sweeper1, Gate1, Worker1, Decider1
    <2> QED BY <1>1, <2>1, <2>2
<1>8. ASSUME NEW d \in Committee,
             \/ \E g \in Gates, decision \in Decisions : ReadGate(d, g, decision)
             \/ ReadCase(d) \/ Vote(d) \/ LockGate(d) \/ CommitDecision(d) \/ RejectCase(d)
             \/ DeciderFails(d)
      PROVE  All
    <2>1. Benefit1 /\ Gate1 /\ Decider1
        BY <1>0, <1>8, DeciderHolds
    <2>2. UNCHANGED <<checkin, request, sweeper, worker>>
        BY <1>8 DEF ReadGate, ReadCase, Vote, LockGate, CommitDecision, RejectCase,
                    DeciderFails, benefitVars
    <2> HIDE DEF Benefit1, Checkin1, Request1, Sweeper1, Gate1, Worker1, Decider1
    <2> QED BY <1>1, <2>1, <2>2
<1>9. ASSUME UNCHANGED vars PROVE All
    <2>1. UNCHANGED <<benefit, checkin, request, sweeper, gate, worker, decider>>
        BY <1>9 DEF vars, benefitVars, gateVars
    <2> HIDE DEF Benefit1, Checkin1, Request1, Sweeper1, Gate1, Worker1, Decider1
    <2> QED BY <1>1, <2>1
<1> HIDE DEF All
<1> QED BY <1>2, <1>3, <1>4, <1>5, <1>6, <1>7, <1>8, <1>9 DEF Next, BenefitStep

\* Every step keeps the shapes; that of a requirement needs the gates' invariant.
LEMMA ShapesStep == ValueShapes /\ GateInv /\ [Next]_vars => ValueShapes'
<1> SUFFICES ASSUME ValueShapes, GateInv, [Next]_vars PROVE ValueShapes'
    OBVIOUS
<1>1. cases' \in Seq(CaseRows) /\ Len(cases) <= Len(cases')
    BY CasesGrow
<1>2. PICK n \in Nat : n = Len(cases')
    BY <1>1
<1>3. Holds(n)'
    BY <1>1, <1>2, HoldsStep
<1>4. Holds(Len(cases))'
    BY <1>2, <1>3 DEF Holds
<1>5. CheckinsOK' /\ CallsOK' /\ StagesOK' /\ CountsOK'
    BY CheckinsStep, CallsStep, StagesStep, CountsStep
<1> QED BY <1>1, <1>4, <1>5 DEF ValueShapes

\* And the shapes are the types.
LEMMA ShapesAreTyped == ValueShapes => TypeOK
<1> SUFFICES ASSUME ValueShapes PROVE TypeOK
    OBVIOUS
<1>0. /\ cases \in Seq(CaseRows) /\ Len(cases) \in Nat
      /\ Holds(Len(cases)) /\ CheckinsOK /\ StagesOK /\ CountsOK
    BY DEF ValueShapes
<1>1. /\ benefit.state \in States /\ benefit.case \in 0..Len(cases)
      /\ \A m \in Months : checkin[m].link \in 0..Len(cases)
    BY <1>0 DEF Holds, CheckinRows
<1>2. \A u \in Users : /\ request[u].phase \in Phases
                       /\ request[u].to \in States \cup {"refused"}
                       /\ request[u].case \in 0..Len(cases)
                       /\ request[u].left \subseteq Months
    BY <1>0 DEF Holds, RequestRows
<1>3. \A w \in Sweepers : /\ sweeper[w].left \subseteq Months
                          /\ sweeper[w].case \in 0..Len(cases)
    BY <1>0 DEF Holds, SweepRows
<1>4. \A i \in DOMAIN cases : cases[i].state \in {"pending", "approved", "rejected"}
    <2>1. \A i \in DOMAIN cases : cases[i] \in CaseRows
        BY <1>0
    <2> QED BY <2>1 DEF CaseRows
<1>5. BenefitTypeOK
    BY <1>0, <1>1, <1>2, <1>3, <1>4 DEF BenefitTypeOK, CountsOK, CheckinsOK
<1>6. \A g \in Gates : /\ gate[g].exists => g \in announced
                       /\ gate[g].case \in 0..Len(cases)
                       /\ gate[g].evidence \in {"absent", "pending"} \cup Facts
                       /\ gate[g].decision \in Decisions \cup {"none"}
    BY <1>0 DEF Holds, GateRows, StagesOK
<1>7. /\ \A w \in Workers : worker[w].gate \in Gates \cup {0}
      /\ \A d \in Committee : decider[d].gate \in Gates \cup {0}
    BY <1>0 DEF Holds, WorkRows, DecisionRows
<1>8. Gates \cup {0} \subseteq 0..(Done - 1)
    BY StartAssumption DEF Gates, Design, Done
<1>9. mover \in [Owners -> 0..(Done - 1)]
    BY <1>0, <1>8 DEF StagesOK
<1> QED BY <1>0, <1>5, <1>6, <1>7, <1>9 DEF TypeOK, StagesOK

(***************************************************************************)
(* The benefit, its check-ins, the gates and the initiative keep their     *)
(* types; no row and no call refers to a case that is not there, only an   *)
(* announced stage has a gate, and a corrective action is required only by *)
(* a gate decided so, whatever requests and workers overlap.               *)
(***************************************************************************)
THEOREM ValueIsWellTyped == Spec => []TypeOK
<1>1. Spec => []ValueShapes
    BY ShapesInitially, ShapesStep, GatesInvariance, PTL DEF Spec
<1> QED BY <1>1, ShapesAreTyped, PTL
=============================================================================
