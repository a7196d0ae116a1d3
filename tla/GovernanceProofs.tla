-------------------------- MODULE GovernanceProofs --------------------------
(***************************************************************************)
(* Separation of duties holds for every workflow definition the schema     *)
(* accepts, and a decision is final for every definition that leaves the   *)
(* decided states without transitions.  Both rest on the advisory lock:    *)
(* the case a request has read is the case it commits to.                  *)
(***************************************************************************)
EXTENDS Governance, TLAPS

Requests == [case : Cases, by : Users, step : Definition]

\* The part of the state a transition touches.
CaseTypes ==
    /\ caseState \in [Cases -> States \cup {"none"}]
    /\ submitter \in [Cases -> Users \cup {Nobody}]
    /\ decisionLog \in [Cases -> Seq([decision : EventTypes, by : Users])]
    /\ caseLock \in [Cases -> Servers \cup {Nobody}]
    /\ request \in [Servers -> Requests \cup {NoRequest}]

\* An open request holds its case's lock, and what it read and was let through
\* for is still so.
RequestHolds(s) ==
    LET r == request[s]
    IN  /\ caseLock[r.case] = s
        /\ r.step.from = caseState[r.case]
        /\ r.step.on \in Decisions => r.by # submitter[r.case]

RequestsHold == \A s \in Servers : request[s] # NoRequest => RequestHolds(s)

NoLogBeforeCreation ==
    \A c \in Cases : caseState[c] = "none" => decisionLog[c] = <<>>

CaseInv == CaseTypes /\ RequestsHold /\ NoLogBeforeCreation /\ SeparationOfDuties

LEMMA InitCaseInv == Init => CaseInv
<1> SUFFICES ASSUME Init PROVE CaseInv
  OBVIOUS
<1>1. CaseTypes
  BY DEF Init, CaseTypes
<1>2. RequestsHold
  BY DEF Init, RequestsHold
<1>3. NoLogBeforeCreation
  BY DEF Init, NoLogBeforeCreation
<1>4. SeparationOfDuties
  BY DEF Init, SeparationOfDuties
<1> QED
  BY <1>1, <1>2, <1>3, <1>4 DEF CaseInv

\* "none" is no state of a definition: nobody transitions a case that is not
\* there yet.
LEMMA RequestedCaseExists ==
    ASSUME CaseInv, NEW s \in Servers, request[s] # NoRequest
    PROVE  /\ request[s] \in Requests
           /\ request[s].step \in Definition
           /\ caseState[request[s].case] # "none"
           /\ RequestHolds(s)
<1>1. request[s] \in Requests /\ RequestHolds(s)
  BY DEF CaseInv, CaseTypes, RequestsHold
<1>2. request[s].step \in Definition /\ request[s].step.from \in States
  BY <1>1, DefinitionAssumption DEF Requests
<1> QED
  BY <1>1, <1>2 DEF RequestHolds, States

LEMMA CreateCaseStep ==
    ASSUME CaseInv, NEW c \in Cases, NEW u \in Users, NEW p \in Users,
           CreateCase(c, u, p)
    PROVE  CaseInv'
<1>0. Initial \in States /\ Initial # "none"
  BY DefinitionAssumption DEF States
<1>1. CaseTypes'
  BY <1>0 DEF CreateCase, CaseInv, CaseTypes
<1>2. RequestsHold'
  <2> SUFFICES ASSUME NEW s \in Servers, request'[s] # NoRequest
               PROVE  RequestHolds(s)'
    BY DEF RequestsHold
  <2>1. request[s] # NoRequest
    BY DEF CreateCase
  <2>2. request[s].case # c /\ request[s].case \in Cases /\ RequestHolds(s)
    BY <2>1, RequestedCaseExists DEF CreateCase, Requests
  <2> QED
    BY <2>2 DEF CreateCase, CaseInv, CaseTypes, RequestHolds
<1>3. NoLogBeforeCreation'
  BY <1>0 DEF CreateCase, CaseInv, CaseTypes, NoLogBeforeCreation
<1>4. SeparationOfDuties'
  <2>1. decisionLog[c] = <<>>
    BY DEF CreateCase, CaseInv, NoLogBeforeCreation
  <2>2. \A d \in Cases : d # c => submitter'[d] = submitter[d]
    BY DEF CreateCase, CaseInv, CaseTypes
  <2> QED
    BY <2>1, <2>2 DEF CreateCase, CaseInv, SeparationOfDuties
<1> QED
  BY <1>1, <1>2, <1>3, <1>4 DEF CaseInv

LEMMA BeginTransitionStep ==
    ASSUME CaseInv, NEW s \in Servers, NEW c \in Cases, NEW t \in Definition,
           NEW u \in Users, BeginTransition(s, c, t, u)
    PROVE  CaseInv'
<1>1. CaseTypes'
  BY DEF BeginTransition, CaseInv, CaseTypes, Requests
<1>2. RequestsHold'
  <2> SUFFICES ASSUME NEW q \in Servers, request'[q] # NoRequest
               PROVE  RequestHolds(q)'
    BY DEF RequestsHold
  <2>1. CASE q = s
    <3>1. request'[s] = [case |-> c, by |-> u, step |-> t]
      BY DEF BeginTransition, CaseInv, CaseTypes
    <3>2. caseLock'[c] = s
      BY DEF BeginTransition, CaseInv, CaseTypes
    <3> QED
      BY <2>1, <3>1, <3>2 DEF BeginTransition, DutiesSeparate, RequestHolds
  <2>2. CASE q # s
    <3>1. request'[q] = request[q] /\ request[q] # NoRequest
      BY <2>2 DEF BeginTransition, CaseInv, CaseTypes
    <3>2. RequestHolds(q) /\ request[q].case \in Cases
      BY <3>1, RequestedCaseExists DEF Requests
    <3>3. request[q].case # c
      BY <3>2, NobodyAssumption DEF RequestHolds, BeginTransition, Free
    <3> QED
      BY <3>1, <3>2, <3>3
      DEF BeginTransition, CaseInv, CaseTypes, RequestHolds
  <2> QED
    BY <2>1, <2>2
<1>3. NoLogBeforeCreation' /\ SeparationOfDuties'
  BY DEF BeginTransition, CaseInv, NoLogBeforeCreation, SeparationOfDuties
<1> QED
  BY <1>1, <1>2, <1>3 DEF CaseInv

\* A lock released by its holder disturbs no other request.
LEMMA ReleaseKeepsOthers ==
    ASSUME CaseInv, NEW s \in Servers, NEW q \in Servers, q # s,
           request[s] # NoRequest, request[q] # NoRequest
    PROVE  /\ request[q].case \in Cases
           /\ request[q].case # request[s].case
           /\ Release(caseLock, request[s].case, s)[request[q].case]
                = caseLock[request[q].case]
<1>1. RequestHolds(s) /\ RequestHolds(q)
      /\ request[s].case \in Cases /\ request[q].case \in Cases
  BY RequestedCaseExists DEF Requests
<1>2. request[q].case # request[s].case
  BY <1>1 DEF RequestHolds
<1> QED
  BY <1>1, <1>2 DEF Release, CaseInv, CaseTypes

LEMMA ReleaseType ==
    ASSUME CaseTypes, NEW c \in Cases, NEW s \in Servers
    PROVE  Release(caseLock, c, s) \in [Cases -> Servers \cup {Nobody}]
BY DEF CaseTypes, Release

LEMMA LogEntryType ==
    ASSUME NEW step \in Definition, NEW u \in Users
    PROVE  LogEntry(step, u) \in Seq([decision : EventTypes, by : Users])
<1> DEFINE Entries == [decision : EventTypes, by : Users]
<1>1. step.on \in EventTypes
  BY DefinitionAssumption
<1>2. [decision |-> step.on, by |-> u] \in Entries
  BY <1>1
<1> HIDE DEF Entries
<1>3. <<>> \in Seq(Entries) /\ <<[decision |-> step.on, by |-> u]>> \in Seq(Entries)
  BY <1>2
<1>4. LogEntry(step, u) \in Seq(Entries)
  BY <1>3 DEF LogEntry
<1> QED
  BY <1>4 DEF Entries

\* An entry of a log that was appended to is an old one or one of the new.
LEMMA AppendedEntry ==
    ASSUME NEW S, NEW p \in Seq(S), NEW q \in Seq(S), NEW i \in 1..Len(p \o q)
    PROVE  /\ i <= Len(p) => i \in 1..Len(p) /\ (p \o q)[i] = p[i]
           /\ i > Len(p) => /\ i - Len(p) \in 1..Len(q)
                            /\ (p \o q)[i] = q[i - Len(p)]
OBVIOUS

LEMMA CommitTransitionStep ==
    ASSUME CaseInv, NEW s \in Servers, CommitTransition(s)
    PROVE  CaseInv'
<1> DEFINE c == request[s].case
           step == request[s].step
           u == request[s].by
           entry == LogEntry(step, u)
<1>1. /\ request[s] # NoRequest /\ RequestHolds(s)
      /\ c \in Cases /\ u \in Users /\ step \in Definition
      /\ caseState[c] # "none"
  BY RequestedCaseExists DEF CommitTransition, Requests
<1>2. /\ caseState' = [caseState EXCEPT ![c] = step.target]
      /\ decisionLog' = [decisionLog EXCEPT ![c] = @ \o entry]
      /\ caseLock' = Release(caseLock, c, s)
      /\ request' = [request EXCEPT ![s] = NoRequest]
      /\ submitter' = submitter
  BY DEF CommitTransition
<1>3. entry \in Seq([decision : EventTypes, by : Users])
  BY <1>1, LogEntryType
<1>4. decisionLog[c] \in Seq([decision : EventTypes, by : Users])
  BY <1>1 DEF CaseInv, CaseTypes
<1>5. CaseTypes'
  <2>1. step.target \in States
    BY <1>1, DefinitionAssumption
  <2>2. caseLock' \in [Cases -> Servers \cup {Nobody}]
    BY <1>1, <1>2, ReleaseType DEF CaseInv
  <2>3. decisionLog[c] \o entry \in Seq([decision : EventTypes, by : Users])
    BY <1>3, <1>4
  <2>4. decisionLog' \in [Cases -> Seq([decision : EventTypes, by : Users])]
    BY <1>1, <1>2, <2>3 DEF CaseInv, CaseTypes
  <2>5. caseState' \in [Cases -> States \cup {"none"}]
    BY <1>1, <1>2, <2>1 DEF CaseInv, CaseTypes
  <2>6. /\ submitter' \in [Cases -> Users \cup {Nobody}]
        /\ request' \in [Servers -> Requests \cup {NoRequest}]
    BY <1>2 DEF CaseInv, CaseTypes
  <2> QED
    BY <2>2, <2>4, <2>5, <2>6 DEF CaseTypes
<1>6. RequestsHold'
  <2> SUFFICES ASSUME NEW q \in Servers, request'[q] # NoRequest
               PROVE  RequestHolds(q)'
    BY DEF RequestsHold
  <2>1. q # s /\ request'[q] = request[q] /\ request[q] # NoRequest
    BY <1>2 DEF CaseInv, CaseTypes
  <2>2. RequestHolds(q) /\ request[q].case \in Cases
    BY <2>1, RequestedCaseExists DEF Requests
  <2>3. /\ request[q].case # c
        /\ caseLock'[request[q].case] = caseLock[request[q].case]
    BY <1>1, <1>2, <2>1, ReleaseKeepsOthers
  <2>4. caseState'[request[q].case] = caseState[request[q].case]
    BY <1>1, <1>2, <2>2, <2>3 DEF CaseInv, CaseTypes
  <2> QED
    BY <1>2, <2>1, <2>2, <2>3, <2>4 DEF RequestHolds
<1>7. NoLogBeforeCreation'
  <2>1. caseState'[c] # "none"
    BY <1>1, <1>2, DefinitionAssumption DEF CaseInv, CaseTypes, States
  <2> QED
    BY <1>1, <1>2, <2>1 DEF CaseInv, CaseTypes, NoLogBeforeCreation
<1>8. SeparationOfDuties'
  <2> SUFFICES ASSUME NEW d \in Cases, NEW i \in 1..Len(decisionLog'[d]),
                      IsDecision(decisionLog'[d][i])
               PROVE  decisionLog'[d][i].by # submitter[d]
    BY <1>2 DEF SeparationOfDuties
  <2>1. CASE d # c
    <3>1. decisionLog'[d] = decisionLog[d]
      BY <1>1, <1>2, <2>1 DEF CaseInv, CaseTypes
    <3> QED
      BY <3>1 DEF CaseInv, SeparationOfDuties
  <2>2. decisionLog'[c] = decisionLog[c] \o entry
    BY <1>1, <1>2 DEF CaseInv, CaseTypes
  <2> DEFINE log == decisionLog[c]
             Entries == [decision : EventTypes, by : Users]
  <2>3. ASSUME d = c
        PROVE  /\ i <= Len(log) => i \in 1..Len(log) /\ (log \o entry)[i] = log[i]
               /\ i > Len(log) => /\ i - Len(log) \in 1..Len(entry)
                                  /\ (log \o entry)[i] = entry[i - Len(log)]
    <3>1. log \in Seq(Entries) /\ entry \in Seq(Entries)
      BY <1>3, <1>4
    <3>2. i \in 1..Len(log \o entry)
      BY <2>2, <2>3
    <3> HIDE DEF log, entry, Entries
    <3> QED
      BY <3>1, <3>2, AppendedEntry
  <2>4. CASE d = c /\ i <= Len(log)
    <3>1. i \in 1..Len(log) /\ decisionLog'[c][i] = log[i]
      BY <2>2, <2>4, <2>3
    <3> QED
      BY <1>1, <2>4, <3>1 DEF CaseInv, SeparationOfDuties
  <2>5. CASE d = c /\ i > Len(log)
    <3>1. /\ i - Len(log) \in 1..Len(entry)
          /\ decisionLog'[c][i] = entry[i - Len(log)]
      BY <2>2, <2>5, <2>3
    <3>2. entry = <<>> \/ entry = <<[decision |-> step.on, by |-> u]>>
      BY DEF LogEntry
    <3>3. decisionLog'[c][i] = [decision |-> step.on, by |-> u]
      BY <3>1, <3>2
    <3> QED
      BY <1>1, <2>5, <3>3 DEF IsDecision, RequestHolds
  <2> QED
    BY <1>4, <2>1, <2>4, <2>5
<1> QED
  BY <1>5, <1>6, <1>7, <1>8 DEF CaseInv

LEMMA AbortTransitionStep ==
    ASSUME CaseInv, NEW s \in Servers, AbortTransition(s)
    PROVE  CaseInv'
<1>1. /\ request[s] # NoRequest /\ request[s].case \in Cases
      /\ caseLock' = Release(caseLock, request[s].case, s)
      /\ request' = [request EXCEPT ![s] = NoRequest]
      /\ UNCHANGED <<caseState, submitter, decisionLog>>
  BY RequestedCaseExists DEF AbortTransition, Requests
<1>2. CaseTypes'
  BY <1>1, ReleaseType DEF CaseInv, CaseTypes
<1>3. RequestsHold'
  <2> SUFFICES ASSUME NEW q \in Servers, request'[q] # NoRequest
               PROVE  RequestHolds(q)'
    BY DEF RequestsHold
  <2>1. q # s /\ request'[q] = request[q] /\ request[q] # NoRequest
    BY <1>1 DEF CaseInv, CaseTypes
  <2>2. RequestHolds(q)
    BY <2>1, RequestedCaseExists
  <2>3. caseLock'[request[q].case] = caseLock[request[q].case]
    BY <1>1, <2>1, ReleaseKeepsOthers
  <2> QED
    BY <1>1, <2>1, <2>2, <2>3 DEF RequestHolds
<1>4. NoLogBeforeCreation' /\ SeparationOfDuties'
  BY <1>1 DEF CaseInv, NoLogBeforeCreation, SeparationOfDuties
<1> QED
  BY <1>2, <1>3, <1>4 DEF CaseInv

\* Escalations and the clock leave the case alone.
LEMMA OtherStep ==
    ASSUME CaseInv, UNCHANGED caseVars
    PROVE  CaseInv'
BY DEF CaseInv, caseVars, CaseTypes, RequestsHold, RequestHolds,
       NoLogBeforeCreation, SeparationOfDuties

LEMMA CaseInvStep == CaseInv /\ [Next]_vars => CaseInv'
<1> SUFFICES ASSUME CaseInv, [Next]_vars PROVE CaseInv'
  OBVIOUS
<1>1. CASE \E c \in Cases, u, p \in Users : CreateCase(c, u, p)
  BY <1>1, CreateCaseStep
<1>2. ASSUME NEW s \in Servers, NEW c \in Cases, NEW t \in Definition,
             NEW u \in Users, BeginTransition(s, c, t, u)
      PROVE  CaseInv'
  BY <1>2, BeginTransitionStep
<1>3. ASSUME NEW s \in Servers, CommitTransition(s)
      PROVE  CaseInv'
  BY <1>3, CommitTransitionStep
<1>4. ASSUME NEW s \in Servers, AbortTransition(s)
      PROVE  CaseInv'
  BY <1>4, AbortTransitionStep
<1>5. CASE \E c \in Cases, d \in Deadlines : SchedulePending(c, d)
  BY <1>5, OtherStep DEF SchedulePending
<1>6. CASE \E w \in Workers, c \in Cases, d \in Deadlines : BeginRaise(w, c, d)
  BY <1>6, OtherStep DEF BeginRaise
<1>7. CASE \E w \in Workers : CommitRaise(w) \/ CrashRaise(w)
  BY <1>7, OtherStep DEF CommitRaise, CrashRaise
<1>8. CASE \E t \in Timers : Acknowledge(t)
  BY <1>8, OtherStep DEF Acknowledge
<1>9. CASE Tick
  BY <1>9, OtherStep DEF Tick
<1>10. CASE UNCHANGED vars
  BY <1>10, OtherStep DEF vars
<1> QED
  BY <1>1, <1>2, <1>3, <1>4, <1>5, <1>6, <1>7, <1>8, <1>9, <1>10 DEF Next

LEMMA CaseInvHolds == Spec => []CaseInv
<1> QED
  BY InitCaseInv, CaseInvStep, PTL DEF Spec

\* Nobody decides a case they submitted, for every definition the schema
\* accepts: transition() refuses it before the definition's guard is asked.
THEOREM DutiesAreSeparated == Spec => []SeparationOfDuties
<1>1. CaseInv => SeparationOfDuties
  BY DEF CaseInv
<1> QED
  BY <1>1, CaseInvHolds, PTL

\* Under a definition whose decided states are final, as the default's are, what
\* assertApproved has answered stays true, for any number of servers.
THEOREM DecisionsAreFinal ==
    ASSUME \A t \in Definition : t.from \notin Decided
    PROVE  Spec => DecidedIsFinal
<1>1. ASSUME CaseInv, [Next]_vars, NEW c \in Cases, caseState[c] \in Decided
      PROVE  caseState'[c] = caseState[c]
  <2>1. CASE \E d \in Cases, u, p \in Users : CreateCase(d, u, p)
    BY <1>1, <2>1 DEF CreateCase, CaseInv, CaseTypes, Decided
  <2>2. ASSUME NEW s \in Servers, CommitTransition(s)
        PROVE  caseState'[c] = caseState[c]
    <3>1. /\ request[s].step \in Definition
          /\ request[s].step.from = caseState[request[s].case]
      BY <1>1, <2>2, RequestedCaseExists DEF CommitTransition, RequestHolds
    <3>2. request[s].case # c
      BY <1>1, <3>1
    <3> QED
      BY <1>1, <2>2, <3>2 DEF CommitTransition, CaseInv, CaseTypes
  <2>3. CASE UNCHANGED caseState
    BY <2>3
  <2> QED
    BY <1>1, <2>1, <2>2, <2>3
    DEF Next, vars, caseVars, BeginTransition, AbortTransition, SchedulePending,
        BeginRaise, CommitRaise, CrashRaise, Acknowledge, Tick
<1>2. CaseInv /\ [Next]_vars
        => [\A c \in Cases :
              caseState[c] \in Decided => caseState'[c] = caseState[c]]_vars
  BY <1>1
<1> QED
  BY <1>2, CaseInvHolds, PTL DEF Spec, DecidedIsFinal

-----------------------------------------------------------------------------
(* Case, decision log and outbox.                                          *)

\* A definition that records and announces what it decides, and reopens nothing.
\* Its guards do not matter: the log and the outbox follow its actions.
RecordsDecisions ==
    /\ Initial \notin Decided
    /\ \A t \in Definition :
          /\ t.from \notin Decided
          /\ t.target \in Decided <=> "recordDecision" \in t.actions
          /\ t.target = "approved" <=> "emitApprovalGranted" \in t.actions
          /\ t.target = "rejected" <=> "emitApprovalRejected" \in t.actions
          /\ t.target \in Decided => (t.on = "APPROVE" <=> t.target = "approved")

\* The default workflow, behind whatever guards.
DefaultWorkflow ==
    /\ Initial = "draft"
    /\ \A t \in Definition : \E d \in DefaultDefinition :
          /\ t.from = d.from /\ t.on = d.on
          /\ t.target = d.target /\ t.actions = d.actions

LEMMA DefaultRecordsDecisions == DefaultWorkflow => RecordsDecisions
<1>1. \A d \in DefaultDefinition :
          /\ d.from \notin Decided
          /\ d.target \in Decided <=> "recordDecision" \in d.actions
          /\ d.target = "approved" <=> "emitApprovalGranted" \in d.actions
          /\ d.target = "rejected" <=> "emitApprovalRejected" \in d.actions
          /\ d.target \in Decided => (d.on = "APPROVE" <=> d.target = "approved")
  BY DEF DefaultDefinition, Transition, Decided
<1> QED
  BY <1>1 DEF DefaultWorkflow, RecordsDecisions, Decided

\* The machine ran the actions of an open request before it wrote anything.
StepsFit == \A s \in Servers : request[s] # NoRequest => ActionsFit(request[s].step)

AgreeInv == CaseInv /\ StepsFit /\ DecisionsAgree

\* What DecisionsAgree asks of one case.
CaseAgrees(state, log, events, c) ==
    LET taken == {i \in 1..Len(log) : IsDecision(log[i])}
    IN  /\ taken # {} <=> state \in Decided
        /\ \A i, j \in taken : i = j
        /\ \A i \in taken : log[i].decision = "APPROVE" <=> state = "approved"
        /\ state = "approved" <=> <<"emitApprovalGranted", c>> \in events
        /\ state = "rejected" <=> <<"emitApprovalRejected", c>> \in events

LEMMA AgreementByCase ==
    DecisionsAgree <=> \A c \in Cases :
        CaseAgrees(caseState[c], decisionLog[c], decisionEvents, c)
BY DEF DecisionsAgree, CaseAgrees

\* A step that fits logs a decision exactly when it decides, and then one.
LEMMA StepRecords ==
    ASSUME RecordsDecisions, NEW t \in Definition, ActionsFit(t), NEW u
    PROVE  \/ /\ t.target \in Decided
              /\ LogEntry(t, u) = <<[decision |-> t.on, by |-> u]>>
              /\ t.on \in Decisions
              /\ t.on = "APPROVE" <=> t.target = "approved"
           \/ /\ t.target \notin Decided
              /\ \/ LogEntry(t, u) = <<>>
                 \/ /\ LogEntry(t, u) = <<[decision |-> t.on, by |-> u]>>
                    /\ t.on \notin Decisions
<1>1. CASE t.target \in Decided
  BY <1>1 DEF RecordsDecisions, ActionsFit, LogEntry
<1>2. CASE t.target \notin Decided
  <2>1. "recordDecision" \notin t.actions
    BY <1>2 DEF RecordsDecisions
  <2>2. CASE "recordChangesRequested" \in t.actions
    BY <1>2, <2>2 DEF ActionsFit, LogEntry, Decisions
  <2>3. CASE "recordChangesRequested" \notin t.actions
    BY <1>2, <2>1, <2>3 DEF LogEntry
  <2> QED
    BY <2>2, <2>3
<1> QED
  BY <1>1, <1>2

\* Such a step on a case that is not decided keeps the three in agreement.
LEMMA CommitKeepsAgreement ==
    ASSUME RecordsDecisions, NEW t \in Definition, ActionsFit(t), NEW u \in Users,
           NEW c, NEW events,
           NEW log \in Seq([decision : EventTypes, by : Users]),
           CaseAgrees(t.from, log, events, c)
    PROVE  CaseAgrees(t.target, log \o LogEntry(t, u),
                      events \cup DecisionEvent(t, c), c)
<1> DEFINE Entries == [decision : EventTypes, by : Users]
           entry == LogEntry(t, u)
           after == log \o entry
<1>1. t.from \notin Decided /\ t.from # "approved" /\ t.from # "rejected"
  BY DEF RecordsDecisions, Decided
<1>2. /\ \A i \in 1..Len(log) : ~IsDecision(log[i])
      /\ <<"emitApprovalGranted", c>> \notin events
      /\ <<"emitApprovalRejected", c>> \notin events
  BY <1>1 DEF CaseAgrees
<1>3. entry \in Seq(Entries)
  BY LogEntryType
<1>4. Len(log) \in Nat /\ Len(entry) \in Nat /\ Len(after) = Len(log) + Len(entry)
  BY <1>3
<1>5. ASSUME NEW i \in 1..Len(after)
      PROVE  /\ i <= Len(log) => i \in 1..Len(log) /\ after[i] = log[i]
             /\ i > Len(log) => /\ i - Len(log) \in 1..Len(entry)
                                /\ after[i] = entry[i - Len(log)]
  <2> HIDE DEF Entries, entry
  <2> QED
    BY <1>3, AppendedEntry DEF Entries
<1>6. /\ t.target = "approved" <=> <<"emitApprovalGranted", c>> \in events \cup DecisionEvent(t, c)
      /\ t.target = "rejected" <=> <<"emitApprovalRejected", c>> \in events \cup DecisionEvent(t, c)
  <2>1. ~("emitApprovalGranted" \in t.actions /\ "emitApprovalRejected" \in t.actions)
    BY DEF RecordsDecisions
  <2> QED
    BY <1>2, <2>1 DEF RecordsDecisions, DecisionEvent
<1>7. CASE t.target \in Decided
  <2>1. /\ entry = <<[decision |-> t.on, by |-> u]>>
        /\ t.on \in Decisions
        /\ t.on = "APPROVE" <=> t.target = "approved"
    BY <1>7, StepRecords
  <2>2. Len(entry) = 1 /\ entry[1].decision = t.on
    BY <2>1
  <2>3. ASSUME NEW i \in 1..Len(after), IsDecision(after[i])
        PROVE  i = Len(log) + 1 /\ after[i].decision = t.on
    <3>1. i > Len(log)
      BY <1>2, <1>4, <1>5, <2>3
    <3>2. i - Len(log) = 1
      BY <1>4, <1>5, <2>2, <3>1
    <3> QED
      BY <1>4, <1>5, <2>2, <3>1, <3>2
  <2>4. Len(log) + 1 \in 1..Len(after) /\ IsDecision(after[Len(log) + 1])
    <3>1. Len(log) + 1 \in 1..Len(after) /\ Len(log) + 1 > Len(log)
      BY <1>4, <2>2
    <3>2. after[Len(log) + 1] = entry[(Len(log) + 1) - Len(log)]
      BY <1>5, <3>1
    <3> QED
      BY <1>4, <2>1, <2>2, <3>1, <3>2 DEF IsDecision
  <2> HIDE DEF after, entry
  <2> QED
    BY <1>6, <1>7, <2>1, <2>3, <2>4 DEF CaseAgrees, after, entry
<1>8. CASE t.target \notin Decided
  <2>1. ASSUME NEW i \in 1..Len(after) PROVE ~IsDecision(after[i])
    <3>1. CASE i <= Len(log)
      BY <1>2, <1>5, <3>1
    <3>2. CASE i > Len(log)
      <4>1. entry = <<[decision |-> t.on, by |-> u]>> /\ t.on \notin Decisions
        BY <1>5, <1>8, <3>2, StepRecords
      <4>2. i - Len(log) = 1
        BY <1>5, <3>2, <4>1
      <4> QED
        BY <1>5, <3>2, <4>1, <4>2 DEF IsDecision
    <3> QED
      BY <1>4, <3>1, <3>2
  <2> HIDE DEF after, entry
  <2> QED
    BY <1>6, <1>8, <2>1 DEF CaseAgrees, after, entry
<1> QED
  BY <1>7, <1>8

LEMMA SameRecords ==
    ASSUME DecisionsAgree, UNCHANGED <<caseState, decisionLog, decisionEvents>>
    PROVE  DecisionsAgree'
<1>1. \A c \in Cases : CaseAgrees(caseState'[c], decisionLog'[c], decisionEvents', c)
  BY AgreementByCase
<1> QED
  BY <1>1 DEF DecisionsAgree, CaseAgrees

LEMMA InitAgreeInv == ASSUME RecordsDecisions PROVE Init => AgreeInv
<1> SUFFICES ASSUME Init PROVE AgreeInv
  OBVIOUS
<1>1. CaseInv
  BY InitCaseInv
<1>2. StepsFit
  BY DEF Init, StepsFit
<1>3. DecisionsAgree
  BY DEF Init, DecisionsAgree, Decided
<1> QED
  BY <1>1, <1>2, <1>3 DEF AgreeInv

LEMMA AgreeInvStep == ASSUME RecordsDecisions PROVE AgreeInv /\ [Next]_vars => AgreeInv'
<1> SUFFICES ASSUME AgreeInv, [Next]_vars PROVE AgreeInv'
  OBVIOUS
<1>0. CaseInv /\ CaseInv'
  BY CaseInvStep DEF AgreeInv
<1>1. ASSUME NEW c \in Cases, NEW u \in Users, NEW p \in Users, CreateCase(c, u, p)
      PROVE  AgreeInv'
  <2>1. StepsFit'
    BY <1>1 DEF CreateCase, AgreeInv, StepsFit
  <2>2. ASSUME NEW d \in Cases
        PROVE  CaseAgrees(caseState'[d], decisionLog'[d], decisionEvents', d)
    <3>0. CaseAgrees(caseState[d], decisionLog[d], decisionEvents, d)
      BY AgreementByCase DEF AgreeInv
    <3>1. CASE d = c
      <4>1. caseState[c] = "none" /\ caseState'[c] = Initial
        BY <1>0, <1>1 DEF CreateCase, CaseInv, CaseTypes
      <4>2. Initial \notin Decided /\ "none" \notin Decided
        BY DEF RecordsDecisions, Decided
      <4> QED
        BY <1>1, <3>0, <3>1, <4>1, <4>2 DEF CreateCase, CaseAgrees, Decided
    <3>2. CASE d # c
      BY <1>0, <1>1, <3>0, <3>2 DEF CreateCase, CaseInv, CaseTypes
    <3> QED
      BY <3>1, <3>2
  <2> QED
    BY <1>0, <2>1, <2>2, AgreementByCase DEF AgreeInv, DecisionsAgree, CaseAgrees
<1>2. ASSUME NEW s \in Servers, NEW c \in Cases, NEW t \in Definition,
             NEW u \in Users, BeginTransition(s, c, t, u)
      PROVE  AgreeInv'
  <2>1. StepsFit'
    BY <1>0, <1>2 DEF BeginTransition, AgreeInv, StepsFit, CaseInv, CaseTypes, ActionsFit
  <2>2. UNCHANGED <<caseState, decisionLog, decisionEvents>>
    BY <1>2 DEF BeginTransition
  <2>3. DecisionsAgree'
    BY <2>2, SameRecords DEF AgreeInv
  <2> QED
    BY <1>0, <2>1, <2>3 DEF AgreeInv
<1>3. ASSUME NEW s \in Servers, CommitTransition(s) PROVE AgreeInv'
  <2> DEFINE c == request[s].case
             t == request[s].step
             u == request[s].by
  <2>1. /\ c \in Cases /\ u \in Users /\ t \in Definition
        /\ t.from = caseState[c] /\ ActionsFit(t)
    BY <1>0, <1>3, RequestedCaseExists
    DEF CommitTransition, Requests, RequestHolds, AgreeInv, StepsFit
  <2>2. /\ caseState' = [caseState EXCEPT ![c] = t.target]
        /\ decisionLog' = [decisionLog EXCEPT ![c] = @ \o LogEntry(t, u)]
        /\ decisionEvents' = decisionEvents \cup DecisionEvent(t, c)
        /\ request' = [request EXCEPT ![s] = NoRequest]
    BY <1>3 DEF CommitTransition
  <2> HIDE DEF c, t, u
  <2>3. StepsFit'
    BY <1>0, <2>2 DEF AgreeInv, StepsFit, CaseInv, CaseTypes, ActionsFit
  <2>4. ASSUME NEW d \in Cases
        PROVE  CaseAgrees(caseState'[d], decisionLog'[d], decisionEvents', d)
    <3>0. CaseAgrees(caseState[d], decisionLog[d], decisionEvents, d)
      BY AgreementByCase DEF AgreeInv
    <3>1. CASE d = c
      <4>1. decisionLog[c] \in Seq([decision : EventTypes, by : Users])
        BY <1>0, <2>1 DEF CaseInv, CaseTypes
      <4>2. /\ caseState'[c] = t.target
            /\ decisionLog'[c] = decisionLog[c] \o LogEntry(t, u)
        BY <1>0, <2>1, <2>2 DEF CaseInv, CaseTypes
      <4>3. CaseAgrees(t.from, decisionLog[c], decisionEvents, c)
        BY <2>1, <3>0, <3>1
      <4>4. CaseAgrees(t.target, decisionLog[c] \o LogEntry(t, u),
                       decisionEvents \cup DecisionEvent(t, c), c)
        BY <2>1, <4>1, <4>3, CommitKeepsAgreement
      <4> QED
        BY <2>2, <3>1, <4>2, <4>4
    <3>2. CASE d # c
      <4>1. caseState'[d] = caseState[d] /\ decisionLog'[d] = decisionLog[d]
        BY <1>0, <2>2, <3>2 DEF CaseInv, CaseTypes
      <4>2. \A k : <<k, d>> \notin DecisionEvent(t, c)
        BY <3>2 DEF DecisionEvent
      <4> QED
        BY <2>2, <3>0, <4>1, <4>2 DEF CaseAgrees
    <3> QED
      BY <3>1, <3>2
  <2> QED
    BY <1>0, <2>3, <2>4 DEF AgreeInv, DecisionsAgree, CaseAgrees
<1>4. ASSUME NEW s \in Servers, AbortTransition(s) PROVE AgreeInv'
  <2>1. /\ request' = [request EXCEPT ![s] = NoRequest]
        /\ UNCHANGED <<caseState, decisionLog, decisionEvents>>
    BY <1>4 DEF AbortTransition
  <2>2. StepsFit'
    BY <1>0, <2>1 DEF AgreeInv, StepsFit, CaseInv, CaseTypes, ActionsFit
  <2>3. DecisionsAgree'
    BY <2>1, SameRecords DEF AgreeInv
  <2> QED
    BY <1>0, <2>2, <2>3 DEF AgreeInv
<1>5. CASE UNCHANGED caseVars
  BY <1>0, <1>5 DEF caseVars, AgreeInv, StepsFit, ActionsFit, DecisionsAgree
<1> QED
  BY <1>1, <1>2, <1>3, <1>4, <1>5
  DEF Next, vars, SchedulePending, BeginRaise, CommitRaise, CrashRaise, Acknowledge, Tick

\* The case, the decision log and the outbox agree about every decision, for any
\* number of servers that decide at once and die between read and write, under
\* every definition that records what it decides.
THEOREM DecisionsAlwaysAgree ==
    ASSUME RecordsDecisions
    PROVE  Spec => []DecisionsAgree
<1>1. AgreeInv => DecisionsAgree
  BY DEF AgreeInv
<1>2. Init => AgreeInv
  BY InitAgreeInv
<1>3. AgreeInv /\ [Next]_vars => AgreeInv'
  BY AgreeInvStep
<1> QED
  BY <1>1, <1>2, <1>3, PTL DEF Spec

\* In particular under the definition the service is seeded with, also when its
\* approval is put behind a rule.
THEOREM DefaultDecisionsAgree ==
    ASSUME DefaultWorkflow
    PROVE  Spec => []DecisionsAgree
BY DefaultRecordsDecisions, DecisionsAlwaysAgree

-----------------------------------------------------------------------------
(* Types, the escalation side included.                                    *)

\* An open raise() is of a case and one of its deadlines.
Raises == [case : Cases, deadline : Deadlines]

TypeInv == /\ CaseInv
           /\ TypeOK
           /\ raising \in [Workers -> Raises \cup {NoRequest}]

LEMMA InitTypeInv == Init => TypeInv
<1> SUFFICES ASSUME Init PROVE TypeInv
  OBVIOUS
<1>1. CaseInv
  BY InitCaseInv
<1>2. TypeOK
  BY <1>1, BoundsAssumption DEF Init, TypeOK, CaseInv, CaseTypes, Timers
<1> QED
  BY <1>1, <1>2 DEF TypeInv, Init

\* The lock of a raise() that ends is free, and no other lock moves.
LEMMA EscalationReleaseType ==
    ASSUME TypeOK, NEW c, NEW w
    PROVE  Release(escalationLock, c, w) \in [Cases -> Workers \cup {Nobody}]
BY DEF TypeOK, Release

LEMMA TypeInvStep == TypeInv /\ [Next]_vars => TypeInv'
<1> SUFFICES ASSUME TypeInv, [Next]_vars PROVE TypeInv'
  OBVIOUS
<1>0. CaseInv /\ CaseInv' /\ TypeOK
  BY CaseInvStep DEF TypeInv
<1>1. CaseTypes'
  BY <1>0 DEF CaseInv
\* What CaseTypes does not say of a step that leaves the escalations alone.
<1>2. ASSUME UNCHANGED escalationVars,
             participant' \in [Cases -> Users \cup {Nobody}],
             announced' \subseteq Timers, clock' \in 0..MaxTime
      PROVE  TypeInv'
  BY <1>0, <1>1, <1>2 DEF TypeInv, TypeOK, CaseTypes, escalationVars
<1>3. /\ participant \in [Cases -> Users \cup {Nobody}]
      /\ announced \subseteq Timers /\ clock \in 0..MaxTime
  BY <1>0 DEF TypeOK
<1>4. ASSUME NEW c \in Cases, NEW u \in Users, NEW p \in Users, CreateCase(c, u, p)
      PROVE  TypeInv'
  <2>1. participant' \in [Cases -> Users \cup {Nobody}]
    BY <1>3, <1>4 DEF CreateCase
  <2>2. announced' \subseteq Timers /\ clock' \in 0..MaxTime /\ UNCHANGED escalationVars
    BY <1>3, <1>4 DEF CreateCase
  <2> QED
    BY <1>2, <2>1, <2>2
<1>5. ASSUME NEW s \in Servers, NEW c \in Cases, NEW t \in Definition,
             NEW u \in Users, BeginTransition(s, c, t, u)
      PROVE  TypeInv'
  BY <1>2, <1>3, <1>5 DEF BeginTransition
<1>6. ASSUME NEW s \in Servers, CommitTransition(s) PROVE TypeInv'
  <2> DEFINE c == request[s].case
             t == request[s].step
  <2>1. c \in Cases
    BY <1>0, <1>6, RequestedCaseExists DEF CommitTransition, Requests
  <2>2. clock + Sla \in Deadlines
    BY <1>3, BoundsAssumption DEF Deadlines
  <2>3. Announcement(t, c) \subseteq Timers
    BY <2>1, <2>2 DEF Announcement, Timers
  <2>4. /\ announced' = announced \cup Announcement(t, c)
        /\ UNCHANGED <<participant, clock, escalationVars>>
    BY <1>6 DEF CommitTransition
  <2> QED
    BY <1>2, <1>3, <2>3, <2>4
<1>7. ASSUME NEW s \in Servers, AbortTransition(s) PROVE TypeInv'
  BY <1>2, <1>3, <1>7 DEF AbortTransition
<1>8. CASE Tick
  BY <1>2, <1>3, <1>8, BoundsAssumption DEF Tick, caseVars
<1>9. CASE UNCHANGED vars
  BY <1>2, <1>3, <1>9 DEF vars, caseVars
\* The steps of the escalation side.
<1>10. ASSUME UNCHANGED <<caseVars, clock>>,
              timer' \in [Timers -> {"none", "delayed", "active", "completed"}],
              DOMAIN escalations' \subseteq Timers,
              escalationLock' \in [Cases -> Workers \cup {Nobody}],
              raising' \in [Workers -> Raises \cup {NoRequest}]
       PROVE  TypeInv'
  BY <1>0, <1>1, <1>3, <1>10 DEF TypeInv, TypeOK, CaseTypes, caseVars
<1>11. /\ timer \in [Timers -> {"none", "delayed", "active", "completed"}]
       /\ DOMAIN escalations \subseteq Timers
       /\ escalationLock \in [Cases -> Workers \cup {Nobody}]
       /\ raising \in [Workers -> Raises \cup {NoRequest}]
  BY <1>0 DEF TypeInv, TypeOK
<1>12. ASSUME NEW c \in Cases, NEW d \in Deadlines, SchedulePending(c, d)
       PROVE  TypeInv'
  <2>1. timer' \in [Timers -> {"none", "delayed", "active", "completed"}]
    BY <1>11, <1>12 DEF SchedulePending
  <2> QED
    BY <1>10, <1>11, <1>12, <2>1 DEF SchedulePending
<1>13. ASSUME NEW w \in Workers, NEW c \in Cases, NEW d \in Deadlines,
              BeginRaise(w, c, d)
       PROVE  TypeInv'
  <2>1. timer' \in [Timers -> {"none", "delayed", "active", "completed"}]
    BY <1>11, <1>13 DEF BeginRaise
  <2>2. escalationLock' \in [Cases -> Workers \cup {Nobody}]
    BY <1>11, <1>13 DEF BeginRaise
  <2>3. raising' \in [Workers -> Raises \cup {NoRequest}]
    <3>1. [case |-> c, deadline |-> d] \in Raises
      BY DEF Raises
    <3> QED
      BY <1>11, <1>13, <3>1 DEF BeginRaise
  <2>4. UNCHANGED <<caseVars, clock, escalations>>
    BY <1>13 DEF BeginRaise
  <2> QED
    BY <1>10, <1>11, <2>1, <2>2, <2>3, <2>4
<1>14. ASSUME NEW w \in Workers, CommitRaise(w) \/ CrashRaise(w)
       PROVE  TypeInv'
  <2> DEFINE t == <<raising[w].case, raising[w].deadline>>
  <2>1. raising[w] # NoRequest
    BY <1>14 DEF CommitRaise, CrashRaise
  <2>2. t \in Timers
    BY <1>11, <2>1 DEF Raises, Timers
  <2>3. /\ timer' = [timer EXCEPT ![t] = "completed"]
           \/ timer' = [timer EXCEPT ![t] = "delayed"]
        /\ DOMAIN escalations' \subseteq DOMAIN escalations \cup {t}
        /\ escalationLock' = Release(escalationLock, raising[w].case, w)
        /\ raising' = [raising EXCEPT ![w] = NoRequest]
        /\ UNCHANGED <<caseVars, clock>>
    BY <1>14 DEF CommitRaise, CrashRaise
  <2>4. /\ timer' \in [Timers -> {"none", "delayed", "active", "completed"}]
        /\ raising' \in [Workers -> Raises \cup {NoRequest}]
    BY <1>11, <2>2, <2>3
  <2>5. escalationLock' \in [Cases -> Workers \cup {Nobody}]
    BY <1>0, <2>3, EscalationReleaseType
  <2> QED
    BY <1>10, <1>11, <2>2, <2>3, <2>4, <2>5
<1>15. ASSUME NEW t \in Timers, Acknowledge(t) PROVE TypeInv'
  BY <1>10, <1>11, <1>15 DEF Acknowledge
<1> QED
  BY <1>4, <1>5, <1>6, <1>7, <1>8, <1>9, <1>12, <1>13, <1>14, <1>15 DEF Next

\* Cases, requests and escalations stay what the schema makes them, and an
\* escalation is always of a case and a deadline that can be announced.
THEOREM GovernanceIsWellTyped == Spec => []TypeOK
<1>1. TypeInv => TypeOK
  BY DEF TypeInv
<1> QED
  BY <1>1, InitTypeInv, TypeInvStep, PTL DEF Spec
=============================================================================
