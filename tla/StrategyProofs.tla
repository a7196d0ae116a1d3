---------------------------- MODULE StrategyProofs ----------------------------
(* A change is applied once and approved, one plan at most is active, and  *)
(* an import and its change stay one, for any plans, users, workers,       *)
(* requests and identities of changes.                                     *)
EXTENDS HierarchyImport, TLAPS

\* A worker's change is pending and approved, and no other worker has it.
Held(w) ==
    /\ change[worker[w]].status = "pending"
    /\ case[worker[w]] = "approved"

ActivationInv ==
    /\ DOMAIN change = Ids
    /\ \A i \in Ids : change[i] = Staged(change[i].what, change[i].status)
    /\ DOMAIN case = Ids
    /\ activations \in [Ids -> Nat]
    /\ worker \in [Workers -> Ids \cup {NoId}]
    /\ \A w \in Workers : worker[w] # NoId => Held(w)
    /\ \A v, w \in Workers : worker[v] # NoId /\ worker[v] = worker[w] => v = w
    /\ AppliedOnceAndApproved

\* What requests and governance do: an approved case stays approved, and only
\* an identity without a change is given one.
Harmless ==
    /\ UNCHANGED <<worker, activations>>
    /\ DOMAIN case' = Ids /\ DOMAIN change' = Ids
    /\ \A i \in Ids : case[i] = "approved" => case'[i] = "approved"
    /\ \A i \in Ids :
          \/ change'[i] = change[i]
          \/ change[i].status = "absent" /\ \E what : change'[i] = Staged(what, "pending")

LEMMA HarmlessKeeps == ASSUME ActivationInv, Harmless PROVE ActivationInv'
<1>1. ASSUME NEW i \in Ids
      PROVE  /\ change'[i] = Staged(change'[i].what, change'[i].status)
             /\ change[i].status = "pending" => change'[i] = change[i]
             /\ change'[i].status = "applied" <=> change[i].status = "applied"
    BY DEF ActivationInv, Harmless, Staged
<1>2. ASSUME NEW w \in Workers, worker'[w] # NoId PROVE Held(w)'
    <2>1. worker'[w] = worker[w] /\ worker[w] \in Ids /\ Held(w)
        BY <1>2 DEF Harmless, ActivationInv
    <2> QED BY <1>1, <2>1 DEF Held, Harmless
<1>3. AppliedOnceAndApproved'
    BY <1>1 DEF AppliedOnceAndApproved, ActivationInv, Harmless
<1> QED BY <1>1, <1>2, <1>3 DEF ActivationInv, Harmless

LEMMA InitActivation == Init => ActivationInv
<1> SUFFICES ASSUME Init PROVE ActivationInv
    OBVIOUS
<1>1. /\ change = [i \in Ids |-> NoChange] /\ case = [i \in Ids |-> "none"]
      /\ worker = [w \in Workers |-> NoId] /\ activations = [i \in Ids |-> 0]
    BY DEF Init, StrategyInit
<1>2. NoChange = Staged(NoChange.what, NoChange.status) /\ NoChange.status = "absent"
    BY DEF NoChange, Staged
<1> HIDE DEF NoChange
<1> QED BY <1>1, <1>2 DEF ActivationInv, AppliedOnceAndApproved

LEMMA ActivateKeeps ==
    ASSUME ActivationInv, NEW w \in Workers, NEW i \in Ids, Activate(w, i)
    PROVE  ActivationInv'
<1>1. /\ case[i] = "approved" /\ change[i].status = "pending"
      /\ \A v \in Workers : worker[v] # i
      /\ worker' = [worker EXCEPT ![w] = i]
      /\ UNCHANGED <<change, case, activations>>
    BY DEF Activate, RowFree, Selectable
<1>2. \A v \in Workers : worker'[v] = IF v = w THEN i ELSE worker[v]
    BY <1>1 DEF ActivationInv
<1>3. \A v \in Workers : worker'[v] # NoId => Held(v)'
    BY <1>1, <1>2 DEF ActivationInv, Held
<1> QED BY <1>1, <1>2, <1>3 DEF ActivationInv, AppliedOnceAndApproved

LEMMA WorkerDiesKeeps ==
    ASSUME ActivationInv, NEW w \in Workers, WorkerDies(w)
    PROVE  ActivationInv'
<1>1. \A v \in Workers : worker'[v] = IF v = w THEN NoId ELSE worker[v]
    BY DEF WorkerDies, ActivationInv
<1> QED BY <1>1 DEF WorkerDies, ActivationInv, Held, AppliedOnceAndApproved

\* The worker's own change was pending, so it had not been applied; no other
\* worker has it.
LEMMA CommitActivationKeeps ==
    ASSUME ActivationInv, NEW w \in Workers, CommitActivation(w)
    PROVE  ActivationInv'
<1> DEFINE i == worker[w]
<1>1. i \in Ids /\ Held(w)
    BY DEF CommitActivation, ActivationInv
<1>2. /\ change' = [change EXCEPT ![i].status = "applied"]
      /\ activations' = [activations EXCEPT ![i] = @ + 1]
      /\ worker' = [worker EXCEPT ![w] = NoId]
      /\ case' = case
    BY DEF CommitActivation
<1>3. change[i].status = "pending" /\ case[i] = "approved" /\ activations[i] = 0
    BY <1>1 DEF Held, ActivationInv, AppliedOnceAndApproved
<1>4. \A v \in Workers : v # w /\ worker[v] # NoId => worker[v] # i
    BY <1>1, NoIdAssumption DEF ActivationInv
<1> HIDE DEF i
<1>5. \A j \in Ids :
         /\ change'[j] = IF j = i THEN Staged(change[i].what, "applied") ELSE change[j]
         /\ activations'[j] = IF j = i THEN 1 ELSE activations[j]
    BY <1>1, <1>2, <1>3 DEF ActivationInv, Staged
<1>6. \A v \in Workers : worker'[v] = IF v = w THEN NoId ELSE worker[v]
    BY <1>2 DEF ActivationInv
<1>7. ASSUME NEW v \in Workers, worker'[v] # NoId PROVE Held(v)'
    <2>1. worker'[v] = worker[v] /\ worker[v] \in Ids /\ worker[v] # i /\ Held(v)
        BY <1>4, <1>6, <1>7 DEF ActivationInv
    <2> QED BY <1>2, <1>5, <2>1 DEF Held
<1>8. \A j \in Ids : change'[j] = Staged(change'[j].what, change'[j].status)
    BY <1>5 DEF ActivationInv, Staged
<1>9. AppliedOnceAndApproved'
    BY <1>2, <1>3, <1>5 DEF AppliedOnceAndApproved, ActivationInv, Staged
<1>10. DOMAIN change' = Ids /\ activations' \in [Ids -> Nat] /\ DOMAIN case' = Ids
       /\ worker' \in [Workers -> Ids \cup {NoId}]
    BY <1>1, <1>2, <1>3 DEF ActivationInv
<1> QED BY <1>4, <1>6, <1>7, <1>8, <1>9, <1>10 DEF ActivationInv

LEMMA RequestsAreHarmless ==
    ASSUME ActivationInv, PlanStep,
           \A w \in Workers : ~WorkerDies(w) /\ \A i \in Ids : ~Activate(w, i)
    PROVE  Harmless
<1>1. ASSUME UNCHANGED <<change, case, worker, activations>> PROVE Harmless
    BY <1>1 DEF Harmless, ActivationInv
<1>2. ASSUME NEW u \in Users, NEW i \in Ids, Stage(u, i) PROVE Harmless
    <2> DEFINE c == Staged(user[u].what, "pending")
    <2>1. /\ change' = [change EXCEPT ![i] = c] /\ change[i] = NoChange
          /\ UNCHANGED <<case, worker, activations>>
        BY <1>2 DEF Stage
    <2>2. change[i].status = "absent"
        BY <2>1 DEF NoChange, Staged
    <2>3. \E what : c = Staged(what, "pending")
        OBVIOUS
    <2> HIDE DEF c
    <2> QED BY <2>1, <2>2, <2>3 DEF Harmless, ActivationInv
<1>3. ASSUME NEW i \in Ids, SubmitCase(i) PROVE Harmless
    BY <1>3 DEF SubmitCase, Harmless, ActivationInv
<1>4. ASSUME NEW i \in Ids, NEW d \in {"approved", "rejected"}, Decide(i, d) PROVE Harmless
    BY <1>4 DEF Decide, Harmless, ActivationInv
<1> QED BY <1>1, <1>2, <1>3, <1>4 DEF PlanStep, CreatePlan, ReadPlan, WriteDraft, InsertEdge,
           CloseOthers, Open, Close, ReadDraft, ReadActive, ReadNodes, CarryForward, RequestFails

LEMMA ImportIsHarmless == ASSUME ActivationInv, ImportStep PROVE Harmless
<1>1. ASSUME NEW u \in Users, NEW i \in Ids, Freeze(u, i) PROVE Harmless
    <2> DEFINE c == Staged(Payload, "pending")
    <2>1. /\ change' = [change EXCEPT ![i] = c] /\ change[i] = NoChange
          /\ case' = [case EXCEPT ![i] = "draft"] /\ case[i] = "none"
          /\ UNCHANGED <<worker, activations>>
        BY <1>1 DEF Freeze
    <2>2. change[i].status = "absent"
        BY <2>1 DEF NoChange, Staged
    <2>3. \E what : c = Staged(what, "pending")
        OBVIOUS
    <2> HIDE DEF c
    <2> QED BY <2>1, <2>2, <2>3 DEF Harmless, ActivationInv
<1>2. ASSUME NEW u \in Users, Submit(u) PROVE Harmless
    BY <1>2 DEF Submit, Harmless, ActivationInv
<1>3. ASSUME UNCHANGED <<change, case, worker, activations>> PROVE Harmless
    BY <1>3 DEF Harmless, ActivationInv
<1> QED BY <1>1, <1>2, <1>3 DEF ImportStep, DryRun, Resolve, Resume, Mark, strategyVars

LEMMA ActivationsStay == ActivationInv /\ [Next]_vars => ActivationInv'
<1> SUFFICES ASSUME ActivationInv, [Next]_vars PROVE ActivationInv'
    OBVIOUS
<1>1. ASSUME UNCHANGED vars PROVE ActivationInv'
    BY <1>1 DEF vars, strategyVars, ActivationInv, Held, AppliedOnceAndApproved
<1>2. ASSUME PlanStep PROVE ActivationInv'
    BY <1>2, RequestsAreHarmless, HarmlessKeeps, ActivateKeeps, WorkerDiesKeeps
<1>3. ASSUME NEW w \in Workers, CommitWithImport(w) PROVE ActivationInv'
    BY <1>3, CommitActivationKeeps DEF CommitWithImport
<1>4. ASSUME ImportStep PROVE ActivationInv'
    BY <1>4, ImportIsHarmless, HarmlessKeeps
<1> QED BY <1>1, <1>2, <1>3, <1>4 DEF Next

\* However often an approval is delivered, to however many workers, the change
\* it names is applied once, and no change is applied without one.
THEOREM EachChangeAppliedOnce == Spec => []AppliedOnceAndApproved
<1>1. ActivationInv => AppliedOnceAndApproved
    BY DEF ActivationInv
<1> QED BY <1>1, InitActivation, ActivationsStay, PTL DEF Spec

PlanInv == DOMAIN status = Plans /\ OneActivePlan

\* The unique index is checked against what is committed: the plan that opens
\* closes every active plan it saw, and fails if there is another.
LEMMA OpenKeeps ==
    ASSUME PlanInv, NEW u \in Users, Open(u)
    PROVE  PlanInv'
<1> DEFINE p == user[u].what.plan
           closed == user[u].plans
<1>1. CASE OneActive(p, closed)
    <2>1. status' = [q \in Plans |-> IF q = p THEN "active"
                        ELSE IF q \in closed THEN "closed" ELSE status[q]]
        BY <1>1 DEF Open
    <2>2. \A q \in Plans : status'[q] = "active" => q = p
        BY <1>1, <2>1 DEF OneActive
    <2> QED BY <2>1, <2>2 DEF PlanInv, OneActivePlan
<1>2. CASE ~OneActive(p, closed)
    BY <1>2 DEF Open, PlanInv, OneActivePlan
<1> QED BY <1>1, <1>2

LEMMA PlanStepKeeps ==
    ASSUME PlanInv, PlanStep
    PROVE  PlanInv'
<1>1. ASSUME NEW p \in Plans, CreatePlan(p) PROVE PlanInv'
    BY <1>1 DEF CreatePlan, PlanInv, OneActivePlan
<1>2. ASSUME NEW u \in Users, NEW q \in Plans, CarryForward(u, q) PROVE PlanInv'
    BY <1>2 DEF CarryForward, PlanInv, OneActivePlan
<1>3. ASSUME NEW u \in Users, Close(u) PROVE PlanInv'
    BY <1>3 DEF Close, PlanInv, OneActivePlan
<1>4. ASSUME UNCHANGED status PROVE PlanInv'
    BY <1>4 DEF PlanInv, OneActivePlan
<1> QED BY <1>1, <1>2, <1>3, <1>4, OpenKeeps DEF PlanStep, graphVars, ReadPlan, Stage, WriteDraft,
           InsertEdge, CloseOthers, ReadDraft, ReadActive, ReadNodes, RequestFails, SubmitCase,
           Decide, WorkerDies, Activate

LEMMA PlansStay == PlanInv /\ [Next]_vars => PlanInv'
<1> SUFFICES ASSUME PlanInv, [Next]_vars PROVE PlanInv'
    OBVIOUS
<1>1. ASSUME UNCHANGED status PROVE PlanInv'
    BY <1>1 DEF PlanInv, OneActivePlan
<1>2. ASSUME PlanStep PROVE PlanInv'
    BY <1>2, PlanStepKeeps
<1>3. ASSUME NEW w \in Workers, CommitWithImport(w) PROVE UNCHANGED status
    BY <1>3 DEF CommitWithImport, CommitActivation
<1>4. ASSUME ImportStep PROVE UNCHANGED status
    BY <1>4 DEF ImportStep, strategyVars, graphVars,
           DryRun, Resolve, Freeze, Resume, Submit, Mark
<1>5. ASSUME UNCHANGED vars PROVE UNCHANGED status
    BY <1>5 DEF vars, strategyVars, graphVars
<1> QED BY <1>1, <1>2, <1>3, <1>4, <1>5 DEF Next

\* Requests that open plans at once, each having seen another state of them,
\* leave one active plan at most.
THEOREM OnePlanIsActive == Spec => []OneActivePlan
<1>1. Init => PlanInv
    BY DEF Init, StrategyInit, PlanInv, OneActivePlan
<1>2. PlanInv => OneActivePlan
    BY DEF PlanInv
<1> QED BY <1>1, <1>2, PlansStay, PTL DEF Spec

-----------------------------------------------------------------------------
(* Nodes, edges, and what requests and staged changes carry of them.       *)

Whats == [kind : AllKinds, plan : Plans, nodes : SUBSET Nodes,
          edges : SUBSET (Nodes \X Nodes)]
Requests == [phase : Phases, what : Whats, plans : SUBSET Plans]
Changes == [what : Whats, status : {"absent", "pending", "applied"}]
NodeStates == {"absent", "draft", "active", "retired"}

PresentIn(nodes, p) == {n \in Nodes : nodes[p][n] # "absent"}

\* What a request or a change concerns is in a plan that exists, and its edges
\* are between nodes that are there or that come with it.
Stands(what, plans, nodes) ==
    LET ends == PresentIn(nodes, what.plan) \cup what.nodes
    IN  /\ plans[what.plan] # "absent"
        /\ what.edges \subseteq ends \X ends
        /\ what.kind \notin {"edge_link", "edge_unlink", "hierarchy_import"} => what.edges = {}

GraphOK ==
    /\ status[Opened] # "absent"
    /\ status \in [Plans -> {"absent", "draft", "active", "closed"}]
    /\ state \in [Plans -> [Nodes -> NodeStates]]
    /\ DOMAIN edges = Plans
    /\ \A p \in Plans : edges[p] \subseteq PresentIn(state, p) \X PresentIn(state, p)

\* No request carries an import: a change of that kind is made by Freeze alone.
UsersOK ==
    /\ user \in [Users -> Requests]
    /\ \A u \in Users : /\ Stands(user[u].what, status, state)
                        /\ user[u].what.kind # "hierarchy_import"

ChangesOK ==
    /\ change \in [Ids -> Changes]
    /\ \A i \in Ids : Stands(change[i].what, status, state)

\* The reviewed area is a node of the plan, or the import creates it.
ImportStands ==
    /\ import \in [status : ImportStates, plan : Plans, area : Nodes \cup {NoNode},
                   new : BOOLEAN, play : Nodes \cup {NoNode}, conflict : BOOLEAN,
                   change : Ids \cup {NoId}]
    /\ status[import.plan] # "absent"
    /\ import.status # "absent" =>
          import.area \in (IF import.new THEN Nodes ELSE PresentIn(state, import.plan))

GraphInv ==
    /\ GraphOK /\ UsersOK /\ ChangesOK /\ ImportStands
    /\ case \in [Ids -> CaseStates]
    /\ requests \in 0..MaxRequests

\* No plan and no node goes away.
Grows ==
    \A p \in Plans :
        status[p] # "absent" =>
            /\ status'[p] # "absent"
            /\ PresentIn(state, p) \subseteq PresentIn(state', p)

\* The import and its change, with what the requests between the transactions of
\* a commit rely on.
ImportInv ==
    /\ ImportFollowsChange
    /\ import.change = NoId => \A u \in Users : user[u].phase \notin {"submit", "mark"}
    /\ import.change # NoId => /\ import.status # "absent"
                               /\ case[import.change] # "none"
                               /\ change[import.change].status # "absent"
    /\ \A u \in Users : user[u].phase = "mark" =>
          case[import.change] \in {"pending", "approved", "rejected"}

StrategyInv == ActivationInv /\ GraphInv /\ ImportInv

-----------------------------------------------------------------------------
(* What a step must show for the graph and for those who refer to it.      *)

LEMMA StillStands ==
    ASSUME Grows, NEW what \in Whats, Stands(what, status, state)
    PROVE  Stands(what, status', state')
BY DEF Grows, Stands, Whats

LEMMA SameGraph ==
    ASSUME GraphOK, UNCHANGED graphVars
    PROVE  GraphOK' /\ Grows
BY DEF GraphOK, Grows, graphVars

LEMMA UsersStay ==
    ASSUME UsersOK, Grows, UNCHANGED user
    PROVE  UsersOK'
<1>1. ASSUME NEW u \in Users PROVE Stands(user[u].what, status', state')
    <2>1. user[u].what \in Whats
        BY DEF UsersOK, Requests
    <2> QED BY <2>1, StillStands DEF UsersOK
<1> QED BY <1>1 DEF UsersOK

LEMMA UserGoes ==
    ASSUME UsersOK, Grows, NEW u \in Users, NEW r \in Requests,
           user' = [user EXCEPT ![u] = r],
           Stands(r.what, status', state'), r.what.kind # "hierarchy_import"
    PROVE  UsersOK'
<1>1. user' \in [Users -> Requests]
    BY DEF UsersOK
<1>2. ASSUME NEW v \in Users
      PROVE  /\ Stands(user'[v].what, status', state')
             /\ user'[v].what.kind # "hierarchy_import"
    <2>1. CASE v = u
        BY <2>1 DEF UsersOK
    <2>2. CASE v # u
        <3>1. user'[v] = user[v] /\ user[v].what \in Whats
            BY <2>2 DEF UsersOK, Requests
        <3> QED BY <3>1, StillStands DEF UsersOK
    <2> QED BY <2>1, <2>2
<1> QED BY <1>1, <1>2 DEF UsersOK

\* Going on, or ending, with what a request already concerns.
LEMMA UserGoesOn ==
    ASSUME UsersOK, GraphOK', Grows, NEW u \in Users,
           Ends(u) \/ \E phase \in Phases : Goes(u, phase)
    PROVE  UsersOK'
<1>1. user[u] \in Requests /\ Stands(user[u].what, status, state)
      /\ user[u].what.kind # "hierarchy_import" /\ user[u].what \in Whats
    BY DEF UsersOK, Requests
<1>2. CASE Ends(u)
    <2>1. Idle \in Requests /\ Idle.what = Nothing /\ Nothing.kind # "hierarchy_import"
        BY CharterAssumption
        DEF Idle, Request, Requests, Nothing, Concerns, Whats, AllKinds, Phases
    <2>2. Stands(Nothing, status', state')
        BY DEF Stands, Nothing, Concerns, GraphOK
    <2> QED BY <1>2, <2>1, <2>2, UserGoes DEF Ends
<1>3. ASSUME NEW phase \in Phases, Goes(u, phase) PROVE UsersOK'
    <2> DEFINE r == [user[u] EXCEPT !.phase = phase]
    <2>1. r \in Requests /\ r.what = user[u].what
        BY <1>1 DEF Requests
    <2>2. user' = [user EXCEPT ![u] = r]
        BY <1>3 DEF Goes
    <2>3. Stands(r.what, status', state')
        BY <1>1, <2>1, StillStands
    <2> HIDE DEF r
    <2> QED BY <1>1, <2>1, <2>2, <2>3, UserGoes
<1> QED BY <1>2, <1>3

LEMMA ChangesStay ==
    ASSUME ChangesOK, Grows, UNCHANGED change
    PROVE  ChangesOK'
<1>1. ASSUME NEW i \in Ids PROVE Stands(change[i].what, status', state')
    <2>1. change[i].what \in Whats
        BY DEF ChangesOK, Changes
    <2> QED BY <2>1, StillStands DEF ChangesOK
<1> QED BY <1>1 DEF ChangesOK

LEMMA ChangeMade ==
    ASSUME ChangesOK, Grows, NEW i \in Ids, NEW c \in Changes,
           change' = [change EXCEPT ![i] = c], Stands(c.what, status', state')
    PROVE  ChangesOK'
<1>1. change' \in [Ids -> Changes]
    BY DEF ChangesOK
<1>2. ASSUME NEW j \in Ids PROVE Stands(change'[j].what, status', state')
    <2>1. CASE j = i
        BY <2>1 DEF ChangesOK
    <2>2. CASE j # i
        <3>1. change'[j] = change[j] /\ change[j].what \in Whats
            BY <2>2 DEF ChangesOK, Changes
        <3> QED BY <3>1, StillStands DEF ChangesOK
    <2> QED BY <2>1, <2>2
<1> QED BY <1>1, <1>2 DEF ChangesOK

LEMMA ImportStays ==
    ASSUME ImportStands, Grows, UNCHANGED import
    PROVE  ImportStands'
BY DEF ImportStands, Grows

-----------------------------------------------------------------------------
(* The statements that write the graph.                                    *)

\* Nodes are created, retired or made active, never removed; an edge is written
\* between nodes that are there, or with them.
LEMMA WritesKeep ==
    ASSUME GraphOK, NEW what \in Whats, Stands(what, status, state),
           NEW fresh \in {"draft", "active"}, Writes(what, fresh), UNCHANGED status
    PROVE  GraphOK' /\ Grows
<1> DEFINE p == what.plan
<1>0. p \in Plans /\ what.nodes \subseteq Nodes
    BY DEF Whats
<1>1. ASSUME NEW old \in NodeStates
      PROVE  /\ Becomes(what.kind, old, fresh) \in NodeStates
             /\ old # "absent" => Becomes(what.kind, old, fresh) # "absent"
             /\ what.kind \in {"edge_link", "hierarchy_import"} =>
                   Becomes(what.kind, old, fresh) # "absent"
    BY DEF Becomes, NodeStates
<1>2. /\ \A n \in Nodes : state[p][n] \in NodeStates
      /\ \A q \in Plans : state[q] \in [Nodes -> NodeStates]
    BY <1>0 DEF GraphOK
<1>3. /\ \A n \in Nodes : state'[p][n] = IF n \in what.nodes
                              THEN Becomes(what.kind, state[p][n], fresh) ELSE state[p][n]
      /\ \A q \in Plans \ {p} : state'[q] = state[q]
      /\ state'[p] = [n \in Nodes |-> state'[p][n]]
      /\ DOMAIN state' = Plans /\ state' = [q \in Plans |-> state'[q]]
    BY <1>0 DEF Writes, GraphOK
<1>4. \A n \in Nodes : state'[p][n] \in NodeStates
    BY <1>1, <1>2, <1>3
<1>5. state' \in [Plans -> [Nodes -> NodeStates]]
    <2>1. state'[p] \in [Nodes -> NodeStates]
        BY <1>3, <1>4
    <2>2. \A q \in Plans : state'[q] \in [Nodes -> NodeStates]
        BY <1>2, <1>3, <2>1
    <2> QED BY <1>3, <2>2
<1>6. \A q \in Plans : PresentIn(state, q) \subseteq PresentIn(state', q)
    <2>1. PresentIn(state, p) \subseteq PresentIn(state', p)
        BY <1>1, <1>2, <1>3 DEF PresentIn
    <2>2. \A q \in Plans \ {p} : PresentIn(state', q) = PresentIn(state, q)
        BY <1>3 DEF PresentIn
    <2> QED BY <2>1, <2>2
<1>7. /\ edges'[p] = IF what.kind = "edge_unlink" THEN edges[p] \ what.edges
                     ELSE edges[p] \cup what.edges
      /\ \A q \in Plans \ {p} : edges'[q] = edges[q]
      /\ DOMAIN edges' = Plans
    BY <1>0 DEF Writes, GraphOK
<1>8. what.kind # "edge_unlink" =>
          what.edges \subseteq PresentIn(state', p) \X PresentIn(state', p)
    <2>1. CASE what.kind \notin {"edge_link", "edge_unlink", "hierarchy_import"}
        BY <2>1 DEF Stands
    <2>2. CASE what.kind \in {"edge_link", "hierarchy_import"}
        <3>1. what.nodes \subseteq PresentIn(state', p)
            BY <1>0, <1>1, <1>2, <1>3, <2>2 DEF PresentIn
        <3> QED BY <1>0, <1>6, <3>1 DEF Stands
    <2> QED BY <2>1, <2>2
<1> HIDE DEF p
<1>9. \A q \in Plans : edges'[q] \subseteq PresentIn(state', q) \X PresentIn(state', q)
    <2>1. edges'[p] \subseteq PresentIn(state', p) \X PresentIn(state', p)
        <3>1. edges[p] \subseteq PresentIn(state', p) \X PresentIn(state', p)
            BY <1>0, <1>6 DEF GraphOK
        <3> QED BY <1>7, <1>8, <3>1
    <2>2. ASSUME NEW q \in Plans, q # p
          PROVE  edges'[q] \subseteq PresentIn(state', q) \X PresentIn(state', q)
        <3>1. edges'[q] = edges[q] /\ PresentIn(state', q) = PresentIn(state, q)
            BY <1>3, <1>7, <2>2 DEF PresentIn
        <3> QED BY <3>1 DEF GraphOK
    <2> QED BY <2>1, <2>2
<1> QED BY <1>5, <1>6, <1>7, <1>9 DEF GraphOK, Grows

LEMMA StatusChanges ==
    ASSUME GraphOK, NEW p \in Plans, NEW s \in {"draft", "closed"},
           status' = [status EXCEPT ![p] = s], UNCHANGED <<state, edges>>
    PROVE  GraphOK' /\ Grows
<1>1. \A q \in Plans : status'[q] = IF q = p THEN s ELSE status[q]
    BY DEF GraphOK
<1>2. status' \in [Plans -> {"absent", "draft", "active", "closed"}]
    BY DEF GraphOK
<1>3. status'[Opened] # "absent"
    BY <1>1, CharterAssumption DEF GraphOK
<1> QED BY <1>1, <1>2, <1>3 DEF GraphOK, Grows

\* The plan that opens makes its drafts active, and some others closed.
LEMMA OpenGraph ==
    ASSUME GraphOK, UsersOK, NEW u \in Users, Open(u)
    PROVE  GraphOK' /\ Grows
<1> DEFINE p == user[u].what.plan
           closed == user[u].plans
<1>0. p \in Plans
    BY DEF UsersOK, Requests, Whats
<1>1. CASE ~OneActive(p, closed)
    BY <1>1, SameGraph DEF Open, graphVars
<1>2. CASE OneActive(p, closed)
    <2>1. /\ status' = [q \in Plans |-> IF q = p THEN "active"
                           ELSE IF q \in closed THEN "closed" ELSE status[q]]
          /\ state' = [state EXCEPT ![p] = [n \in Nodes |->
                           IF @[n] = "draft" THEN "active" ELSE @[n]]]
          /\ edges' = edges
        BY <1>2 DEF Open
    <2> HIDE DEF p, closed
    <2>2. status' \in [Plans -> {"absent", "draft", "active", "closed"}]
        BY <2>1 DEF GraphOK
    <2>3. \A q \in Plans : status[q] # "absent" => status'[q] # "absent"
        BY <2>1
    <2>4. state' \in [Plans -> [Nodes -> NodeStates]]
        <3>1. [n \in Nodes |-> IF state[p][n] = "draft" THEN "active" ELSE state[p][n]]
                 \in [Nodes -> NodeStates]
            BY <1>0 DEF GraphOK, NodeStates
        <3> QED BY <1>0, <2>1, <3>1 DEF GraphOK
    <2>5. \A q \in Plans : PresentIn(state', q) = PresentIn(state, q)
        BY <1>0, <2>1 DEF GraphOK, PresentIn
    <2> QED BY <2>1, <2>2, <2>3, <2>4, <2>5, CharterAssumption DEF GraphOK, Grows
<1> QED BY <1>1, <1>2

\* A copy is made in a plan that nothing refers to yet.
LEMMA CarryGraph ==
    ASSUME GraphOK, UsersOK, NEW u \in Users, NEW q \in Plans, CarryForward(u, q)
    PROVE  GraphOK' /\ Grows
<1> DEFINE p == user[u].what.plan
           ns == user[u].what.nodes
<1>1. ns \subseteq Nodes
    BY DEF UsersOK, Requests, Whats
<1>2. /\ status[q] = "absent"
      /\ status' = [status EXCEPT ![q] = "draft"]
      /\ state' = [state EXCEPT ![q] = [n \in Nodes |->
                      IF n \in ns THEN "draft" ELSE "absent"]]
      /\ edges' = [edges EXCEPT ![q] = Carried(p, ns)]
    BY DEF CarryForward
<1>3. Carried(p, ns) \subseteq ns \X ns
    BY DEF Carried
<1> HIDE DEF p, ns
<1>4. PresentIn(state', q) = ns /\ edges'[q] \subseteq ns \X ns
    BY <1>1, <1>2, <1>3 DEF GraphOK, PresentIn
<1>5. \A r \in Plans \ {q} : /\ edges'[r] = edges[r] /\ status'[r] = status[r]
                             /\ PresentIn(state', r) = PresentIn(state, r)
    BY <1>2 DEF GraphOK, PresentIn
<1>6. state' \in [Plans -> [Nodes -> NodeStates]]
    <2>1. [n \in Nodes |-> IF n \in ns THEN "draft" ELSE "absent"] \in [Nodes -> NodeStates]
        BY DEF NodeStates
    <2> QED BY <1>2, <2>1 DEF GraphOK
<1>7. /\ status' \in [Plans -> {"absent", "draft", "active", "closed"}]
      /\ DOMAIN edges' = Plans
      /\ status'[Opened] # "absent"
    BY <1>2, CharterAssumption DEF GraphOK
<1>8. \A r \in Plans : edges'[r] \subseteq PresentIn(state', r) \X PresentIn(state', r)
    BY <1>4, <1>5 DEF GraphOK
<1> QED BY <1>2, <1>5, <1>6, <1>7, <1>8 DEF GraphOK, Grows

-----------------------------------------------------------------------------
(* Every step keeps the graph and those who refer to it.                   *)

LEMMA GraphInitially == Init => GraphInv
<1> SUFFICES ASSUME Init PROVE GraphInv
    OBVIOUS
<1> USE CharterAssumption DEF Init, StrategyInit
<1>1. status[Opened] = "active"
    OBVIOUS
<1>2. GraphOK
    <2>1. state \in [Plans -> [Nodes -> NodeStates]]
        BY DEF NodeStates
    <2>2. PresentIn(state, Opened) = Charter
        BY DEF PresentIn
    <2> QED BY <1>1, <2>1, <2>2 DEF GraphOK
<1>3. Nothing \in Whats /\ Nothing.kind = "none" /\ Stands(Nothing, status, state)
    BY <1>1 DEF Nothing, Concerns, Whats, AllKinds, Stands
<1>4. UsersOK
    <2>1. Idle \in Requests /\ Idle.what = Nothing
        BY <1>3 DEF Idle, Request, Requests, Phases
    <2> QED BY <1>3, <2>1 DEF UsersOK
<1>5. ChangesOK
    <2>1. NoChange \in Changes /\ NoChange.what = Nothing
        BY <1>3 DEF NoChange, Staged, Changes
    <2> QED BY <1>3, <2>1 DEF ChangesOK
<1>6. ImportStands
    BY <1>1 DEF NoImport, ImportStands, ImportStates
<1>7. case \in [Ids -> CaseStates] /\ requests \in 0..MaxRequests
    BY BoundsAssumption DEF CaseStates
<1> QED BY <1>2, <1>4, <1>5, <1>6, <1>7 DEF GraphInv

\* What a request asks for is in the plan it read.
LEMMA TargetsStand ==
    ASSUME GraphOK, NEW p \in Plans, NEW what \in Targets(p), status[what.plan] # "absent"
    PROVE  /\ what \in Whats /\ what.plan = p /\ what.kind \in Kinds
           /\ Stands(what, status, state)
<1> USE DEF Whats, AllKinds, Kinds, Stands, Concerns
<1>1. ASSUME NEW n \in Nodes, NEW k \in {"node_create", "node_update", "node_retire"},
             what = Concerns(k, p, {n}, {})
      PROVE  what \in Whats /\ what.plan = p /\ what.kind \in Kinds /\ Stands(what, status, state)
    BY <1>1
<1>2. ASSUME NEW e \in Present(p) \X Present(p), NEW k \in {"edge_link", "edge_unlink"},
             what = Concerns(k, p, {}, {e})
      PROVE  what \in Whats /\ what.plan = p /\ what.kind \in Kinds /\ Stands(what, status, state)
    <2>1. Present(p) = PresentIn(state, p) /\ Present(p) \subseteq Nodes
        BY DEF Present, PresentIn
    <2>2. {e} \subseteq PresentIn(state, p) \X PresentIn(state, p) /\ {e} \subseteq Nodes \X Nodes
        BY <2>1
    <2> QED BY <1>2, <2>2
<1>3. edges[p] \subseteq Present(p) \X Present(p) /\ Present(p) \subseteq Nodes
    BY DEF GraphOK, Present, PresentIn
<1> QED BY <1>1, <1>2, <1>3 DEF Targets

LEMMA ReadPlanGraph ==
    ASSUME GraphInv, NEW u \in Users, NEW p \in Plans, NEW what \in Targets(p),
           ReadPlan(u, what)
    PROVE  UsersOK'
<1>1. status[what.plan] # "absent" /\ UNCHANGED graphVars
    BY DEF ReadPlan
<1>2. what \in Whats /\ Stands(what, status, state) /\ what.kind # "hierarchy_import"
    BY <1>1, TargetsStand DEF GraphInv, Kinds
<1>3. PICK phase \in {"stage", "write"} :
          user' = [user EXCEPT ![u] = Request(phase, what, {})]
    BY DEF ReadPlan
<1> DEFINE r == Request(phase, what, {})
<1>4. r \in Requests /\ r.what = what
    BY <1>2 DEF Request, Requests, Phases
<1>5. Grows /\ Stands(what, status', state')
    BY <1>1, <1>2, SameGraph, StillStands DEF GraphInv
<1> HIDE DEF r
<1> QED BY <1>2, <1>3, <1>4, <1>5, UserGoes DEF r, GraphInv

\* A request of the plan p itself: to open, to close, to carry it forward.
LEMMA PlanRequestGraph ==
    ASSUME GraphInv, UNCHANGED graphVars, NEW u \in Users, NEW p \in Plans,
           status[p] # "absent",
           NEW kind \in {"open", "close", "carry"}, NEW ns \in SUBSET Nodes,
           user' = [user EXCEPT ![u] = Request(kind, Concerns(kind, p, ns, {}), {})]
    PROVE  UsersOK'
<1> DEFINE what == Concerns(kind, p, ns, {})
           r == Request(kind, what, {})
<1>1. r \in Requests /\ r.what = what /\ what.kind # "hierarchy_import"
    BY DEF Request, Requests, Phases, Concerns, Whats, AllKinds
<1>2. Stands(what, status', state')
    BY DEF Stands, Concerns, graphVars
<1>3. Grows
    BY SameGraph DEF GraphInv
<1> HIDE DEF r, what
<1> QED BY <1>1, <1>2, <1>3, UserGoes DEF GraphInv, r, what

LEMMA CloseOthersGraph ==
    ASSUME GraphInv, NEW u \in Users, CloseOthers(u)
    PROVE  UsersOK'
<1> DEFINE closed == {p \in Plans \ {user[u].what.plan} : status[p] = "active"}
           r == [user[u] EXCEPT !.phase = "opening", !.plans = closed]
<1>1. user[u] \in Requests /\ closed \in SUBSET Plans
    BY DEF GraphInv, UsersOK
<1> HIDE DEF closed
<1>2. r \in Requests /\ r.what = user[u].what
    BY <1>1 DEF Requests, Phases
<1>3. user' = [user EXCEPT ![u] = r] /\ UNCHANGED graphVars
    BY DEF CloseOthers, closed
<1>4. Grows /\ Stands(r.what, status', state')
    BY <1>2, <1>3, SameGraph DEF GraphInv, UsersOK, graphVars
<1>5. r.what.kind # "hierarchy_import"
    BY <1>2 DEF GraphInv, UsersOK
<1> HIDE DEF r
<1> QED BY <1>2, <1>3, <1>4, <1>5, UserGoes DEF GraphInv

LEMMA StartsInBounds ==
    ASSUME GraphInv, NEW u, StartRequest(u)
    PROVE  requests' \in 0..MaxRequests
BY BoundsAssumption DEF GraphInv, StartRequest

\* What is left when the graph and the users are dealt with.
LEMMA GraphRest ==
    ASSUME GraphInv, GraphOK', UsersOK', ChangesOK', Grows, UNCHANGED import,
           case' \in [Ids -> CaseStates], requests' \in 0..MaxRequests
    PROVE  GraphInv'
BY ImportStays DEF GraphInv

LEMMA PlanStepGraph ==
    ASSUME GraphInv, PlanStep, UNCHANGED import
    PROVE  GraphInv'
<1>0. GraphOK /\ UsersOK /\ ChangesOK /\ case \in [Ids -> CaseStates]
      /\ requests \in 0..MaxRequests
    BY DEF GraphInv
<1>1. ASSUME GraphOK', Grows, UNCHANGED <<change, case, requests>>,
             UsersOK'
      PROVE  GraphInv'
    BY <1>0, <1>1, ChangesStay, GraphRest
<1>2. ASSUME UNCHANGED <<graphVars, change, case>>, UsersOK', requests' \in 0..MaxRequests
      PROVE  GraphInv'
    BY <1>0, <1>2, SameGraph, ChangesStay, GraphRest
<1>3. ASSUME NEW p \in Plans, CreatePlan(p) PROVE GraphInv'
    <2>1. GraphOK' /\ Grows
        BY <1>0, <1>3, StatusChanges DEF CreatePlan
    <2> QED BY <1>0, <1>1, <1>3, <2>1, UsersStay DEF CreatePlan
<1>4. ASSUME NEW u \in Users, NEW p \in Plans, NEW what \in Targets(p), ReadPlan(u, what)
      PROVE  GraphInv'
    BY <1>2, <1>4, ReadPlanGraph, StartsInBounds DEF ReadPlan
<1>5. ASSUME NEW u \in Users, NEW i \in Ids, Stage(u, i) PROVE GraphInv'
    <2> DEFINE c == Staged(user[u].what, "pending")
    <2>1. /\ user[u].what \in Whats /\ Stands(user[u].what, status, state)
        BY <1>0 DEF UsersOK, Requests
    <2>2. c \in Changes /\ c.what = user[u].what
        BY <2>1 DEF Staged, Changes
    <2>3. change' = [change EXCEPT ![i] = c] /\ UNCHANGED graphVars /\ Ends(u)
          /\ UNCHANGED <<case, requests>>
        BY <1>5 DEF Stage
    <2>4. GraphOK' /\ Grows /\ Stands(c.what, status', state')
        BY <1>0, <2>1, <2>2, <2>3, SameGraph, StillStands
    <2> HIDE DEF c
    <2> QED BY <1>0, <2>2, <2>3, <2>4, ChangeMade, UserGoesOn, GraphRest
<1>6. ASSUME NEW u \in Users, WriteDraft(u) \/ InsertEdge(u) PROVE GraphInv'
    <2>1. user[u].what \in Whats /\ Stands(user[u].what, status, state)
        BY <1>0 DEF UsersOK, Requests
    <2>2. /\ \/ UNCHANGED <<state, edges>> \/ Writes(user[u].what, "draft")
          /\ UNCHANGED <<status, change, case, requests>>
          /\ Ends(u) \/ Goes(u, "insert")
        BY <1>6 DEF WriteDraft, InsertEdge
    <2>3. GraphOK' /\ Grows
        BY <1>0, <2>1, <2>2, WritesKeep, SameGraph DEF graphVars
    <2>4. "insert" \in Phases
        BY DEF Phases
    <2> QED BY <1>0, <1>1, <2>2, <2>3, <2>4, UserGoesOn
<1>7. ASSUME NEW u \in Users, CloseOthers(u) PROVE GraphInv'
    BY <1>0, <1>2, <1>7, CloseOthersGraph DEF CloseOthers
<1>8. ASSUME NEW u \in Users, Open(u) PROVE GraphInv'
    <2>1. Ends(u) /\ UNCHANGED <<change, case, requests>>
        BY <1>8 DEF Open
    <2> QED BY <1>0, <1>1, <1>8, <2>1, OpenGraph, UserGoesOn
<1>9. ASSUME NEW u \in Users, Close(u) PROVE GraphInv'
    <2>1. user[u].what.plan \in Plans
        BY <1>0 DEF UsersOK, Requests, Whats
    <2>2. GraphOK' /\ Grows
        BY <1>0, <1>9, <2>1, StatusChanges DEF Close
    <2>3. Ends(u) /\ UNCHANGED <<change, case, requests>>
        BY <1>9 DEF Close
    <2> QED BY <1>0, <1>1, <2>2, <2>3, UserGoesOn
<1>10. ASSUME NEW u \in Users, NEW p \in Plans,
              ReadDraft(u, p) \/ ReadActive(u, p) \/ ReadNodes(u, p)
       PROVE  GraphInv'
    <2>1. /\ StartRequest(u) /\ status[p] # "absent"
          /\ UNCHANGED <<graphVars, change, case>>
        BY <1>10 DEF ReadDraft, ReadActive, ReadNodes
    <2>2. \E kind \in {"open", "close", "carry"}, ns \in SUBSET Nodes :
              user' = [user EXCEPT ![u] = Request(kind, Concerns(kind, p, ns, {}), {})]
        <3>1. {} \in SUBSET Nodes /\ {n \in Nodes : state[p][n] = "active"} \in SUBSET Nodes
            OBVIOUS
        <3> QED BY <1>10, <3>1 DEF ReadDraft, ReadActive, ReadNodes
    <2> QED BY <1>2, <2>1, <2>2, PlanRequestGraph, StartsInBounds
<1>11. ASSUME NEW u \in Users, NEW q \in Plans, CarryForward(u, q) PROVE GraphInv'
    <2>1. Ends(u) /\ UNCHANGED <<change, case, requests>>
        BY <1>11 DEF CarryForward
    <2> QED BY <1>0, <1>1, <1>11, <2>1, CarryGraph, UserGoesOn
<1>12. ASSUME NEW u \in Users, RequestFails(u) PROVE GraphInv'
    <2>1. UNCHANGED <<graphVars, change, case, requests>> /\ Ends(u)
        BY <1>12 DEF RequestFails
    <2> QED BY <1>0, <1>1, <2>1, SameGraph, UserGoesOn
<1>13. ASSUME UNCHANGED <<graphVars, change, user, requests>>, case' \in [Ids -> CaseStates]
       PROVE  GraphInv'
    BY <1>0, <1>13, SameGraph, ChangesStay, UsersStay, GraphRest
<1>14. ASSUME NEW i \in Ids, SubmitCase(i) PROVE GraphInv'
    BY <1>0, <1>13, <1>14 DEF SubmitCase, CaseStates
<1>15. ASSUME NEW i \in Ids, NEW d \in {"approved", "rejected"}, Decide(i, d) PROVE GraphInv'
    BY <1>0, <1>13, <1>15 DEF Decide, CaseStates
<1>16. ASSUME NEW w \in Workers, WorkerDies(w) PROVE GraphInv'
    BY <1>0, <1>13, <1>16 DEF WorkerDies
<1>17. ASSUME NEW w \in Workers, NEW i \in Ids, Activate(w, i) PROVE GraphInv'
    BY <1>0, <1>13, <1>17 DEF Activate
<1> QED BY <1>3, <1>4, <1>5, <1>6, <1>7, <1>8, <1>9, <1>10, <1>11, <1>12, <1>14, <1>15,
           <1>16, <1>17 DEF PlanStep

LEMMA ImportStepGraph ==
    ASSUME GraphInv, ImportStep
    PROVE  GraphInv'
<1>0. GraphOK /\ UsersOK /\ ChangesOK /\ case \in [Ids -> CaseStates]
      /\ requests \in 0..MaxRequests /\ ImportStands
    BY DEF GraphInv
<1>1. UNCHANGED graphVars
    BY DEF ImportStep, DryRun, Resolve, Freeze, Resume, Submit, Mark, strategyVars
<1>2. GraphOK' /\ Grows
    BY <1>0, <1>1, SameGraph
<1>3. \A p \in Plans : PresentIn(state', p) = PresentIn(state, p) /\ status' = status
    BY <1>1 DEF PresentIn, graphVars
<1>4. ASSUME ImportStands', UsersOK', ChangesOK', case' \in [Ids -> CaseStates],
             requests' \in 0..MaxRequests
      PROVE  GraphInv'
    BY <1>2, <1>4 DEF GraphInv
<1>5. \A p \in Plans : Present(p) = PresentIn(state, p)
                       /\ \A type : ActiveOf(p, type) \subseteq PresentIn(state, p)
    BY DEF Present, PresentIn, ActiveOf
\* A request between the transactions of a commit concerns nothing of the graph.
<1>6. ASSUME NEW u \in Users, user' = [user EXCEPT ![u] = Request("submit", Nothing, {})]
      PROVE  UsersOK'
    <2> DEFINE r == Request("submit", Nothing, {})
    <2>1. /\ r \in Requests /\ r.what = Nothing /\ Nothing.kind # "hierarchy_import"
          /\ Stands(Nothing, status', state')
        BY <1>2, CharterAssumption
        DEF Request, Requests, Nothing, Concerns, Whats, AllKinds, Phases, Stands, GraphOK
    <2> HIDE DEF r
    <2> QED BY <1>0, <1>2, <1>6, <2>1, UserGoes DEF r
<1>7. ASSUME NEW p \in Plans, NEW a \in Nodes, NEW play \in Nodes \cup {NoNode},
             DryRun(p, a, play)
      PROVE  GraphInv'
    <2>1. /\ status[p] = "active"
          /\ a \in PresentIn(state, p) \/ state[p][a] = "absent"
          /\ import' = [status |-> "dry_run", plan |-> p, area |-> a,
                  new |-> state[p][a] = "absent", play |-> play,
                  conflict |-> play # NoNode /\ Elsewhere(p, play, a), change |-> NoId]
          /\ UNCHANGED strategyVars
        BY <1>5, <1>7 DEF DryRun, Unused
    <2>2. ImportStands'
        <3>1. (state[p][a] = "absent") \in BOOLEAN
              /\ (play # NoNode /\ Elsewhere(p, play, a)) \in BOOLEAN
            OBVIOUS
        <3>2. import' \in [status : ImportStates, plan : Plans, area : Nodes \cup {NoNode},
                   new : BOOLEAN, play : Nodes \cup {NoNode}, conflict : BOOLEAN,
                   change : Ids \cup {NoId}]
            BY <2>1, <3>1 DEF ImportStates
        <3>3. status'[import'.plan] # "absent"
            BY <1>3, <2>1
        <3>4. import'.area \in (IF import'.new THEN Nodes ELSE PresentIn(state', import'.plan))
            BY <1>3, <2>1
        <3> QED BY <3>2, <3>3, <3>4 DEF ImportStands
    <2> QED BY <1>0, <1>2, <1>4, <2>1, <2>2, UsersStay, ChangesStay DEF strategyVars
\* The import keeps its plan and its area once it has them.
<1>8. ASSUME import' \in [status : ImportStates, plan : Plans, area : Nodes \cup {NoNode},
                   new : BOOLEAN, play : Nodes \cup {NoNode}, conflict : BOOLEAN,
                   change : Ids \cup {NoId}],
             /\ import'.plan = import.plan /\ import'.area = import.area
             /\ import'.new = import.new
             /\ import'.status # "absent" => import.status # "absent"
      PROVE  ImportStands'
    BY <1>0, <1>2, <1>3, <1>8 DEF ImportStands
<1>9. ASSUME NEW play \in Nodes, Resolve(play) PROVE GraphInv'
    <2>1. ImportStands'
        BY <1>0, <1>8, <1>9 DEF Resolve, ImportStands
    <2> QED BY <1>0, <1>2, <1>4, <1>9, <2>1, UsersStay, ChangesStay DEF Resolve, strategyVars
<1>10. ASSUME NEW u \in Users, NEW i \in Ids, Freeze(u, i) PROVE GraphInv'
    <2> DEFINE c == Staged(Payload, "pending")
               p == import.plan
    <2>1. /\ import.status = "dry_run" /\ import.play \in PresentIn(state, p)
          /\ import' = [import EXCEPT !.change = i]
          /\ change' = [change EXCEPT ![i] = c] /\ case' = [case EXCEPT ![i] = "draft"]
          /\ user' = [user EXCEPT ![u] = Request("submit", Nothing, {})]
        BY <1>0, <1>5, <1>10 DEF Freeze, Unfrozen, Reviewed, ImportStands
    <2>2. /\ p \in Plans /\ import.play \in Nodes /\ import.area \in Nodes
          /\ ~import.new => import.area \in PresentIn(state, p)
        BY <1>0, <2>1 DEF ImportStands, PresentIn
    <2>3. Payload \in Whats /\ Payload.plan = p
        BY <2>2 DEF Payload, Concerns, Whats, AllKinds
    <2>4. Stands(Payload, status, state)
        <3>1. status[p] # "absent"
            BY <1>0 DEF ImportStands
        <3>2. import.area \in PresentIn(state, p) \cup Payload.nodes
            BY <2>2 DEF Payload, Concerns
        <3>3. Payload.edges \subseteq {<<import.play, import.area>>}
              /\ Payload.kind = "hierarchy_import"
            BY DEF Payload, Concerns
        <3> QED BY <2>1, <2>3, <3>1, <3>2, <3>3 DEF Stands
    <2>5. c \in Changes /\ c.what = Payload
        BY <2>3 DEF Staged, Changes
    <2>6. Stands(c.what, status', state')
        BY <1>2, <2>3, <2>4, <2>5, StillStands
    <2>7. ImportStands'
        BY <1>0, <1>8, <2>1 DEF ImportStands
    <2>8. case' \in [Ids -> CaseStates] /\ requests' \in 0..MaxRequests
        BY <1>0, <1>10, <2>1, StartsInBounds DEF Freeze, CaseStates
    <2> HIDE DEF c, p
    <2> QED BY <1>0, <1>2, <1>4, <1>6, <2>1, <2>5, <2>6, <2>7, <2>8, ChangeMade
<1>11. ASSUME NEW u \in Users, Resume(u) PROVE GraphInv'
    <2>1. requests' \in 0..MaxRequests
        BY <1>11, StartsInBounds DEF Resume
    <2> QED BY <1>0, <1>2, <1>4, <1>6, <1>11, <2>1, ImportStays, ChangesStay DEF Resume
<1>12. ASSUME NEW u \in Users, Submit(u) PROVE GraphInv'
    <2>1. "mark" \in Phases
        BY DEF Phases
    <2>2. case' \in [Ids -> CaseStates]
        BY <1>0, <1>12 DEF Submit, CaseStates
    <2>3. Goes(u, "mark") /\ UNCHANGED <<change, requests, import>>
        BY <1>12 DEF Submit
    <2> QED BY <1>0, <1>2, <1>4, <2>1, <2>2, <2>3, UserGoesOn, ImportStays, ChangesStay
<1>13. ASSUME NEW u \in Users, Mark(u) PROVE GraphInv'
    <2>1. ImportStands'
        <3>1. /\ import.status \in ImportStates => Marked(import.status) \in ImportStates
              /\ Marked(import.status) # "absent" => import.status # "absent"
            BY DEF Marked, ImportStates
        <3> QED BY <1>0, <1>8, <1>13, <3>1 DEF Mark, ImportStands
    <2>2. Ends(u) /\ UNCHANGED <<change, case, requests>>
        BY <1>13 DEF Mark
    <2> QED BY <1>0, <1>2, <1>4, <2>1, <2>2, UserGoesOn, ChangesStay
<1> QED BY <1>7, <1>9, <1>10, <1>11, <1>12, <1>13 DEF ImportStep

LEMMA CommitGraph ==
    ASSUME GraphInv, ActivationInv, ImportInv, NEW w \in Workers, CommitWithImport(w)
    PROVE  GraphInv'
<1> DEFINE i == worker[w]
           c == [change[i] EXCEPT !.status = "applied"]
<1>0. GraphOK /\ UsersOK /\ ChangesOK /\ case \in [Ids -> CaseStates]
      /\ requests \in 0..MaxRequests /\ ImportStands
    BY DEF GraphInv
<1>1. i \in Ids
    BY DEF ActivationInv, CommitWithImport, CommitActivation
<1>2. /\ Writes(change[i].what, "active") /\ change' = [change EXCEPT ![i] = c]
      /\ UNCHANGED <<status, case, user, requests>>
      /\ import' = import \/ import' = [import EXCEPT !.status = "applied"]
      /\ import' # import => i = import.change
    BY DEF CommitWithImport, CommitActivation
<1>3. change[i] \in Changes /\ change[i].what \in Whats /\ Stands(change[i].what, status, state)
    BY <1>0, <1>1 DEF ChangesOK, Changes
<1>4. GraphOK' /\ Grows
    BY <1>0, <1>2, <1>3, WritesKeep
<1>5. c \in Changes /\ c.what = change[i].what
    BY <1>3 DEF Changes
<1>6. Stands(c.what, status', state')
    BY <1>3, <1>4, <1>5, StillStands
<1> HIDE DEF c, i
<1>7. UsersOK' /\ ChangesOK'
    BY <1>0, <1>1, <1>2, <1>4, <1>5, <1>6, ChangeMade, UsersStay
<1>8. ImportStands'
    <2>1. CASE import' = import
        BY <1>0, <1>4, <2>1, ImportStays
    <2>2. CASE import' # import
        <3>1. import.status # "absent"
            BY <1>1, <1>2, <2>2, NoIdAssumption DEF ImportInv
        <3> QED BY <1>0, <1>2, <1>4, <2>2, <3>1 DEF ImportStands, ImportStates, Grows
    <2> QED BY <2>1, <2>2
<1> QED BY <1>0, <1>2, <1>4, <1>7, <1>8 DEF GraphInv

-----------------------------------------------------------------------------
(* The import and its staged change.                                       *)

LEMMA ImportInitially == Init => ImportInv
<1> SUFFICES ASSUME Init PROVE ImportInv
    OBVIOUS
<1>1. import.change = NoId /\ import.status = "absent"
    BY DEF Init, NoImport
<1>2. \A u \in Users : user[u].phase = "idle"
    BY DEF Init, StrategyInit, Idle, Request
<1>3. \A i \in Ids : change[i].what.kind = "none"
    BY DEF Init, StrategyInit, NoChange, Staged, Nothing, Concerns
<1> QED BY <1>1, <1>2, <1>3 DEF ImportInv, ImportFollowsChange

\* A step that leaves the import alone: its change keeps what it says and whether
\* it is applied, its case is not withdrawn, and no other request comes between
\* the transactions of the commit.
Bystands ==
    /\ UNCHANGED import
    /\ \A i \in Ids :
          \/ change'[i] = change[i]
          \/ change[i].status = "absent" /\ change'[i].what.kind # "hierarchy_import"
          \/ /\ i # import.change
             /\ change'[i].what.kind = change[i].what.kind
    /\ \A i \in Ids : case[i] = "none" \/ case'[i] = case[i]
                      \/ case'[i] \in {"pending", "approved", "rejected"}
    /\ \A u \in Users : \/ user'[u].phase = user[u].phase
                        \/ user'[u].phase \notin {"submit", "mark"}

LEMMA BystandersKeep ==
    ASSUME ImportInv, GraphInv, Bystands
    PROVE  ImportInv'
<1>1. import.change \in Ids \cup {NoId}
    BY DEF GraphInv, ImportStands
<1>2. CASE import.change = NoId
    BY <1>2 DEF ImportInv, ImportFollowsChange, Bystands
<1>3. CASE import.change # NoId
    <2>1. import.change \in Ids /\ change'[import.change] = change[import.change]
        BY <1>1, <1>3 DEF ImportInv, Bystands
    <2>2. \A i \in Ids : change'[i].what.kind = "hierarchy_import" => i = import.change
        BY DEF ImportInv, ImportFollowsChange, Bystands
    <2>3. case'[import.change] # "none"
          /\ (case[import.change] \in {"pending", "approved", "rejected"} =>
                case'[import.change] \in {"pending", "approved", "rejected"})
        BY <1>3, <2>1 DEF ImportInv, Bystands
    <2>4. ImportFollowsChange'
        BY <1>3, <2>1, <2>2, <2>3 DEF ImportInv, ImportFollowsChange, Bystands
    <2> QED BY <1>3, <2>1, <2>3, <2>4 DEF ImportInv, Bystands
<1> QED BY <1>2, <1>3

LEMMA PlanStepImport ==
    ASSUME ImportInv, GraphInv, PlanStep, UNCHANGED import
    PROVE  ImportInv'
<1>0. /\ DOMAIN user = Users /\ DOMAIN change = Ids /\ DOMAIN case = Ids
      /\ \A u \in Users : user[u] \in Requests /\ user[u].what.kind # "hierarchy_import"
    BY DEF GraphInv, UsersOK, ChangesOK
<1>1. \A u \in Users : Ends(u) \/ Goes(u, "insert") =>
          \A v \in Users : user'[v].phase = user[v].phase
                           \/ user'[v].phase \notin {"submit", "mark"}
    BY <1>0 DEF Ends, Goes, Idle, Request, Requests
<1>2. ASSUME UNCHANGED <<change, case>>,
             \A v \in Users : user'[v].phase = user[v].phase
                              \/ user'[v].phase \notin {"submit", "mark"}
      PROVE  Bystands
    BY <1>2 DEF Bystands
<1>3. ASSUME NEW p \in Plans, CreatePlan(p) PROVE Bystands
    BY <1>2, <1>3 DEF CreatePlan
<1>4. ASSUME NEW u \in Users,
             \/ \E p \in Plans : \E what \in Targets(p) : ReadPlan(u, what)
             \/ CloseOthers(u)
             \/ \E p \in Plans : ReadDraft(u, p) \/ ReadActive(u, p) \/ ReadNodes(u, p)
      PROVE  Bystands
    <2>1. UNCHANGED <<change, case>>
        BY <1>4 DEF ReadPlan, CloseOthers, ReadDraft, ReadActive, ReadNodes
    <2>2. user'[u].phase \notin {"submit", "mark"}
        <3>1. ASSUME CloseOthers(u) PROVE user'[u].phase = "opening"
            BY <1>0, <3>1 DEF CloseOthers, Requests
        <3>2. ASSUME NEW what, ReadPlan(u, what) PROVE user'[u].phase \in {"stage", "write"}
            BY <1>0, <3>2 DEF ReadPlan, Request
        <3>3. ASSUME NEW q \in Plans, ReadDraft(u, q) \/ ReadActive(u, q) \/ ReadNodes(u, q)
              PROVE  user'[u].phase \in {"open", "close", "carry"}
            BY <1>0, <3>3 DEF ReadDraft, ReadActive, ReadNodes, Request
        <3> QED BY <1>4, <3>1, <3>2, <3>3
    <2>3. \A v \in Users \ {u} : user'[v] = user[v]
        BY <1>0, <1>4 DEF ReadPlan, CloseOthers, ReadDraft, ReadActive, ReadNodes
    <2> QED BY <1>2, <2>1, <2>2, <2>3
<1>5. ASSUME NEW u \in Users, NEW i \in Ids, Stage(u, i) PROVE Bystands
    <2>1. /\ change' = [change EXCEPT ![i] = Staged(user[u].what, "pending")]
          /\ change[i] = NoChange /\ Ends(u) /\ UNCHANGED case
        BY <1>5 DEF Stage
    <2>2. /\ change[i].status = "absent"
          /\ change'[i].what.kind # "hierarchy_import"
          /\ \A j \in Ids \ {i} : change'[j] = change[j]
        BY <1>0, <2>1 DEF NoChange, Staged
    <2> QED BY <1>1, <2>1, <2>2 DEF Bystands
<1>6. ASSUME NEW u \in Users,
             WriteDraft(u) \/ InsertEdge(u) \/ Open(u) \/ Close(u) \/ RequestFails(u)
             \/ \E p \in Plans : CarryForward(u, p)
      PROVE  Bystands
    <2>1. UNCHANGED <<change, case>> /\ (Ends(u) \/ Goes(u, "insert"))
        BY <1>6 DEF WriteDraft, InsertEdge, Open, Close, RequestFails, CarryForward
    <2> QED BY <1>1, <1>2, <2>1
<1>7. ASSUME NEW i \in Ids, SubmitCase(i) \/ \E d \in {"approved", "rejected"} : Decide(i, d)
      PROVE  Bystands
    BY <1>0, <1>7 DEF SubmitCase, Decide, Bystands
<1>8. ASSUME NEW w \in Workers, WorkerDies(w) \/ \E i \in Ids : Activate(w, i)
      PROVE  Bystands
    BY <1>2, <1>8 DEF WorkerDies, Activate
<1>9. Bystands
    BY <1>3, <1>4, <1>5, <1>6, <1>7, <1>8 DEF PlanStep
<1> QED BY <1>9, BystandersKeep

\* The activation of the import's own change marks the import in the same
\* transaction; another change's says nothing of it.
LEMMA CommitImport ==
    ASSUME ImportInv, GraphInv, ActivationInv, NEW w \in Workers, CommitWithImport(w)
    PROVE  ImportInv'
<1> DEFINE i == worker[w]
<1>0. /\ i \in Ids /\ DOMAIN change = Ids /\ change[i] \in Changes
      /\ i # NoId
    BY NoIdAssumption
    DEF ActivationInv, CommitWithImport, CommitActivation, GraphInv, ChangesOK
<1>1. /\ change' = [change EXCEPT ![i].status = "applied"]
      /\ UNCHANGED <<case, user>>
      /\ import' = IF i = import.change THEN [import EXCEPT !.status = "applied"] ELSE import
    BY DEF CommitWithImport, CommitActivation
<1> HIDE DEF i
<1>2. /\ change'[i].what = change[i].what /\ change'[i].status = "applied"
      /\ \A j \in Ids \ {i} : change'[j] = change[j]
    BY <1>0, <1>1 DEF Changes
<1>3. CASE i # import.change
    <2>1. Bystands
        BY <1>1, <1>2, <1>3 DEF Bystands
    <2> QED BY <2>1, BystandersKeep
<1>4. CASE i = import.change
    <2>1. /\ import'.change = i /\ import'.status = "applied"
          /\ import'.play = import.play /\ import'.area = import.area
        BY <1>1, <1>4 DEF GraphInv, ImportStands
    <2>2. /\ \A j \in Ids : change'[j].what.kind = "hierarchy_import" => j = i
          /\ change'[i].what.edges \subseteq {<<import.play, import.area>>}
        BY <1>0, <1>2, <1>4 DEF ImportInv, ImportFollowsChange
    <2>3. ImportFollowsChange'
        BY <1>0, <1>2, <2>1, <2>2 DEF ImportFollowsChange
    <2> QED BY <1>0, <1>1, <1>2, <1>4, <2>1, <2>3 DEF ImportInv
<1> QED BY <1>3, <1>4

LEMMA ImportStepImport ==
    ASSUME ImportInv, GraphInv, ImportStep
    PROVE  ImportInv'
<1>0. /\ DOMAIN user = Users /\ DOMAIN change = Ids /\ DOMAIN case = Ids
      /\ \A u \in Users : user[u] \in Requests
      /\ \A i \in Ids : change[i] \in Changes /\ case[i] \in CaseStates
      /\ import.change \in Ids \cup {NoId}
      /\ DOMAIN import = {"status", "plan", "area", "new", "play", "conflict", "change"}
    BY DEF GraphInv, UsersOK, ChangesOK, ImportStands
<1>1. ASSUME NEW p \in Plans, NEW a \in Nodes, NEW play \in Nodes \cup {NoNode},
             DryRun(p, a, play)
      PROVE  ImportInv'
    <2>1. import.status = "absent" /\ import.change = NoId
        BY <1>1 DEF DryRun, ImportInv
    <2>2. import'.status = "dry_run" /\ import'.change = NoId
          /\ UNCHANGED <<change, case, user>>
        BY <1>1 DEF DryRun, strategyVars
    <2> QED BY <2>1, <2>2 DEF ImportInv, ImportFollowsChange
<1>2. ASSUME NEW play \in Nodes, Resolve(play) PROVE ImportInv'
    <2>1. import.change = NoId /\ import'.status = "dry_run" /\ import'.change = NoId
          /\ UNCHANGED <<change, case, user>>
        BY <1>0, <1>2 DEF Resolve, Unfrozen, strategyVars
    <2> QED BY <2>1 DEF ImportInv, ImportFollowsChange
<1>3. ASSUME NEW u \in Users, NEW i \in Ids, Freeze(u, i) PROVE ImportInv'
    <2>1. /\ import.change = NoId /\ import.status = "dry_run" /\ change[i] = NoChange
          /\ import' = [import EXCEPT !.change = i]
          /\ change' = [change EXCEPT ![i] = Staged(Payload, "pending")]
          /\ case' = [case EXCEPT ![i] = "draft"]
          /\ user' = [user EXCEPT ![u] = Request("submit", Nothing, {})]
        BY <1>3 DEF Freeze, Unfrozen
    <2>2. i # NoId
        BY NoIdAssumption
    <2>3. /\ import'.change = i /\ import'.status = "dry_run"
          /\ import'.play = import.play /\ import'.area = import.area
        BY <1>0, <2>1
    <2>4. /\ change'[i].what = Payload /\ change'[i].status = "pending"
          /\ \A j \in Ids \ {i} : change'[j] = change[j]
          /\ case'[i] = "draft"
        BY <1>0, <2>1 DEF Staged
    <2>5. Payload.edges \subseteq {<<import.play, import.area>>}
        BY DEF Payload, Concerns
    <2>6. \A j \in Ids : change'[j].what.kind = "hierarchy_import" => j = i
        BY <2>1, <2>2, <2>4, NoIdAssumption DEF ImportInv, ImportFollowsChange
    <2>7. \A v \in Users : user'[v].phase # "mark"
        BY <1>0, <2>1 DEF ImportInv, Request
    <2>8. ImportFollowsChange'
        BY <2>2, <2>3, <2>4, <2>5, <2>6 DEF ImportFollowsChange
    <2> QED BY <2>2, <2>3, <2>4, <2>7, <2>8 DEF ImportInv
<1>4. ASSUME NEW u \in Users, Resume(u) PROVE ImportInv'
    <2>1. /\ import.change # NoId /\ UNCHANGED <<change, case, import>>
          /\ \A v \in Users : user'[v].phase = user[v].phase \/ user'[v].phase = "submit"
        BY <1>0, <1>4 DEF Resume, Request
    <2> QED BY <2>1 DEF ImportInv, ImportFollowsChange
<1>5. ASSUME NEW u \in Users, Submit(u) PROVE ImportInv'
    <2> DEFINE i == import.change
    <2>1. i \in Ids /\ i # NoId /\ case[i] # "none"
        BY <1>0, <1>5 DEF Submit, At, ImportInv
    <2>2. /\ case' = [case EXCEPT ![i] = IF @ = "draft" THEN "pending" ELSE @]
          /\ Goes(u, "mark") /\ UNCHANGED <<change, import>>
        BY <1>5 DEF Submit
    <2> HIDE DEF i
    <2>3. case'[i] \in {"pending", "approved", "rejected"}
        BY <1>0, <2>1, <2>2 DEF CaseStates
    <2> QED BY <2>1, <2>2, <2>3 DEF ImportInv, ImportFollowsChange, i
<1>6. ASSUME NEW u \in Users, Mark(u) PROVE ImportInv'
    <2> DEFINE i == import.change
    <2>1. i \in Ids /\ i # NoId /\ case[i] \in {"pending", "approved", "rejected"}
        BY <1>0, <1>6 DEF Mark, At, ImportInv
    <2>2. /\ import' = [import EXCEPT !.status = Marked(@)]
          /\ Ends(u) /\ UNCHANGED <<change, case>>
        BY <1>6 DEF Mark
    <2>3. /\ import'.change = i /\ import'.status = Marked(import.status)
          /\ import'.play = import.play /\ import'.area = import.area
        BY <1>0, <2>2
    <2>4. \A v \in Users : user'[v].phase = user[v].phase \/ user'[v].phase = "idle"
        BY <1>0, <2>2 DEF Ends, Idle, Request
    <2> HIDE DEF i
    <2>5. import.status # "absent" /\ (import.status = "applied" <=> change[i].status = "applied")
        BY <2>1 DEF ImportInv, ImportFollowsChange, i
    <2>6. /\ import'.status # "absent"
          /\ import'.status = "applied" <=> change'[i].status = "applied"
        BY <2>2, <2>3, <2>5 DEF Marked
    <2>7. /\ \A j \in Ids : change'[j].what.kind = "hierarchy_import" => j = i
          /\ change'[i].what.edges \subseteq {<<import.play, import.area>>}
        BY <2>1, <2>2 DEF ImportInv, ImportFollowsChange, i
    <2>8. ImportFollowsChange'
        BY <2>1, <2>2, <2>3, <2>6, <2>7 DEF ImportFollowsChange
    <2>9. change'[i].status # "absent" /\ case'[i] # "none"
        BY <2>1, <2>2 DEF ImportInv, i
    <2> QED BY <2>1, <2>2, <2>3, <2>4, <2>6, <2>8, <2>9 DEF ImportInv
<1> QED BY <1>1, <1>2, <1>3, <1>4, <1>5, <1>6 DEF ImportStep

LEMMA StrategyInvInitially == Init => StrategyInv
BY InitActivation, GraphInitially, ImportInitially DEF StrategyInv

LEMMA StrategyInvStays == StrategyInv /\ [Next]_vars => StrategyInv'
<1> SUFFICES ASSUME StrategyInv, [Next]_vars PROVE StrategyInv'
    OBVIOUS
<1>0. ActivationInv /\ GraphInv /\ ImportInv /\ ActivationInv'
    BY ActivationsStay DEF StrategyInv
<1>1. CASE PlanStep /\ UNCHANGED import
    BY <1>0, <1>1, PlanStepGraph, PlanStepImport DEF StrategyInv
<1>2. ASSUME NEW w \in Workers, CommitWithImport(w) PROVE StrategyInv'
    BY <1>0, <1>2, CommitGraph, CommitImport DEF StrategyInv
<1>3. CASE ImportStep
    BY <1>0, <1>3, ImportStepGraph, ImportStepImport DEF StrategyInv
<1>4. CASE UNCHANGED vars
    <2>1. UNCHANGED <<graphVars, change, case, user, requests, import>>
        BY <1>4 DEF vars, strategyVars
    <2>2. GraphInv'
        BY <1>0, <2>1, SameGraph, UsersStay, ChangesStay, ImportStays DEF GraphInv
    <2>3. ImportInv'
        BY <1>0, <2>1 DEF ImportInv, ImportFollowsChange
    <2> QED BY <1>0, <2>2, <2>3 DEF StrategyInv
<1> QED BY <1>1, <1>2, <1>3, <1>4 DEF Next

LEMMA StrategyInvariance == Spec => []StrategyInv
BY StrategyInvInitially, StrategyInvStays, PTL DEF Spec

\* An import and the change staged for it stay one, whoever repeats the commit
\* and whenever the approval is activated: there is one such change, it holds the
\* mapping that was reviewed, and the two are applied together.
THEOREM ImportAlwaysFollowsChange == Spec => []ImportFollowsChange
<1>1. StrategyInv => ImportFollowsChange
    BY DEF StrategyInv, ImportInv
<1> QED BY <1>1, StrategyInvariance, PTL

\* No statement of a request or of an activation leaves an edge without its nodes,
\* though each was checked against a plan that others have written since; plans,
\* changes, cases and the import keep their types.
THEOREM StrategyIsWellTyped == Spec => []TypeOK
<1>1. ASSUME StrategyInv PROVE TypeOK
    <2>1. ActivationInv /\ GraphOK /\ UsersOK /\ ChangesOK /\ ImportStands
          /\ case \in [Ids -> CaseStates] /\ requests \in 0..MaxRequests
        BY <1>1 DEF StrategyInv, GraphInv
    <2>2. \A p \in Plans : edges[p] \subseteq Present(p) \X Present(p)
        BY <2>1 DEF GraphOK, Present, PresentIn
    <2>3. \A u \in Users : user[u].phase \in Phases /\ user[u].what.kind \in AllKinds
        BY <2>1 DEF UsersOK, Requests, Whats
    <2>4. \A i \in Ids : change[i].status \in {"absent", "pending", "applied"}
        BY <2>1 DEF ChangesOK, Changes
    <2>5. PlansTypeOK
        BY <2>1, <2>2, <2>3, <2>4 DEF PlansTypeOK, GraphOK, NodeStates, ActivationInv
    <2> QED BY <2>1, <2>5 DEF TypeOK, ImportStands
<1> QED BY <1>1, StrategyInvariance, PTL
=============================================================================
