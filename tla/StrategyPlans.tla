---------------------------- MODULE StrategyPlans ----------------------------
(***************************************************************************)
(* Strategy plan versions, the graph of nodes and edges of each, and the   *)
(* changes staged for approval.  A request reads the plan first: in an     *)
(* active plan its change is staged under an approval case, in a draft one *)
(* it is written at once.  Nothing is held between the read and the write. *)
(* An approved case is announced, at least once, to workers that activate  *)
(* the change the case names.                                              *)
(*                                                                         *)
(* Names are left out.  A node is known by its lineage: the copy that      *)
(* carryForward() makes in another plan is the same element of Nodes.      *)
(* The relationship rules give each pair of types one edge type at most.   *)
(***************************************************************************)
EXTENDS Naturals, FiniteSets

CONSTANTS
    Plans, Nodes,
    Type(_),             \* type of a node
    Rules,               \* strategy.relationship_rules
    Opened,              \* the plan that is active at first
    Charter,             \* its nodes
    CharterEdges,        \* its edges
    Ids,                 \* identities of staged changes
    NoId,
    Users, Workers,
    MaxRequests          \* bound on requests of users

ASSUME NoIdAssumption == NoId \notin Ids
ASSUME CharterAssumption ==
    Opened \in Plans /\ Charter \subseteq Nodes /\ CharterEdges \subseteq Charter \X Charter
ASSUME BoundsAssumption == MaxRequests \in Nat

VARIABLES
    status,              \* plan_versions.status, or "absent"
    state,               \* strategy_nodes.state by plan, or "absent"
    edges,               \* strategy_edges by plan
    change,              \* staged_changes by identity, or NoChange
    case,                \* the approval case that names a change
    user,                \* what each request has read so far
    worker,              \* the change each worker has locked and checked
    activations,         \* how often a change was applied
    requests

graphVars == <<status, state, edges>>
strategyVars == <<graphVars, change, case, user, worker, activations, requests>>

Kinds == {"node_create", "node_update", "node_retire", "edge_link", "edge_unlink"}
AllKinds == Kinds \cup {"hierarchy_import", "open", "close", "carry", "none"}
Phases == {"idle", "stage", "write", "insert", "open", "opening", "close", "carry",
           "submit", "mark"}
CaseStates == {"none", "draft", "pending", "approved", "rejected"}

Concerns(kind, p, ns, es) == [kind |-> kind, plan |-> p, nodes |-> ns, edges |-> es]
Nothing == Concerns("none", Opened, {}, {})
Staged(what, s) == [what |-> what, status |-> s]
NoChange == Staged(Nothing, "absent")
Request(phase, what, plans) == [phase |-> phase, what |-> what, plans |-> plans]
Idle == Request("idle", Nothing, {})

At(u, phase) == user[u].phase = phase
Goes(u, phase) == user' = [user EXCEPT ![u].phase = phase]
Ends(u) == user' = [user EXCEPT ![u] = Idle]

Present(p) == {n \in Nodes : state[p][n] # "absent"}
Unused(n) ==
    /\ \A p \in Plans : state[p][n] = "absent"
    /\ \A i \in Ids : n \notin change[i].what.nodes
    /\ \A u \in Users : n \notin user[u].what.nodes

Children(es, n, type) == {e \in es : e[1] = n /\ Type(e[2]) = type}

\* validate_strategy_edge() and strategy_edges_unique, for what is committed.
Linkable(what) ==
    \A e \in what.edges :
        /\ e \notin edges[what.plan]
        /\ {e[1], e[2]} \subseteq Present(what.plan) \cup what.nodes
        /\ \E r \in Rules :
              /\ r.from = Type(e[1]) /\ r.to = Type(e[2])
              /\ Cardinality(Children(edges[what.plan], e[1], r.to)) < r.max

\* validateMinimumCardinality().
MinimumHolds(p) ==
    \A n \in Present(p), r \in Rules :
        r.from = Type(n) /\ state[p][n] # "retired" =>
            Cardinality(Children(edges[p], n, r.to)) >= r.min

\* The new state of a node, written at once or by an activation.
Becomes(kind, old, fresh) ==
    CASE kind = "node_retire" -> "retired"
      [] kind = "node_update" -> IF fresh = "draft" THEN old ELSE "active"
      [] OTHER -> fresh

Writes(what, fresh) ==
    /\ state' = [state EXCEPT ![what.plan] = [n \in Nodes |->
                    IF n \in what.nodes THEN Becomes(what.kind, @[n], fresh) ELSE @[n]]]
    /\ edges' = [edges EXCEPT ![what.plan] =
                    IF what.kind = "edge_unlink" THEN @ \ what.edges ELSE @ \cup what.edges]

StrategyInit ==
    /\ status = [p \in Plans |-> IF p = Opened THEN "active" ELSE "absent"]
    /\ state = [p \in Plans |-> [n \in Nodes |->
                   IF p = Opened /\ n \in Charter THEN "active" ELSE "absent"]]
    /\ edges = [p \in Plans |-> IF p = Opened THEN CharterEdges ELSE {}]
    /\ change = [i \in Ids |-> NoChange]
    /\ case = [i \in Ids |-> "none"]
    /\ user = [u \in Users |-> Idle]
    /\ worker = [w \in Workers |-> NoId]
    /\ activations = [i \in Ids |-> 0]
    /\ requests = 0

-----------------------------------------------------------------------------
\* createNode() .. unlinkEdge(): what a request concerns, and what it reads.

Targets(p) ==
    {Concerns("node_create", p, {n}, {}) : n \in {m \in Nodes : Unused(m)}} \cup
    {Concerns(k, p, {n}, {}) : k \in {"node_update", "node_retire"}, n \in Present(p)} \cup
    {Concerns("edge_link", p, {}, {e}) : e \in Present(p) \X Present(p)} \cup
    {Concerns("edge_unlink", p, {}, {e}) : e \in edges[p]}

\* Only a change of the active plan, or of an active node, needs an approval.
NeedsApproval(what) ==
    \/ status[what.plan] = "active"
    \/ /\ what.kind \in {"node_update", "node_retire"}
       /\ \E n \in what.nodes : state[what.plan][n] = "active"

StartRequest(u) == At(u, "idle") /\ requests < MaxRequests /\ requests' = requests + 1

ReadPlan(u, what) ==
    /\ StartRequest(u)
    /\ status[what.plan] # "absent"
    /\ IF NeedsApproval(what) THEN user' = [user EXCEPT ![u] = Request("stage", what, {})]
       ELSE /\ status[what.plan] = "draft" \/ what.kind = "node_retire"
            /\ user' = [user EXCEPT ![u] = Request("write", what, {})]
    /\ UNCHANGED <<graphVars, change, case, worker, activations>>

\* stage(): only these kinds take the identity that a case already names; the
\* others are given a fresh one, which no case names, and stay pending.
Named == {"node_create", "edge_link"}

Stage(u, i) ==
    /\ At(u, "stage")
    /\ change[i] = NoChange
    /\ user[u].what.kind \notin Named => case[i] = "none"
    /\ change' = [change EXCEPT ![i] = Staged(user[u].what, "pending")]
    /\ Ends(u)
    /\ UNCHANGED <<graphVars, case, worker, activations, requests>>

\* The statement on a draft plan.  An edge is checked before it is visible.
WriteDraft(u) ==
    /\ At(u, "write")
    /\ IF user[u].what.kind = "edge_link"
       THEN Linkable(user[u].what) /\ Goes(u, "insert") /\ UNCHANGED <<state, edges>>
       ELSE Writes(user[u].what, "draft") /\ Ends(u)
    /\ UNCHANGED <<status, change, case, worker, activations, requests>>

InsertEdge(u) ==
    /\ At(u, "insert")
    /\ Writes(user[u].what, "draft")
    /\ Ends(u)
    /\ UNCHANGED <<status, change, case, worker, activations, requests>>

CreatePlan(p) ==
    /\ status[p] = "absent"
    /\ status' = [status EXCEPT ![p] = "draft"]
    /\ UNCHANGED <<state, edges, change, case, user, worker, activations, requests>>

\* openPlanVersion(): check, then in a transaction close the active plans it
\* sees, activate this one and its draft nodes.
ReadDraft(u, p) ==
    /\ StartRequest(u)
    /\ status[p] = "draft"
    /\ MinimumHolds(p)
    /\ user' = [user EXCEPT ![u] = Request("open", Concerns("open", p, {}, {}), {})]
    /\ UNCHANGED <<graphVars, change, case, worker, activations>>

CloseOthers(u) ==
    /\ At(u, "open")
    /\ user' = [user EXCEPT ![u].phase = "opening",
                   ![u].plans = {p \in Plans \ {user[u].what.plan} : status[p] = "active"}]
    /\ UNCHANGED <<graphVars, change, case, worker, activations, requests>>

\* Mutant: nothing prevents a second active plan.
OneActiveUnchecked(p, closed) == TRUE

\* plan_versions_one_active_idx.
OneActive(p, closed) == \A q \in Plans \ (closed \cup {p}) : status[q] # "active"

Open(u) ==
    /\ At(u, "opening")
    /\ LET p == user[u].what.plan
           closed == user[u].plans
       IN  IF OneActive(p, closed)
           THEN /\ status' = [q \in Plans |-> IF q = p THEN "active"
                                ELSE IF q \in closed THEN "closed" ELSE status[q]]
                /\ state' = [state EXCEPT ![p] = [n \in Nodes |->
                                IF @[n] = "draft" THEN "active" ELSE @[n]]]
           ELSE UNCHANGED <<status, state>>
    /\ Ends(u)
    /\ UNCHANGED <<edges, change, case, worker, activations, requests>>

\* closePlanVersion().
ReadActive(u, p) ==
    /\ StartRequest(u)
    /\ status[p] = "active"
    /\ user' = [user EXCEPT ![u] = Request("close", Concerns("close", p, {}, {}), {})]
    /\ UNCHANGED <<graphVars, change, case, worker, activations>>

Close(u) ==
    /\ At(u, "close")
    /\ status' = [status EXCEPT ![user[u].what.plan] = "closed"]
    /\ Ends(u)
    /\ UNCHANGED <<state, edges, change, case, worker, activations, requests>>

\* carryForward(): the active nodes are read, then the edges between them.
ReadNodes(u, p) ==
    /\ StartRequest(u)
    /\ status[p] \in {"active", "closed"}
    /\ user' = [user EXCEPT ![u] =
                  Request("carry", Concerns("carry", p,
                             {n \in Nodes : state[p][n] = "active"}, {}), {})]
    /\ UNCHANGED <<graphVars, change, case, worker, activations>>

\* Mutant: edges are copied whatever became of their ends.
CarriedAll(p, ns) == edges[p]

Carried(p, ns) == edges[p] \cap (ns \X ns)

CarryForward(u, q) ==
    /\ At(u, "carry")
    /\ status[q] = "absent"
    /\ LET p == user[u].what.plan
           ns == user[u].what.nodes
       IN  /\ status' = [status EXCEPT ![q] = "draft"]
           /\ state' = [state EXCEPT ![q] = [n \in Nodes |->
                           IF n \in ns THEN "draft" ELSE "absent"]]
           /\ edges' = [edges EXCEPT ![q] = Carried(p, ns)]
    /\ Ends(u)
    /\ UNCHANGED <<change, case, worker, activations, requests>>

-----------------------------------------------------------------------------
\* Governance: the case that names a change is submitted before the change is
\* staged with it, and is decided once.

SubmitCase(i) ==
    /\ case[i] = "none"
    /\ change[i] = NoChange
    /\ case' = [case EXCEPT ![i] = "pending"]
    /\ UNCHANGED <<graphVars, change, user, worker, activations, requests>>

Decide(i, decision) ==
    /\ case[i] = "pending"
    /\ case' = [case EXCEPT ![i] = decision]
    /\ UNCHANGED <<graphVars, change, user, worker, activations, requests>>

\* Mutant: the row is not locked.
RowFreeAlways(i) == TRUE

\* SELECT .. FOR UPDATE waits for whoever has the row.
RowFree(i) == \A w \in Workers : worker[w] # i

\* activate(): the pending change under its lock.
Selectable(i) == change[i].status = "pending"

\* The approval of a case is delivered, perhaps again: the worker locks the
\* change and runs its statements; one that the database refuses rolls back.
Activate(w, i) ==
    /\ worker[w] = NoId
    /\ case[i] = "approved"
    /\ RowFree(i)
    /\ Selectable(i)
    /\ change[i].what.kind \in {"edge_link", "hierarchy_import"} => Linkable(change[i].what)
    /\ worker' = [worker EXCEPT ![w] = i]
    /\ UNCHANGED <<graphVars, change, case, user, activations, requests>>

CommitActivation(w) ==
    /\ worker[w] # NoId
    /\ LET i == worker[w]
       IN  /\ Writes(change[i].what, "active")
           /\ change' = [change EXCEPT ![i].status = "applied"]
           /\ activations' = [activations EXCEPT ![i] = @ + 1]
    /\ worker' = [worker EXCEPT ![w] = NoId]
    /\ UNCHANGED <<status, case, user, requests>>

WorkerDies(w) ==
    /\ worker[w] # NoId
    /\ worker' = [worker EXCEPT ![w] = NoId]
    /\ UNCHANGED <<graphVars, change, case, user, activations, requests>>

\* The request dies, or the database refuses its statement.
RequestFails(u) ==
    /\ ~At(u, "idle")
    /\ Ends(u)
    /\ UNCHANGED <<graphVars, change, case, worker, activations, requests>>

PlanStep ==
    \/ \E p \in Plans : CreatePlan(p)
    \/ \E u \in Users :
          \/ \E p \in Plans : \E what \in Targets(p) : ReadPlan(u, what)
          \/ \E i \in Ids : Stage(u, i)
          \/ WriteDraft(u) \/ InsertEdge(u) \/ CloseOthers(u) \/ Open(u) \/ Close(u)
          \/ \E p \in Plans :
                ReadDraft(u, p) \/ ReadActive(u, p) \/ ReadNodes(u, p) \/ CarryForward(u, p)
          \/ RequestFails(u)
    \/ \E i \in Ids : SubmitCase(i) \/ \E d \in {"approved", "rejected"} : Decide(i, d)
    \/ \E w \in Workers : WorkerDies(w) \/ \E i \in Ids : Activate(w, i)

StrategySpec ==
    StrategyInit /\ [][PlanStep \/ \E w \in Workers : CommitActivation(w)]_strategyVars

-----------------------------------------------------------------------------
PlansTypeOK ==
    /\ status \in [Plans -> {"absent", "draft", "active", "closed"}]
    /\ state \in [Plans -> [Nodes -> {"absent", "draft", "active", "retired"}]]
    /\ \A p \in Plans : edges[p] \subseteq Present(p) \X Present(p)
    /\ DOMAIN change = Ids
    /\ \A i \in Ids : change[i].status \in {"absent", "pending", "applied"}
    /\ case \in [Ids -> CaseStates]
    /\ \A u \in Users : user[u].phase \in Phases /\ user[u].what.kind \in AllKinds
    /\ worker \in [Workers -> Ids \cup {NoId}]
    /\ activations \in [Ids -> Nat]
    /\ requests \in 0..MaxRequests

(***************************************************************************)
(* There is at most one active plan, though several may be opened at once  *)
(* by requests that each saw another state of the plans.                   *)
(***************************************************************************)
OneActivePlan == \A p, q \in Plans : status[p] = "active" /\ status[q] = "active" => p = q

(***************************************************************************)
(* "Applies exactly one approved staged strategy change": however often    *)
(* and by however many workers an approval is handled, a change is applied *)
(* once, and only if its case was approved.                                *)
(***************************************************************************)
AppliedOnceAndApproved ==
    \A i \in Ids :
        /\ activations[i] = IF change[i].status = "applied" THEN 1 ELSE 0
        /\ activations[i] > 0 => case[i] = "approved"
=============================================================================
