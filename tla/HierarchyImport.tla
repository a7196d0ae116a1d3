--------------------------- MODULE HierarchyImport ---------------------------
(***************************************************************************)
(* The import of a portfolio hierarchy, composed with StrategyPlans.  A    *)
(* dry run keeps a diff; mappings are resolved; a commit freezes what was  *)
(* reviewed as one staged change with its case, submits the case and marks *)
(* the import, in three transactions; the activation of the change marks   *)
(* it applied in its own.                                                  *)
(*                                                                         *)
(* One import of one mapping, of a play to an area of focus that is new or *)
(* exists.  The portfolio above the area, and how a play is matched by its *)
(* name, are left out.                                                     *)
(***************************************************************************)
EXTENDS StrategyPlans

CONSTANT NoNode          \* a mapping that is not resolved

ASSUME NoNodeAssumption == NoNode \notin Nodes

VARIABLE import          \* the row of portfolio_hierarchy_imports

vars == <<strategyVars, import>>

ImportStates == {"absent", "dry_run", "submitted", "applied"}
NoImport == [status |-> "absent", plan |-> Opened, area |-> NoNode, new |-> FALSE,
             play |-> NoNode, conflict |-> FALSE, change |-> NoId]

Init == StrategyInit /\ import = NoImport

ActiveOf(p, type) == {n \in Nodes : Type(n) = type /\ state[p][n] = "active"}
Elsewhere(p, play, area) == Children(edges[p], play, "area_of_focus") \ {<<play, area>>} # {}

\* importHierarchyDryRun(): a play that is already mapped elsewhere is a
\* conflict for good.
DryRun(p, area, play) ==
    /\ import.status = "absent"
    /\ status[p] = "active"
    /\ Type(area) = "area_of_focus" /\ (area \in ActiveOf(p, Type(area)) \/ Unused(area))
    /\ play \in ActiveOf(p, "strategic_play") \cup {NoNode}
    /\ import' = [status |-> "dry_run", plan |-> p, area |-> area,
                  new |-> state[p][area] = "absent", play |-> play,
                  conflict |-> play # NoNode /\ Elsewhere(p, play, area), change |-> NoId]
    /\ UNCHANGED strategyVars

\* Mutant: a committed import may still be resolved.
UnfrozenAlways == import.status = "dry_run"

Unfrozen == import.status = "dry_run" /\ import.change = NoId

\* resolveHierarchyMatch(): under the row's lock.
Resolve(play) ==
    /\ Unfrozen
    /\ play \in ActiveOf(import.plan, "strategic_play")
    /\ import' = [import EXCEPT !.play = play]
    /\ UNCHANGED strategyVars

\* reviewedPayload(): the nodes and edges to create.
Payload ==
    Concerns("hierarchy_import", import.plan,
             IF import.new THEN {import.area} ELSE {},
             {<<import.play, import.area>>} \ edges[import.plan])

Reviewed ==
    /\ ~import.conflict
    /\ import.play \in ActiveOf(import.plan, "strategic_play")
    /\ ~Elsewhere(import.plan, import.play, import.area)
    /\ Payload.nodes # {} \/ Payload.edges # {}

\* commitHierarchyImport(), first transaction: the case and the change are made
\* once; a repeated commit goes on with them.
Freeze(u, i) ==
    /\ StartRequest(u)
    /\ Unfrozen
    /\ change[i] = NoChange /\ case[i] = "none"
    /\ status[import.plan] = "active"
    /\ Reviewed
    /\ case' = [case EXCEPT ![i] = "draft"]
    /\ change' = [change EXCEPT ![i] = Staged(Payload, "pending")]
    /\ import' = [import EXCEPT !.change = i]
    /\ user' = [user EXCEPT ![u] = Request("submit", Nothing, {})]
    /\ UNCHANGED <<graphVars, worker, activations>>

Resume(u) ==
    /\ StartRequest(u)
    /\ import.change # NoId
    /\ user' = [user EXCEPT ![u] = Request("submit", Nothing, {})]
    /\ UNCHANGED <<graphVars, change, case, worker, activations, import>>

\* Then the case is submitted, unless someone else has done it.
Submit(u) ==
    /\ At(u, "submit")
    /\ case' = [case EXCEPT ![import.change] = IF @ = "draft" THEN "pending" ELSE @]
    /\ Goes(u, "mark")
    /\ UNCHANGED <<graphVars, change, worker, activations, requests, import>>

Marked(s) == IF s = "dry_run" THEN "submitted" ELSE s

Mark(u) ==
    /\ At(u, "mark")
    /\ import' = [import EXCEPT !.status = Marked(@)]
    /\ Ends(u)
    /\ UNCHANGED <<graphVars, change, case, worker, activations, requests>>

\* activate(), with the import's row in the same transaction.
CommitWithImport(w) ==
    /\ CommitActivation(w)
    /\ import' = IF worker[w] = import.change THEN [import EXCEPT !.status = "applied"]
                 ELSE import

ImportStep ==
    \/ \E p \in Plans, area \in Nodes, play \in Nodes \cup {NoNode} : DryRun(p, area, play)
    \/ \E play \in Nodes : Resolve(play)
    \/ \E u \in Users :
          \/ \E i \in Ids : Freeze(u, i)
          \/ Resume(u) \/ Submit(u) \/ Mark(u)

Next ==
    \/ PlanStep /\ UNCHANGED import
    \/ \E w \in Workers : CommitWithImport(w)
    \/ ImportStep

Spec == Init /\ [][Next]_vars

-----------------------------------------------------------------------------
TypeOK ==
    /\ PlansTypeOK
    /\ import.status \in ImportStates /\ import.plan \in Plans
    /\ import.area \in Nodes \cup {NoNode} /\ import.play \in Nodes \cup {NoNode}
    /\ import.change \in Ids \cup {NoId}

(***************************************************************************)
(* An import and its staged change stay one: there is one such change, it  *)
(* holds the mapping that was reviewed, the import is applied exactly when *)
(* the change is, and is not marked submitted before its case is, whoever  *)
(* repeats the commit while the approval is already being activated.       *)
(***************************************************************************)
ImportFollowsChange ==
    /\ \A i \in Ids : change[i].what.kind = "hierarchy_import" => i = import.change
    /\ IF import.change = NoId THEN import.status \in {"absent", "dry_run"}
       ELSE LET c == change[import.change]
            IN  /\ c.what.edges \subseteq {<<import.play, import.area>>}
                /\ import.status = "applied" <=> c.status = "applied"
                /\ import.status = "submitted" =>
                      case[import.change] \in {"pending", "approved", "rejected"}
=============================================================================
