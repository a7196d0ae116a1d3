----------------------------- MODULE Scorecards -----------------------------
(***************************************************************************)
(* One scorecard: its perspectives, the versions of its weighting and its  *)
(* strategy maps, changed by ScorecardService on the strength of approved  *)
(* cases.  A weighting names the perspectives it weighs and the version of *)
(* a scoring rule (RuleVersions); it is published from the case that       *)
(* proposed it.  Of the queries of an operation only the last two writes   *)
(* of publishMap() share a transaction.                                    *)
(*                                                                         *)
(* Left out: names, the order of the perspectives, placements, the numbers *)
(* of a score.  A weighting's weights are the perspectives they are given  *)
(* to; a link stands for a pair of active objectives of the plan.          *)
(***************************************************************************)
EXTENDS RuleVersions

CONSTANTS
    Editors,             \* requests that change the scorecard
    Perspectives,        \* ids of scorecard.perspectives, each used once
    Links,               \* links a map may have
    MaxCases, MaxWeightings, MaxMaps,   \* bounds on the rows of each table
    MaxTime              \* bound on the clock

ASSUME BoundsAssumption == {MaxCases, MaxWeightings, MaxMaps, MaxTime} \subseteq Nat

VARIABLES
    perspectives,        \* ids of the scorecard's perspectives
    retired,             \* ids of perspectives that were removed
    cases,               \* governance's cases about the scorecard and its maps
    weightings,          \* scorecard.weighting_versions
    maps,                \* scorecard.strategy_maps with their links
    editor,              \* what each request has read so far
    now

scorecardVars == <<perspectives, retired, cases, weightings, maps, editor, now>>
vars == <<rulesVars, scorecardVars>>

\* proposal: what the case's snapshot says is to be published.
Case(kind, map, proposal) ==
    [kind |-> kind, map |-> map, proposal |-> proposal, state |-> "pending"]
Weighting(weighs, formula, from) ==
    [weighs |-> weighs, formula |-> formula, from |-> from]
NoWeighting == Weighting({}, 0, 0)
Map(state, case, links) == [state |-> state, case |-> case, links |-> links]

\* subject: a case, a map or a rule version; sees: rows read on the way.
Editing(step, subject, link, sees) ==
    [step |-> step, subject |-> subject, link |-> link, sees |-> sees]
NotEditing == Editing("idle", 0, CHOOSE l \in Links : TRUE, {})

\* A scorecard is created with the perspectives its author lists, without a case.
Init ==
    /\ RulesInit
    /\ perspectives \in SUBSET Perspectives /\ retired = {}
    /\ cases = <<>>
    /\ weightings = <<>>
    /\ maps = <<>>
    /\ editor = [e \in Editors |-> NotEditing]
    /\ now = 0

Cases == DOMAIN cases
Weightings == DOMAIN weightings
Maps == DOMAIN maps
InState(state) == {m \in Maps : maps[m].state = state}

At(e, step) == editor[e].step = step
Becomes(e, editing) == editor' = [editor EXCEPT ![e] = editing]
Ends(e) == Becomes(e, NotEditing)

-----------------------------------------------------------------------------
\* Governance, as far as a scorecard sees it.

\* submitCase()
Submit(case) ==
    /\ Len(cases) < MaxCases
    /\ cases' = Append(cases, case)

Decide(c) ==
    /\ cases[c].state = "pending"
    /\ \E verdict \in {"approved", "rejected"} :
          cases' = [cases EXCEPT ![c].state = verdict]
    /\ UNCHANGED <<rulesVars, perspectives, retired, weightings, maps, editor, now>>

\* assertApproved()
Approves(c, kind, map) ==
    cases[c].state = "approved" /\ cases[c].kind = kind /\ cases[c].map = map

-----------------------------------------------------------------------------
\* Perspectives

\* A case about the scorecard's perspectives is filed by hand.
SubmitStructure ==
    /\ Submit(Case("perspective", 0, NoWeighting))
    /\ UNCHANGED <<rulesVars, perspectives, retired, weightings, maps, editor, now>>

\* addPerspective(), removePerspective(): one statement each.  The case is not
\* compared with what is added or removed, and serves again.
AddPerspective(c, p) ==
    /\ Approves(c, "perspective", 0)
    /\ p \in Perspectives \ (perspectives \cup retired)
    /\ perspectives' = perspectives \cup {p}
    /\ UNCHANGED <<rulesVars, retired, cases, weightings, maps, editor, now>>

RemovePerspective(c, p) ==
    /\ Approves(c, "perspective", 0)
    /\ p \in perspectives
    /\ perspectives' = perspectives \ {p}
    /\ retired' = retired \cup {p}
    /\ UNCHANGED <<rulesVars, cases, weightings, maps, editor, now>>

-----------------------------------------------------------------------------
\* Weightings

\* getActiveWeighting(): of the weightings that are due the one with the latest
\* date, and of equal dates the one with the larger id, which is random.
Due == {w \in Weightings : weightings[w].weighting.from <= now}
Active ==
    {w \in Due : \A v \in Due : weightings[v].weighting.from <= weightings[w].weighting.from}

\* previewWeighting(): the weights are given to exactly the perspectives there
\* are, and the formula is in force; so must be those of the active weighting,
\* for the score it gives to be compared.  Its queries only decide whether it
\* fails.
Comparable(w) ==
    weightings[w].weighting.weighs = perspectives /\ IsPublished(weightings[w].weighting.formula)

PreviewWeighting(e, formula) ==
    /\ At(e, "idle")
    /\ perspectives # {}
    /\ IsPublished(formula)
    /\ Active # {} => \E w \in Active : Comparable(w)
    /\ Becomes(e, Editing("propose weighting", formula, NotEditing.link, perspectives))
    /\ UNCHANGED <<rulesVars, perspectives, retired, cases, weightings, maps, now>>

\* proposeWeighting(): the perspectives are listed, and compared, once more.
ProposeWeighting(e, from) ==
    /\ At(e, "propose weighting")
    /\ editor[e].sees = perspectives
    /\ Submit(Case("weighting", 0, Weighting(editor[e].sees, editor[e].subject, from)))
    /\ Ends(e)
    /\ UNCHANGED <<rulesVars, perspectives, retired, weightings, maps, now>>

\* publishWeighting(): one query after the other.
CheckProposal(e, c) ==
    /\ At(e, "idle")
    /\ Approves(c, "weighting", 0)
    /\ cases[c].proposal.weighs = perspectives
    /\ Becomes(e, Editing("formula", c, NotEditing.link, {}))
    /\ UNCHANGED <<rulesVars, perspectives, retired, cases, weightings, maps, now>>

\* requireRagRule()
RequireRule(e) ==
    /\ At(e, "formula")
    /\ IsPublished(cases[editor[e].subject].proposal.formula)
    /\ Becomes(e, [editor[e] EXCEPT !.step = "current"])
    /\ UNCHANGED <<rulesVars, perspectives, retired, cases, weightings, maps, now>>

ReadCurrent(e) ==
    /\ At(e, "current")
    /\ \E sees \in IF Active = {} THEN {{}} ELSE {{w} : w \in Active} :
          Becomes(e, [editor[e] EXCEPT !.step = "publish weighting", !.sees = sees])
    /\ UNCHANGED <<rulesVars, perspectives, retired, cases, weightings, maps, now>>

\* Mutated: no unique index.
NeverSuperseded(seen) == TRUE

\* Unique supersedes_id.
NotYetSuperseded(seen) == \A w \in Weightings : weightings[w].supersedes \cap seen = {}

PublishWeighting(e) ==
    LET c == editor[e].subject
    IN  /\ At(e, "publish weighting")
        /\ Len(weightings) < MaxWeightings
        /\ NotYetSuperseded(editor[e].sees)
        /\ weightings' = Append(weightings, [weighting |-> cases[c].proposal, case |-> c,
                                             supersedes |-> editor[e].sees])
        /\ Ends(e)
        /\ UNCHANGED <<rulesVars, perspectives, retired, cases, maps, now>>

-----------------------------------------------------------------------------
\* Strategy maps

\* draftLink(), removeDraftLink(), proposeMap(): the map is read, then written.
ChooseMap(e, step, m, l) ==
    /\ At(e, "idle")
    /\ maps[m].state = "draft"
    /\ Becomes(e, Editing(step, m, l, {}))
    /\ UNCHANGED <<rulesVars, perspectives, retired, cases, weightings, maps, now>>

\* draftLink() of a scorecard with no draft map makes one, and so does one that names
\* a map there is not, whatever drafts there are.
MissMap(e, l) ==
    /\ At(e, "idle")
    /\ Becomes(e, Editing("open map", 0, l, {}))
    /\ UNCHANGED <<rulesVars, perspectives, retired, cases, weightings, maps, now>>

OpenMap(e) ==
    /\ At(e, "open map")
    /\ Len(maps) < MaxMaps
    /\ maps' = Append(maps, Map("draft", 0, {}))
    /\ Becomes(e, Editing("link", Len(maps) + 1, editor[e].link, {}))
    /\ UNCHANGED <<rulesVars, perspectives, retired, cases, weightings, now>>

\* The state of the map is not looked at again.
WriteLink(e) ==
    LET m == editor[e].subject
        l == editor[e].link
    IN  /\ \/ At(e, "link") /\ l \notin maps[m].links
              /\ maps' = [maps EXCEPT ![m].links = @ \cup {l}]
           \/ At(e, "unlink") /\ l \in maps[m].links
              /\ maps' = [maps EXCEPT ![m].links = @ \ {l}]
        /\ Ends(e)
        /\ UNCHANGED <<rulesVars, perspectives, retired, cases, weightings, now>>

ProposeMap(e) ==
    /\ At(e, "propose map")
    /\ Submit(Case("map", editor[e].subject, NoWeighting))
    /\ Ends(e)
    /\ UNCHANGED <<rulesVars, perspectives, retired, weightings, maps, now>>

\* publishMap()
CheckMap(e, c) ==
    LET m == cases[c].map
    IN  /\ At(e, "idle")
        /\ m \in Maps /\ Approves(c, "map", m) /\ maps[m].state = "draft"
        /\ Becomes(e, Editing("publish map", c, NotEditing.link, {}))
        /\ UNCHANGED <<rulesVars, perspectives, retired, cases, weightings, maps, now>>

\* The rows the first update of the transaction finds are those published when
\* it starts: it waits for another transaction that holds one of them, and does
\* not see one published since.
FindPublished(e) ==
    /\ At(e, "publish map")
    /\ Becomes(e, [editor[e] EXCEPT !.step = "swap maps", !.sees = InState("published")])
    /\ UNCHANGED <<rulesVars, perspectives, retired, cases, weightings, maps, now>>

\* Mutated: no partial unique index.
PublishedBeside(m, demoted) == TRUE

\* strategy_maps_one_published_per_scorecard
OnlyPublished(m, demoted) == InState("published") \subseteq demoted \cup {m}

PublishMap(e) ==
    LET c == editor[e].subject
        m == cases[c].map
        demoted == editor[e].sees \ {m}
    IN  /\ At(e, "swap maps")
        /\ OnlyPublished(m, demoted)
        /\ maps' = [n \in Maps |->
                      IF n = m THEN Map("published", c, maps[n].links)
                      ELSE IF n \in demoted THEN [maps[n] EXCEPT !.state = "draft"]
                      ELSE maps[n]]
        /\ Ends(e)
        /\ UNCHANGED <<rulesVars, perspectives, retired, cases, weightings, now>>

\* A check that fails, a statement that the database refuses (a taken key, an
\* index), or the death of the process.
EditingFails(e) ==
    /\ ~At(e, "idle")
    /\ Ends(e)
    /\ UNCHANGED <<rulesVars, perspectives, retired, cases, weightings, maps, now>>

Tick ==
    /\ now < MaxTime
    /\ now' = now + 1
    /\ UNCHANGED <<rulesVars, perspectives, retired, cases, weightings, maps, editor>>

-----------------------------------------------------------------------------

StructureStep ==
    \/ SubmitStructure
    \/ \E c \in Cases :
          \/ Decide(c)
          \/ \E p \in Perspectives : AddPerspective(c, p) \/ RemovePerspective(c, p)

WeightingStep ==
    \E e \in Editors :
        \/ \E n \in Rules : PreviewWeighting(e, n)
        \/ \E from \in 0..MaxTime : ProposeWeighting(e, from)
        \/ \E c \in Cases : CheckProposal(e, c)
        \/ RequireRule(e) \/ ReadCurrent(e) \/ PublishWeighting(e)

MapStep ==
    \E e \in Editors :
        \/ \E m \in Maps, l \in Links, step \in {"link", "unlink", "propose map"} :
              ChooseMap(e, step, m, l)
        \/ \E l \in Links : MissMap(e, l)
        \/ OpenMap(e) \/ WriteLink(e) \/ ProposeMap(e)
        \/ \E c \in Cases : CheckMap(e, c)
        \/ FindPublished(e) \/ PublishMap(e)

Next ==
    \/ RuleStep /\ UNCHANGED scorecardVars
    \/ StructureStep
    \/ WeightingStep
    \/ MapStep
    \/ \E e \in Editors : EditingFails(e)
    \/ Tick

Spec == Init /\ [][Next]_vars

-----------------------------------------------------------------------------

\* At most one map of the scorecard is published, and by a case about that map.
PublishedMapIsFounded ==
    /\ \A m, n \in InState("published") : m = n
    /\ \A m \in InState("published") : Approves(maps[m].case, "map", m)

\* A weighting says what its case was approved for, with a formula that was
\* published; two weightings do not supersede the same one.
WeightingsAreFounded ==
    \A w \in Weightings :
        /\ LET c == weightings[w].case
           IN  Approves(c, "weighting", 0) /\ weightings[w].weighting = cases[c].proposal
        /\ rule[weightings[w].weighting.formula].status # "draft"
        /\ \A v \in Weightings \ {w} : weightings[v].supersedes \cap weightings[w].supersedes = {}

\* Everything a scorecard has published rests on its own approval, with several
\* requests publishing at once from what each has read, and rules that get new
\* versions meanwhile.
PublicationsAreFounded == PublishedMapIsFounded /\ WeightingsAreFounded
=============================================================================
