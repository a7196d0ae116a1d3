-------------------------- MODULE ScorecardsProofs --------------------------
(* What a scorecard has published is founded, and its rules' versions form *)
(* one line that never goes back, for any number of requests of each kind. *)
EXTENDS Scorecards, TLAPS

RowType == [status : RuleStatuses, current : BOOLEAN, supersedes : Nat]

\* What a request was decided from is a version there is; rows stay.
RulesInv ==
    /\ rule \in Seq(RowType)
    /\ DOMAIN author = Authors
    /\ \A a \in Authors : author[a].row \in Nat /\ author[a].row <= Len(rule)
    /\ \A a \in Authors : Does(a, "publish") => author[a].row # 0
    /\ VersionsFormOneLine

\* A function over the rows of a table is such a table again.
LEMMA RowsAgain ==
    ASSUME NEW S, NEW s \in Seq(S), NEW t, t \in [DOMAIN s -> S]
    PROVE  t \in Seq(S) /\ Len(t) = Len(s) /\ DOMAIN t = DOMAIN s
<1>1. Len(s) \in Nat /\ DOMAIN s = 1..Len(s)
    OBVIOUS
<1>2. t \in [1..Len(s) -> S]
    BY <1>1
<1>3. t \in Seq(S)
    BY <1>1, <1>2
<1> QED BY <1>1, <1>2, <1>3

\* What a step may do to the rows: they stay, with what they supersede; a row
\* that is not a draft does not become one, and a published row gives way only
\* to the one after it, which is then published.
RowsKept ==
    /\ DOMAIN rule \subseteq DOMAIN rule'
    /\ \A n \in DOMAIN rule :
          /\ rule'[n].supersedes = rule[n].supersedes
          /\ rule[n].status # "draft" => rule'[n].status # "draft"
          /\ rule[n].status = "published" =>
                \/ rule'[n].status = "published"
                \/ n + 1 \in DOMAIN rule' /\ rule'[n + 1].status = "published"

LEMMA RulesInitially == RulesInit => RulesInv
<1> SUFFICES ASSUME RulesInit PROVE RulesInv
    OBVIOUS
<1>1. rule = <<>> /\ \A a \in Authors : author[a] = NotWriting
    BY DEF RulesInit
<1>2. NotWriting.step = "idle" /\ NotWriting.row = 0
    BY DEF NotWriting, Writing
<1>3. Len(rule) = 0 /\ DOMAIN rule = {}
    BY <1>1
<1> QED BY <1>1, <1>2, <1>3 DEF RulesInit, RulesInv, VersionsFormOneLine, Does, Rules

\* A step of one request that only reads, or ends.
LEMMA ReadingKeeps ==
    ASSUME RulesInv, UNCHANGED rule, NEW a \in Authors, NEW step, NEW row \in Nat,
           Continues(a, step, row), row <= Len(rule), step = "publish" => row # 0
    PROVE  RulesInv' /\ RowsKept
<1>1. \A b \in Authors :
         author'[b] = IF b = a THEN Writing(step, row) ELSE author[b]
    BY DEF RulesInv, Continues
<1>2. Writing(step, row).step = step /\ Writing(step, row).row = row
    BY DEF Writing
<1>3. VersionsFormOneLine' /\ RowsKept
    BY DEF RulesInv, VersionsFormOneLine, Rules, RowsKept
<1>4. DOMAIN author' = Authors
    BY DEF RulesInv, Continues
<1> QED BY <1>1, <1>2, <1>3, <1>4 DEF RulesInv, Does

LEMMA CommitDraftKeeps ==
    ASSUME RulesInv, NEW a \in Authors, CommitDraft(a)
    PROVE  RulesInv' /\ RowsKept
<1> DEFINE n == author[a].row
           new == RuleRow("draft", TRUE, n)
<1>1. n \in Nat /\ n <= Len(rule) /\ Len(rule) \in Nat /\ DOMAIN rule = 1..Len(rule)
    BY DEF RulesInv
<1>2. CASE ~Fits(n + 1, n)
    <2>1. UNCHANGED rule /\ Continues(a, "idle", 0)
        BY <1>2 DEF CommitDraft, Finishes
    <2> QED BY <2>1, <1>1, ReadingKeeps
<1>3. CASE Fits(n + 1, n)
    <2>1. n = Len(rule)
        BY <1>1, <1>3 DEF Fits, Rules
    <2> DEFINE d == IF Does(a, "demote") THEN Demoted(n) ELSE rule
    <2>2. /\ d \in [DOMAIN rule -> RowType]
          /\ \A m \in DOMAIN rule : d[m].status = rule[m].status
                                    /\ d[m].supersedes = rule[m].supersedes
        <3>1. \A m \in DOMAIN rule : rule[m] \in RowType
            BY DEF RulesInv
        <3>2. d \in {rule, Demoted(n)} /\ Demoted(n) = [m \in DOMAIN rule |->
                     IF m = n THEN RuleRow(rule[m].status, FALSE, rule[m].supersedes)
                     ELSE rule[m]]
            BY DEF Demoted, Rules
        <3>3. rule = [m \in DOMAIN rule |-> rule[m]]
            BY DEF RulesInv
        <3> HIDE DEF d
        <3>4. ASSUME NEW m \in DOMAIN rule
              PROVE  /\ d[m] \in RowType /\ d[m].status = rule[m].status
                     /\ d[m].supersedes = rule[m].supersedes
            <4>1. CASE d[m] = rule[m]
                BY <3>1, <4>1
            <4>2. CASE d[m] = RuleRow(rule[m].status, FALSE, rule[m].supersedes)
                <5>1. rule[m].status \in RuleStatuses /\ rule[m].supersedes \in Nat
                    BY <3>1 DEF RowType
                <5> QED BY <4>2, <5>1 DEF RuleRow, RowType
            <4> QED BY <3>2, <4>1, <4>2
        <3>5. d = [m \in DOMAIN rule |-> d[m]]
            BY <3>2, <3>3
        <3> QED BY <3>4, <3>5
    <2>3. d \in Seq(RowType) /\ Len(d) = Len(rule) /\ DOMAIN d = DOMAIN rule
        BY <2>2, RowsAgain DEF RulesInv
    <2>4. new \in RowType /\ new.supersedes = n /\ new.status = "draft"
        BY <1>1 DEF RuleRow, RowType, RuleStatuses
    <2>5. rule' = Append(d, new) /\ Continues(a, "idle", 0)
        BY <1>3 DEF CommitDraft, Finishes
    <2> HIDE DEF d, new
    <2>6. /\ rule' \in Seq(RowType) /\ Len(rule') = Len(rule) + 1
          /\ DOMAIN rule' = 1..Len(rule) + 1
          /\ \A m \in DOMAIN rule : rule'[m] = d[m]
          /\ rule'[Len(rule) + 1] = new
        BY <1>1, <2>3, <2>4, <2>5
    <2>7. RowsKept
        BY <1>1, <2>2, <2>6 DEF RowsKept
    <2>8. VersionsFormOneLine'
        <3> SUFFICES ASSUME NEW m \in DOMAIN rule' PROVE rule'[m].supersedes = m - 1
            BY DEF VersionsFormOneLine, Rules
        <3>1. CASE m \in DOMAIN rule
            BY <2>2, <2>6, <3>1 DEF RulesInv, VersionsFormOneLine, Rules
        <3>2. CASE m = Len(rule) + 1
            BY <1>1, <2>1, <2>4, <2>6, <3>2
        <3> QED BY <1>1, <2>6, <3>1, <3>2
    <2>9. \A b \in Authors : author'[b] = IF b = a THEN Writing("idle", 0) ELSE author[b]
        BY <2>5 DEF RulesInv, Continues
    <2>10. Writing("idle", 0).step = "idle" /\ Writing("idle", 0).row = 0
        BY DEF Writing
    <2>11. DOMAIN author' = Authors
        BY <2>5 DEF RulesInv, Continues
    <2> QED BY <1>1, <2>6, <2>7, <2>8, <2>9, <2>10, <2>11 DEF RulesInv, Does
<1> QED BY <1>2, <1>3

LEMMA CommitPublishKeeps ==
    ASSUME RulesInv, NEW a \in Authors, CommitPublish(a)
    PROVE  RulesInv' /\ RowsKept
<1> DEFINE n == author[a].row
<1>1. /\ n \in Nat /\ n # 0 /\ n <= Len(rule)
      /\ Len(rule) \in Nat /\ DOMAIN rule = 1..Len(rule)
    BY DEF RulesInv, CommitPublish
<1>2. n \in DOMAIN rule /\ rule[n].supersedes = n - 1
    BY <1>1 DEF RulesInv, VersionsFormOneLine, Rules
<1>3. \A m \in DOMAIN rule : rule[m] \in RowType
    BY DEF RulesInv
<1>4. \A m \in DOMAIN rule :
         rule'[m] = IF m = n THEN RuleRow("published", TRUE, rule[m].supersedes)
                    ELSE IF m = n - 1 THEN RuleRow("superseded", FALSE, rule[m].supersedes)
                    ELSE rule[m]
    BY <1>2 DEF CommitPublish, Rules
<1>5. ASSUME NEW m \in DOMAIN rule
      PROVE  /\ rule'[m] \in RowType
             /\ rule'[m].supersedes = rule[m].supersedes
             /\ rule'[m].status = IF m = n THEN "published"
                                  ELSE IF m = n - 1 THEN "superseded" ELSE rule[m].status
    <2>1. rule[m].supersedes \in Nat
        BY <1>3 DEF RowType
    <2>2. "published" \in RuleStatuses /\ "superseded" \in RuleStatuses
        BY DEF RuleStatuses
    <2>3. CASE m = n
        <3>1. rule'[m] = RuleRow("published", TRUE, rule[m].supersedes)
            BY <1>4, <2>3
        <3> QED BY <2>1, <2>2, <2>3, <3>1 DEF RuleRow, RowType
    <2>4. CASE m = n - 1
        <3>1. m # n
            BY <1>1, <2>4
        <3>2. rule'[m] = RuleRow("superseded", FALSE, rule[m].supersedes)
            BY <1>4, <2>4, <3>1, Zenon
        <3> QED BY <2>1, <2>2, <2>4, <3>1, <3>2 DEF RuleRow, RowType
    <2>5. CASE m # n /\ m # n - 1
        BY <1>3, <1>4, <2>5
    <2> QED BY <2>3, <2>4, <2>5
<1>6. rule' \in Seq(RowType) /\ Len(rule') = Len(rule) /\ DOMAIN rule' = DOMAIN rule
    <2>1. rule' = [m \in DOMAIN rule |-> rule'[m]]
        BY DEF CommitPublish, Rules
    <2> QED BY <1>5, <2>1, RowsAgain DEF RulesInv
<1>8. RowsKept
    BY <1>1, <1>2, <1>5, <1>6 DEF RowsKept
<1>9. VersionsFormOneLine'
    BY <1>5, <1>6 DEF RulesInv, VersionsFormOneLine, Rules
<1>10. \A b \in Authors : author'[b] = IF b = a THEN Writing("idle", 0) ELSE author[b]
    BY DEF RulesInv, CommitPublish, Finishes, Continues
<1>11. Writing("idle", 0).step = "idle" /\ Writing("idle", 0).row = 0
    BY DEF Writing
<1>12. DOMAIN author' = Authors
    BY DEF RulesInv, CommitPublish, Finishes, Continues
<1> QED BY <1>1, <1>6, <1>8, <1>9, <1>10, <1>11, <1>12 DEF RulesInv, Does

LEMMA RuleStepKeeps == RulesInv /\ RuleStep => RulesInv' /\ RowsKept
<1> SUFFICES ASSUME RulesInv, NEW a \in Authors,
                    \/ FindCurrent(a) \/ FindLatest(a) \/ CommitDraft(a)
                    \/ FindDraft(a) \/ CommitPublish(a) \/ WritingFails(a)
             PROVE  RulesInv' /\ RowsKept
    BY DEF RuleStep
<1>1. Len(rule) \in Nat /\ DOMAIN rule = 1..Len(rule)
    BY DEF RulesInv
<1>2. CASE FindCurrent(a)
    <2>1. UNCHANGED rule /\ \E n \in 0..Len(rule) :
             Continues(a, "demote", n) \/ Continues(a, "latest", n)
        BY <1>1, <1>2 DEF FindCurrent, Current, Rules
    <2> QED BY <1>1, <2>1, ReadingKeeps
<1>3. CASE FindLatest(a)
    BY <1>1, <1>3, ReadingKeeps DEF FindLatest
<1>4. CASE FindDraft(a)
    <2>1. UNCHANGED rule /\ \E n \in 1..Len(rule) : Continues(a, "publish", n)
        BY <1>1, <1>4 DEF FindDraft, Current, Rules
    <2> QED BY <1>1, <2>1, ReadingKeeps
<1>5. CASE WritingFails(a)
    BY <1>1, <1>5, ReadingKeeps DEF WritingFails, Finishes
<1> QED BY <1>2, <1>3, <1>4, <1>5, CommitDraftKeeps, CommitPublishKeeps

\* The scorecards' steps leave the rules alone.
LEMMA NextKeepsRules == RulesInv /\ [Next]_vars => RulesInv' /\ RowsKept
<1> SUFFICES ASSUME RulesInv, [Next]_vars PROVE RulesInv' /\ RowsKept
    OBVIOUS
<1>1. CASE RuleStep
    BY <1>1, RuleStepKeeps
<1>2. CASE UNCHANGED rulesVars
    BY <1>2 DEF rulesVars, RulesInv, VersionsFormOneLine, RowsKept, Rules, Does
<1>3. RuleStep \/ UNCHANGED rulesVars
    BY DEF Next, vars, StructureStep, WeightingStep, MapStep, SubmitStructure, Decide,
       AddPerspective, RemovePerspective, PreviewWeighting, ProposeWeighting,
       CheckProposal, RequireRule, ReadCurrent, PublishWeighting, ChooseMap, MissMap,
       OpenMap, WriteLink, ProposeMap, CheckMap, FindPublished, PublishMap,
       EditingFails, Tick
<1> QED BY <1>1, <1>2, <1>3

LEMMA RulesInvariance == Spec => []RulesInv
<1>1. Init => RulesInv
    BY RulesInitially DEF Init
<1> QED BY <1>1, NextKeepsRules, PTL DEF Spec

\* The versions of a rule form one line, for any number of requests that draft
\* from the same version or publish at once.
THEOREM VersionsStayInLine == Spec => []VersionsFormOneLine
<1>1. RulesInv => VersionsFormOneLine
    BY DEF RulesInv
<1> QED BY <1>1, RulesInvariance, PTL

\* Once a version of a rule is published there is always a published version
\* at least as new, also when a publication that was overtaken commits late.
THEOREM PublicationStays == Spec => PublishedNeverGoesBack
<1>1. ASSUME RulesInv, RowsKept
      PROVE  \A n \in Rules : IsPublished(n) =>
                \E m \in DOMAIN rule' : m >= n /\ rule'[m].status = "published"
    <2>1. \A n \in DOMAIN rule : n \in Nat
        BY <1>1 DEF RulesInv
    <2> QED BY <1>1, <2>1 DEF RowsKept, IsPublished, Rules
<1>2. RulesInv /\ [Next]_vars =>
         [\A n \in Rules : IsPublished(n) =>
             \E m \in DOMAIN rule' : m >= n /\ rule'[m].status = "published"]_rulesVars
    BY <1>1, NextKeepsRules
<1> QED BY <1>2, RulesInvariance, PTL DEF Spec, PublishedNeverGoesBack
-----------------------------------------------------------------------------
\* What a scorecard publishes.

WeightingType == [weighs : SUBSET Perspectives, formula : Nat, from : Nat]
CaseType ==
    [kind : {"perspective", "weighting", "map"}, map : Nat, proposal : WeightingType,
     state : {"pending", "approved", "rejected"}]
PublishedWeighting == [weighting : WeightingType, case : Nat, supersedes : SUBSET Nat]
MapType == [state : {"draft", "published"}, case : Nat, links : SUBSET Links]

TablesTyped ==
    /\ perspectives \subseteq Perspectives
    /\ cases \in Seq(CaseType)
    /\ weightings \in Seq(PublishedWeighting)
    /\ maps \in Seq(MapType)
    /\ DOMAIN editor = Editors

\* A version of the rule that was published once.
Backed(n) == n \in Rules /\ rule[n].status # "draft"

\* What a request has in hand is still so when it writes.
Sound(r) ==
    /\ r.subject \in Nat
    /\ r.step = "propose weighting" => r.sees \subseteq Perspectives
    /\ r.step \in {"formula", "current", "publish weighting"} =>
          r.subject \in Cases /\ Approves(r.subject, "weighting", 0)
    /\ r.step \in {"current", "publish weighting"} => Backed(cases[r.subject].proposal.formula)
    /\ r.step = "publish weighting" => r.sees \subseteq Nat
    /\ r.step \in {"open map", "link", "unlink"} => r.link \in Links
    /\ r.step \in {"publish map", "swap maps"} =>
          /\ r.subject \in Cases /\ cases[r.subject].map \in Maps
          /\ Approves(r.subject, "map", cases[r.subject].map)

\* The same of what is published.
WeightingSound(w) ==
    /\ weightings[w].case \in Cases
    /\ Backed(weightings[w].weighting.formula)
MapSound(m) == maps[m].state = "published" => maps[m].case \in Cases

ScorecardInv ==
    /\ RulesInv
    /\ TablesTyped
    /\ \A e \in Editors : Sound(editor[e])
    /\ \A w \in Weightings : WeightingSound(w)
    /\ \A m \in Maps : MapSound(m)
    /\ PublicationsAreFounded

\* Cases and maps stay, and an approved case stays as it is.
CasesKept ==
    /\ Cases \subseteq DOMAIN cases'
    /\ Maps \subseteq DOMAIN maps'
    /\ \A c \in Cases :
          /\ cases'[c].kind = cases[c].kind /\ cases'[c].map = cases[c].map
          /\ cases'[c].proposal = cases[c].proposal
          /\ cases[c].state = "approved" => cases'[c].state = "approved"

LEMMA BackedStays ==
    ASSUME RowsKept, NEW n, Backed(n) PROVE Backed(n)'
BY DEF RowsKept, Backed, Rules

LEMMA ApprovalStays ==
    ASSUME CasesKept, NEW c \in Cases, NEW kind, NEW map, Approves(c, kind, map)
    PROVE  Approves(c, kind, map)'
BY DEF CasesKept, Approves

LEMMA SoundStays ==
    ASSUME RowsKept, CasesKept, NEW r, Sound(r) PROVE Sound(r)'
<1>1. ASSUME r.step \in {"formula", "current", "publish weighting"}
      PROVE  /\ r.subject \in DOMAIN cases' /\ Approves(r.subject, "weighting", 0)'
             /\ cases'[r.subject].proposal = cases[r.subject].proposal
    BY <1>1, ApprovalStays DEF Sound, CasesKept
<1>2. ASSUME r.step \in {"current", "publish weighting"}
      PROVE  Backed(cases[r.subject].proposal.formula)'
    <2>1. Backed(cases[r.subject].proposal.formula)
        BY <1>2 DEF Sound
    <2> QED BY <1>1, <1>2, <2>1 DEF RowsKept, Backed, Rules
<1>3. ASSUME r.step \in {"publish map", "swap maps"}
      PROVE  /\ r.subject \in DOMAIN cases' /\ cases'[r.subject].map \in DOMAIN maps'
             /\ Approves(r.subject, "map", cases[r.subject].map)'
    <2>1. /\ r.subject \in Cases /\ cases[r.subject].map \in Maps
          /\ Approves(r.subject, "map", cases[r.subject].map)
        BY <1>3 DEF Sound
    <2> QED BY <2>1 DEF CasesKept, Approves
<1> QED BY <1>1, <1>2, <1>3 DEF Sound, Cases, Maps

LEMMA EditorsSound ==
    ASSUME ScorecardInv, RowsKept, CasesKept, NEW e \in Editors, NEW r,
           Becomes(e, r), Sound(r)'
    PROVE  DOMAIN editor' = Editors /\ \A f \in Editors : Sound(editor[f])'
<1>1. DOMAIN editor' = Editors /\ \A f \in Editors : editor'[f] = IF f = e THEN r ELSE editor[f]
    BY DEF ScorecardInv, TablesTyped, Becomes
<1>2. ASSUME NEW f \in Editors PROVE Sound(editor[f])'
    <2>1. CASE f = e
        <3>1. editor'[f] = r
            BY <1>1, <2>1
        <3> QED BY <3>1
    <2>2. CASE f # e
        <3>1. editor'[f] = editor[f] /\ Sound(editor[f])
            BY <1>1, <2>2 DEF ScorecardInv
        <3> QED BY <3>1, SoundStays
    <2> QED BY <2>1, <2>2
<1> QED BY <1>1, <1>2

\* A step that publishes nothing: it may read, file or decide a case, or write a
\* link.
LEMMA NothingPublished ==
    ASSUME ScorecardInv, RulesInv', RowsKept, CasesKept, TablesTyped',
           UNCHANGED weightings, DOMAIN maps' = DOMAIN maps,
           \A m \in Maps : maps'[m].state = maps[m].state /\ maps'[m].case = maps[m].case,
           \A e \in Editors : Sound(editor[e])'
    PROVE  ScorecardInv'
<1>1. ASSUME NEW w \in Weightings
      PROVE  /\ WeightingSound(w)' /\ weightings'[w] = weightings[w]
             /\ Approves(weightings[w].case, "weighting", 0)'
             /\ weightings[w].weighting = cases'[weightings[w].case].proposal
    <2>1. WeightingSound(w)
        BY DEF ScorecardInv
    <2>2. /\ Approves(weightings[w].case, "weighting", 0)
          /\ weightings[w].weighting = cases[weightings[w].case].proposal
        BY DEF ScorecardInv, PublicationsAreFounded, WeightingsAreFounded
    <2> QED BY <2>1, <2>2 DEF WeightingSound, CasesKept, Approves, RowsKept, Backed, Rules,
               Cases
<1>2. ASSUME NEW m \in Maps
      PROVE  /\ MapSound(m)'
             /\ (maps[m].state = "published" => Approves(maps[m].case, "map", m))'
    <2>1. MapSound(m) /\ (maps[m].state = "published" => Approves(maps[m].case, "map", m))
        BY DEF ScorecardInv, PublicationsAreFounded, PublishedMapIsFounded, InState
    <2> QED BY <2>1 DEF MapSound, CasesKept, Approves, Cases
<1>3. PublishedMapIsFounded'
    BY <1>2 DEF ScorecardInv, PublicationsAreFounded, PublishedMapIsFounded, InState, Maps
<1>4. WeightingsAreFounded'
    BY <1>1 DEF ScorecardInv, PublicationsAreFounded, WeightingsAreFounded, Weightings,
       WeightingSound, Backed
<1> QED BY <1>1, <1>2, <1>3, <1>4 DEF ScorecardInv, PublicationsAreFounded, Weightings, Maps

LEMMA NoEditing == NotEditing.step = "idle" /\ NotEditing.subject = 0
BY DEF NotEditing, Editing

LEMMA IdleIsSound == Sound(NotEditing) /\ Sound(NotEditing)'
BY NoEditing DEF Sound

LEMMA NoWeightingTyped == NoWeighting \in WeightingType
BY DEF NoWeighting, Weighting, WeightingType

\* A step of a request that only reads, or ends.
LEMMA LookingKeeps ==
    ASSUME ScorecardInv, NEW e \in Editors, NEW r, Becomes(e, r), Sound(r),
           UNCHANGED <<rulesVars, perspectives, retired, cases, weightings, maps>>
    PROVE  ScorecardInv'
<1>1. RulesInv' /\ RowsKept
    BY DEF ScorecardInv, rulesVars, RulesInv, VersionsFormOneLine, RowsKept, Rules, Does
<1>2. CasesKept
    BY DEF CasesKept, Cases, Maps
<1>3. Sound(r)'
    BY <1>1, <1>2, SoundStays
<1>4. DOMAIN editor' = Editors /\ \A f \in Editors : Sound(editor[f])'
    BY <1>1, <1>2, <1>3, EditorsSound
<1>5. TablesTyped'
    BY <1>4 DEF ScorecardInv, TablesTyped
<1> QED BY <1>1, <1>2, <1>4, <1>5, NothingPublished DEF Maps

\* A new case, filed by a request or by hand.
LEMMA SubmitKeeps ==
    ASSUME ScorecardInv, NEW case \in CaseType, Submit(case),
           UNCHANGED <<rulesVars, perspectives, retired, weightings, maps>>,
           editor' = editor \/ \E e \in Editors : Ends(e)
    PROVE  ScorecardInv'
<1>1. RulesInv' /\ RowsKept
    BY DEF ScorecardInv, rulesVars, RulesInv, VersionsFormOneLine, RowsKept, Rules, Does
<1>2. cases' \in Seq(CaseType) /\ CasesKept
    <2>1. cases \in Seq(CaseType) /\ cases' = Append(cases, case)
        BY DEF ScorecardInv, TablesTyped, Submit
    <2>2. /\ cases' \in Seq(CaseType) /\ DOMAIN cases \subseteq DOMAIN cases'
          /\ \A c \in DOMAIN cases : cases'[c] = cases[c]
        BY <2>1
    <2> QED BY <2>2 DEF CasesKept, Cases, Maps
<1>3. DOMAIN editor' = Editors /\ \A f \in Editors : Sound(editor[f])'
    <2>1. CASE editor' = editor
        <3>1. ASSUME NEW f \in Editors PROVE Sound(editor[f])'
            <4>1. Sound(editor[f]) /\ editor'[f] = editor[f]
                BY <2>1 DEF ScorecardInv
            <4> QED BY <1>1, <1>2, <4>1, SoundStays
        <3> QED BY <2>1, <3>1 DEF ScorecardInv, TablesTyped
    <2>2. ASSUME NEW e \in Editors, Ends(e)
          PROVE  DOMAIN editor' = Editors /\ \A f \in Editors : Sound(editor[f])'
        BY <1>1, <1>2, <2>2, IdleIsSound, EditorsSound DEF Ends
    <2> QED BY <2>1, <2>2
<1>4. TablesTyped'
    BY <1>2, <1>3 DEF ScorecardInv, TablesTyped
<1> QED BY <1>1, <1>2, <1>3, <1>4, NothingPublished DEF Maps

\* The rules, the clock, the perspectives and the cases change by themselves.
LEMMA OthersKeep ==
    ASSUME ScorecardInv, RulesInv', RowsKept, UNCHANGED <<cases, weightings, maps, editor>>,
           perspectives' \subseteq Perspectives
    PROVE  ScorecardInv'
<1>1. CasesKept
    BY DEF CasesKept, Cases, Maps
<1>2. ASSUME NEW f \in Editors PROVE Sound(editor[f])'
    <2>1. Sound(editor[f]) /\ editor'[f] = editor[f]
        BY DEF ScorecardInv
    <2> QED BY <1>1, <2>1, SoundStays
<1>3. TablesTyped'
    BY DEF ScorecardInv, TablesTyped
<1> QED BY <1>1, <1>2, <1>3, NothingPublished DEF Maps

LEMMA DecideKeeps ==
    ASSUME ScorecardInv, NEW c \in Cases, Decide(c)
    PROVE  ScorecardInv'
<1>1. RulesInv' /\ RowsKept
    BY DEF Decide, ScorecardInv, rulesVars, RulesInv, VersionsFormOneLine, RowsKept, Rules, Does
<1>2. PICK verdict \in {"approved", "rejected"} : cases' = [cases EXCEPT ![c].state = verdict]
    BY DEF Decide
<1>3. cases \in Seq(CaseType) /\ cases[c] \in CaseType /\ cases[c].state = "pending"
    BY DEF Decide, ScorecardInv, TablesTyped, Cases
<1>4. /\ DOMAIN cases' = DOMAIN cases
      /\ \A d \in DOMAIN cases : cases'[d] = IF d = c THEN [cases[c] EXCEPT !.state = verdict]
                                             ELSE cases[d]
    BY <1>2 DEF Cases
<1>5. [cases[c] EXCEPT !.state = verdict] \in CaseType
    BY <1>3 DEF CaseType
<1>6. cases' \in Seq(CaseType)
    BY <1>2, <1>3, <1>5 DEF Cases
<1>7. CasesKept
    BY <1>3, <1>4 DEF Decide, CasesKept, Cases, Maps, CaseType
<1>8. ASSUME NEW f \in Editors PROVE Sound(editor[f])'
    <2>1. Sound(editor[f]) /\ editor'[f] = editor[f]
        BY DEF ScorecardInv, Decide
    <2> QED BY <1>1, <1>7, <2>1, SoundStays
<1>9. TablesTyped'
    BY <1>6 DEF Decide, ScorecardInv, TablesTyped
<1> QED BY <1>1, <1>7, <1>8, <1>9, NothingPublished DEF Decide, Maps

LEMMA StructureStepKeeps == ScorecardInv /\ StructureStep => ScorecardInv'
<1> SUFFICES ASSUME ScorecardInv, StructureStep PROVE ScorecardInv'
    OBVIOUS
<1>1. CASE SubmitStructure
    <2>1. Case("perspective", 0, NoWeighting) \in CaseType
        BY NoWeightingTyped DEF Case, CaseType
    <2> QED BY <1>1, <2>1, SubmitKeeps DEF SubmitStructure
<1>2. ASSUME NEW c \in Cases, NEW p \in Perspectives, AddPerspective(c, p) \/ RemovePerspective(c, p)
      PROVE  ScorecardInv'
    <2>1. RulesInv' /\ RowsKept
        BY <1>2 DEF AddPerspective, RemovePerspective, ScorecardInv, rulesVars, RulesInv,
           VersionsFormOneLine, RowsKept, Rules, Does
    <2>2. perspectives' \subseteq Perspectives
        BY <1>2 DEF AddPerspective, RemovePerspective, ScorecardInv, TablesTyped
    <2>3. UNCHANGED <<cases, weightings, maps, editor>>
        BY <1>2 DEF AddPerspective, RemovePerspective
    <2> QED BY <2>1, <2>2, <2>3, OthersKeep
<1> QED BY <1>1, <1>2, DecideKeeps DEF StructureStep

-----------------------------------------------------------------------------

LEMMA PublishWeightingKeeps ==
    ASSUME ScorecardInv, NEW e \in Editors, PublishWeighting(e)
    PROVE  ScorecardInv'
<1> DEFINE c == editor[e].subject
           new == [weighting |-> cases[c].proposal, case |-> c, supersedes |-> editor[e].sees]
<1>1. RulesInv' /\ RowsKept /\ CasesKept
    BY DEF PublishWeighting, ScorecardInv, rulesVars, RulesInv, VersionsFormOneLine,
       RowsKept, CasesKept, Cases, Maps, Rules, Does
<1>2. DOMAIN editor' = Editors /\ \A f \in Editors : Sound(editor[f])'
    BY <1>1, IdleIsSound, EditorsSound DEF PublishWeighting, Ends
<1>3. /\ c \in Cases /\ Approves(c, "weighting", 0) /\ Backed(cases[c].proposal.formula)
      /\ editor[e].sees \subseteq Nat
    BY DEF PublishWeighting, ScorecardInv, Sound, At
<1>4. cases[c] \in CaseType /\ c \in Nat
    BY <1>3 DEF ScorecardInv, TablesTyped, Cases
<1>5. new \in PublishedWeighting
    BY <1>3, <1>4 DEF CaseType, PublishedWeighting
<1>6. weightings \in Seq(PublishedWeighting) /\ weightings' = Append(weightings, new)
    BY DEF PublishWeighting, ScorecardInv, TablesTyped
<1>7. new.case = c /\ new.weighting = cases[c].proposal /\ new.supersedes = editor[e].sees
    OBVIOUS
<1> HIDE DEF new
<1>8. /\ weightings' \in Seq(PublishedWeighting)
      /\ DOMAIN weightings' = DOMAIN weightings \cup {Len(weightings) + 1}
      /\ Len(weightings) + 1 \notin DOMAIN weightings
      /\ \A w \in DOMAIN weightings : weightings'[w] = weightings[w]
      /\ weightings'[Len(weightings) + 1] = new
    BY <1>5, <1>6
<1>9. TablesTyped'
    BY <1>2, <1>8 DEF PublishWeighting, ScorecardInv, TablesTyped
<1>10. /\ cases' = cases /\ rule' = rule /\ maps' = maps
       /\ NotYetSuperseded(editor[e].sees)
    BY DEF PublishWeighting, rulesVars
<1>11. ASSUME NEW w \in DOMAIN weightings'
       PROVE  /\ WeightingSound(w)'
              /\ Approves(weightings[w].case, "weighting", 0)'
              /\ weightings'[w].weighting = cases'[weightings'[w].case].proposal
    <2>1. CASE w \in DOMAIN weightings
        <3>1. WeightingSound(w) /\ Approves(weightings[w].case, "weighting", 0)
              /\ weightings[w].weighting = cases[weightings[w].case].proposal
            BY <2>1 DEF ScorecardInv, PublicationsAreFounded, WeightingsAreFounded, Weightings
        <3> QED BY <1>8, <1>10, <2>1, <3>1
               DEF WeightingSound, Approves, Backed, Rules, Cases
    <2>2. CASE weightings'[w] = new
        BY <1>3, <1>7, <1>10, <2>2 DEF WeightingSound, Approves, Backed, Rules, Cases
    <2> QED BY <1>8, <2>1, <2>2
<1>12. ASSUME NEW v \in DOMAIN weightings', NEW w \in DOMAIN weightings', v # w
       PROVE  weightings'[v].supersedes \cap weightings'[w].supersedes = {}
    <2>1. CASE v \in DOMAIN weightings /\ w \in DOMAIN weightings
        BY <1>8, <1>12, <2>1 DEF ScorecardInv, PublicationsAreFounded, WeightingsAreFounded,
           Weightings
    <2>2. CASE v \in DOMAIN weightings /\ weightings'[w] = new
        BY <1>7, <1>8, <1>10, <2>2 DEF NotYetSuperseded, Weightings
    <2>3. CASE w \in DOMAIN weightings /\ weightings'[v] = new
        BY <1>7, <1>8, <1>10, <2>3 DEF NotYetSuperseded, Weightings
    <2> QED BY <1>8, <1>12, <2>1, <2>2, <2>3
<1>13. WeightingsAreFounded'
    BY <1>11, <1>12 DEF WeightingsAreFounded, WeightingSound, Backed, Weightings
<1>14. PublishedMapIsFounded' /\ \A m \in DOMAIN maps' : MapSound(m)'
    BY <1>10 DEF ScorecardInv, PublicationsAreFounded, PublishedMapIsFounded, InState, Maps,
       Approves, MapSound, Cases
<1> QED BY <1>1, <1>2, <1>9, <1>11, <1>13, <1>14
       DEF ScorecardInv, PublicationsAreFounded, Weightings, Maps

LEMMA WeightingStepKeeps == ScorecardInv /\ WeightingStep => ScorecardInv'
<1> SUFFICES ASSUME ScorecardInv, NEW e \in Editors,
                    \/ \E n \in Rules : PreviewWeighting(e, n)
                    \/ \E from \in 0..MaxTime : ProposeWeighting(e, from)
                    \/ \E c \in Cases : CheckProposal(e, c)
                    \/ RequireRule(e) \/ ReadCurrent(e) \/ PublishWeighting(e)
             PROVE  ScorecardInv'
    BY DEF WeightingStep
<1> DEFINE r == editor[e]
<1>1. Sound(r) /\ DOMAIN editor = Editors
    BY DEF ScorecardInv, TablesTyped
<1>2. ASSUME NEW n \in Rules, PreviewWeighting(e, n) PROVE ScorecardInv'
    <2> DEFINE s == Editing("propose weighting", n, NotEditing.link, perspectives)
    <2>1. Sound(s)
        <3>1. n \in Nat /\ perspectives \subseteq Perspectives
            BY DEF ScorecardInv, RulesInv, TablesTyped, Rules
        <3> QED BY <3>1 DEF Sound, Editing
    <2>2. Becomes(e, s)
        BY <1>2 DEF PreviewWeighting
    <2> HIDE DEF s
    <2> QED BY <1>2, <2>1, <2>2, LookingKeeps DEF PreviewWeighting
<1>3. ASSUME NEW from \in 0..MaxTime, ProposeWeighting(e, from) PROVE ScorecardInv'
    <2> DEFINE case == Case("weighting", 0, Weighting(r.sees, r.subject, from))
    <2>1. r.sees \subseteq Perspectives /\ r.subject \in Nat /\ from \in Nat
        <3>1. MaxTime \in Nat
            BY BoundsAssumption
        <3>2. r.step = "propose weighting"
            BY <1>3 DEF ProposeWeighting, At
        <3>3. r.sees \subseteq Perspectives /\ r.subject \in Nat
            BY <1>1, <3>2 DEF Sound
        <3>4. from \in Nat
            BY <1>3, <3>1
        <3> QED BY <3>3, <3>4
    <2>2. Weighting(r.sees, r.subject, from) \in WeightingType
        BY <2>1 DEF Weighting, WeightingType
    <2>3. case \in CaseType
        BY <2>2 DEF Case, CaseType
    <2>4. Submit(case) /\ Ends(e)
        BY <1>3 DEF ProposeWeighting
    <2> HIDE DEF case
    <2> QED BY <1>3, <2>3, <2>4, SubmitKeeps DEF ProposeWeighting
<1>4. ASSUME NEW c \in Cases, CheckProposal(e, c) PROVE ScorecardInv'
    <2> DEFINE s == Editing("formula", c, NotEditing.link, {})
    <2>1. Sound(s)
        <3>1. c \in Nat /\ Approves(c, "weighting", 0)
            BY <1>4 DEF ScorecardInv, TablesTyped, Cases, CheckProposal
        <3> QED BY <3>1 DEF Sound, Editing
    <2>2. Becomes(e, s)
        BY <1>4 DEF CheckProposal
    <2> HIDE DEF s
    <2> QED BY <1>4, <2>1, <2>2, LookingKeeps DEF CheckProposal
<1>5. CASE RequireRule(e)
    <2> DEFINE s == [r EXCEPT !.step = "current"]
    <2>1. r.step = "formula" /\ Backed(cases[r.subject].proposal.formula)
        BY <1>5 DEF RequireRule, At, IsPublished, Backed
    <2>2. s.subject = r.subject /\ (s.step = "current" \/ s.step = r.step)
        OBVIOUS
    <2>3. Sound(s)
        BY <1>1, <2>1, <2>2 DEF Sound
    <2>4. Becomes(e, s)
        BY <1>5 DEF RequireRule
    <2> HIDE DEF s
    <2> QED BY <1>5, <2>3, <2>4, LookingKeeps DEF RequireRule
<1>6. CASE ReadCurrent(e)
    <2>1. PICK sees \in IF Active = {} THEN {{}} ELSE {{w} : w \in Active} :
             Becomes(e, [r EXCEPT !.step = "publish weighting", !.sees = sees])
        BY <1>6 DEF ReadCurrent
    <2> DEFINE s == [r EXCEPT !.step = "publish weighting", !.sees = sees]
    <2>2. sees \subseteq Nat
        <3>1. Active \subseteq DOMAIN weightings /\ DOMAIN weightings \subseteq Nat
            BY DEF ScorecardInv, TablesTyped, Active, Due, Weightings
        <3> QED BY <2>1, <3>1
    <2>3. r.step = "current"
        BY <1>6 DEF ReadCurrent, At
    <2>4. s.subject = r.subject /\ (s.step = "publish weighting" \/ s.step = r.step)
          /\ (s.sees = sees \/ s.step = r.step)
        OBVIOUS
    <2>5. Sound(s)
        BY <1>1, <2>2, <2>3, <2>4 DEF Sound
    <2>6. Becomes(e, s)
        BY <2>1
    <2> HIDE DEF s
    <2> QED BY <1>6, <2>5, <2>6, LookingKeeps DEF ReadCurrent
<1> QED BY <1>2, <1>3, <1>4, <1>5, <1>6, PublishWeightingKeeps

-----------------------------------------------------------------------------

\* A link is written to a map, whatever its state; a new map is a draft.
LEMMA WriteLinkKeeps ==
    ASSUME ScorecardInv, NEW e \in Editors, WriteLink(e)
    PROVE  ScorecardInv'
<1> DEFINE m == editor[e].subject
           l == editor[e].link
<1>1. RulesInv' /\ RowsKept
    BY DEF WriteLink, ScorecardInv, rulesVars, RulesInv, VersionsFormOneLine, RowsKept, Rules, Does
<1>2. maps \in Seq(MapType) /\ DOMAIN maps = 1..Len(maps) /\ l \in Links
    <2>1. Sound(editor[e]) /\ maps \in Seq(MapType)
        BY DEF ScorecardInv, TablesTyped
    <2>2. editor[e].step = "link" \/ editor[e].step = "unlink"
        BY DEF WriteLink, At
    <2>3. l \in Links
        BY <2>1, <2>2 DEF Sound
    <2>4. DOMAIN maps = 1..Len(maps)
        BY <2>1
    <2> QED BY <2>1, <2>3, <2>4
<1>3. PICK ls : /\ ls = maps[m].links \cup {l} \/ ls = maps[m].links \ {l}
                /\ maps' = [maps EXCEPT ![m].links = ls]
    BY DEF WriteLink
<1>4. ASSUME NEW n \in DOMAIN maps
      PROVE  /\ maps'[n] \in MapType
             /\ maps'[n].state = maps[n].state /\ maps'[n].case = maps[n].case
    <2>1. maps[n] \in MapType
        BY <1>2
    <2>2. CASE n = m
        <3>1. maps'[n] = [maps[n] EXCEPT !.links = ls] /\ ls \subseteq Links
            BY <1>2, <1>3, <2>1, <2>2 DEF MapType
        <3> QED BY <2>1, <3>1 DEF MapType
    <2>3. CASE n # m
        BY <1>3, <2>1, <2>3
    <2> QED BY <2>2, <2>3
<1>5. maps' \in Seq(MapType) /\ DOMAIN maps' = DOMAIN maps
    <2>1. DOMAIN maps' = DOMAIN maps /\ maps' = [n \in DOMAIN maps |-> maps'[n]]
        BY <1>3
    <2> QED BY <1>2, <1>4, <2>1, RowsAgain
<1>6. CasesKept
    BY <1>5 DEF WriteLink, CasesKept, Cases, Maps
<1>7. DOMAIN editor' = Editors /\ \A f \in Editors : Sound(editor[f])'
    BY <1>1, <1>6, IdleIsSound, EditorsSound DEF WriteLink, Ends
<1>8. TablesTyped'
    BY <1>5, <1>7 DEF WriteLink, ScorecardInv, TablesTyped
<1> QED BY <1>1, <1>4, <1>5, <1>6, <1>7, <1>8, NothingPublished DEF WriteLink, Maps

\* What the maps are after a step that changes them and nothing else.
LEMMA MapsKeep ==
    ASSUME ScorecardInv, RulesInv', RowsKept, CasesKept, TablesTyped',
           UNCHANGED <<rule, cases, weightings>>,
           \A e \in Editors : Sound(editor[e])',
           \A m \in DOMAIN maps' : MapSound(m)', PublishedMapIsFounded'
    PROVE  ScorecardInv'
<1>1. (\A w \in Weightings : WeightingSound(w))' /\ WeightingsAreFounded'
    BY DEF ScorecardInv, PublicationsAreFounded, WeightingsAreFounded, Weightings,
       WeightingSound, Approves, Backed, Rules, Cases
<1> QED BY <1>1 DEF ScorecardInv, PublicationsAreFounded, Maps

LEMMA OpenMapKeeps ==
    ASSUME ScorecardInv, NEW e \in Editors, OpenMap(e)
    PROVE  ScorecardInv'
<1> DEFINE new == Map("draft", 0, {})
<1>1. RulesInv' /\ RowsKept
    BY DEF OpenMap, ScorecardInv, rulesVars, RulesInv, VersionsFormOneLine, RowsKept, Rules, Does
<1>2. maps \in Seq(MapType) /\ Len(maps) \in Nat /\ maps' = Append(maps, new)
    <2>1. maps \in Seq(MapType)
        BY DEF ScorecardInv, TablesTyped
    <2>2. Len(maps) \in Nat
        BY <2>1
    <2>3. maps' = Append(maps, new)
        BY DEF OpenMap
    <2> QED BY <2>1, <2>2, <2>3
<1>3. new \in MapType /\ new.state = "draft"
    BY DEF Map, MapType
<1> HIDE DEF new
<1>4. /\ maps' \in Seq(MapType)
      /\ DOMAIN maps' = DOMAIN maps \cup {Len(maps) + 1}
      /\ Len(maps) + 1 \notin DOMAIN maps
      /\ \A m \in DOMAIN maps : maps'[m] = maps[m]
      /\ maps'[Len(maps) + 1] = new
    BY <1>2, <1>3
<1>5. CasesKept
    BY <1>4 DEF OpenMap, CasesKept, Cases, Maps
<1>6. PICK r : r = Editing("link", Len(maps) + 1, editor[e].link, {})
    OBVIOUS
<1>7. Sound(r)' /\ Becomes(e, r)
    <2>1. Sound(editor[e]) /\ editor[e].step = "open map"
        BY DEF OpenMap, ScorecardInv, At
    <2>2. r.step = "link" /\ r.subject = Len(maps) + 1 /\ r.link = editor[e].link
        BY <1>6 DEF Editing
    <2>3. Sound(r)
        <3>1. editor[e].link \in Links
            BY <2>1 DEF Sound
        <3> QED BY <1>2, <2>2, <3>1 DEF Sound
    <2>4. Becomes(e, r)
        BY <1>6 DEF OpenMap
    <2> QED BY <1>1, <1>5, <2>3, <2>4, SoundStays
<1>8. DOMAIN editor' = Editors /\ \A f \in Editors : Sound(editor[f])'
    BY <1>1, <1>5, <1>7, EditorsSound
<1>9. TablesTyped'
    BY <1>4, <1>8 DEF OpenMap, ScorecardInv, TablesTyped
<1>10. UNCHANGED <<rule, cases, weightings>>
    BY DEF OpenMap, rulesVars
<1>11. PublishedMapIsFounded' /\ \A m \in DOMAIN maps' : MapSound(m)'
    BY <1>3, <1>4, <1>10 DEF ScorecardInv, PublicationsAreFounded, PublishedMapIsFounded,
       InState, Maps, Approves, MapSound, Cases
<1> QED BY <1>1, <1>5, <1>8, <1>9, <1>10, <1>11, MapsKeep

\* The index holds when the map is published: what else was published is a
\* draft again.
LEMMA PublishMapKeeps ==
    ASSUME ScorecardInv, NEW e \in Editors, PublishMap(e)
    PROVE  ScorecardInv'
<1> DEFINE c == editor[e].subject
           m == cases[c].map
           demoted == editor[e].sees \ {m}
<1>1. RulesInv' /\ RowsKept
    BY DEF PublishMap, ScorecardInv, rulesVars, RulesInv, VersionsFormOneLine, RowsKept, Rules, Does
<1>2. c \in Cases /\ c \in Nat /\ m \in Maps /\ Approves(c, "map", m)
    <2>1. Sound(editor[e]) /\ editor[e].step = "swap maps"
        BY DEF PublishMap, At, ScorecardInv
    <2> QED BY <2>1 DEF Sound
<1>3. maps \in Seq(MapType) /\ \A n \in DOMAIN maps : maps[n] \in MapType
    BY DEF ScorecardInv, TablesTyped
<1>4. /\ DOMAIN maps' = DOMAIN maps
      /\ \A n \in DOMAIN maps :
            maps'[n] = IF n = m THEN Map("published", c, maps[n].links)
                       ELSE IF n \in demoted THEN [maps[n] EXCEPT !.state = "draft"]
                       ELSE maps[n]
      /\ maps' = [n \in DOMAIN maps |-> maps'[n]]
    BY DEF PublishMap, Maps
<1>5. OnlyPublished(m, demoted)
    BY DEF PublishMap
<1> HIDE DEF c, m, demoted
<1>6. ASSUME NEW n \in DOMAIN maps
      PROVE  /\ maps'[n] \in MapType
             /\ n = m => maps'[n].state = "published" /\ maps'[n].case = c
             /\ n # m => maps'[n].state = "draft"
    <2>1. maps[n] \in MapType
        BY <1>3
    <2>2. CASE n = m
        <3>1. maps'[n] = [state |-> "published", case |-> c, links |-> maps[n].links]
            BY <1>4, <2>2 DEF Map
        <3> QED BY <1>2, <2>1, <2>2, <3>1 DEF MapType
    <2>3. CASE n # m /\ n \in demoted
        <3>1. maps'[n] = [maps[n] EXCEPT !.state = "draft"]
            BY <1>4, <2>3
        <3> QED BY <2>1, <2>3, <3>1 DEF MapType
    <2>4. CASE n # m /\ n \notin demoted
        <3>1. maps'[n] = maps[n]
            BY <1>4, <2>4
        <3>2. maps[n].state # "published"
            BY <1>5, <2>4 DEF OnlyPublished, InState, Maps
        <3> QED BY <2>1, <2>4, <3>1, <3>2 DEF MapType
    <2> QED BY <2>2, <2>3, <2>4
<1>7. maps' \in Seq(MapType)
    BY <1>3, <1>4, <1>6, RowsAgain
<1>8. UNCHANGED <<rule, cases, weightings>> /\ CasesKept
    BY <1>4 DEF PublishMap, rulesVars, CasesKept, Cases, Maps
<1>9. DOMAIN editor' = Editors /\ \A f \in Editors : Sound(editor[f])'
    BY <1>1, <1>8, IdleIsSound, EditorsSound DEF PublishMap, Ends
<1>10. TablesTyped'
    BY <1>7, <1>9 DEF PublishMap, ScorecardInv, TablesTyped
<1>11. PublishedMapIsFounded'
    BY <1>2, <1>4, <1>6, <1>8 DEF PublishedMapIsFounded, InState, Maps, Approves
<1>12. \A n \in DOMAIN maps' : MapSound(n)'
    BY <1>2, <1>4, <1>6, <1>8 DEF MapSound, Cases
<1> QED BY <1>1, <1>8, <1>9, <1>10, <1>11, <1>12, MapsKeep

LEMMA MapStepKeeps == ScorecardInv /\ MapStep => ScorecardInv'
<1> SUFFICES ASSUME ScorecardInv, MapStep PROVE ScorecardInv'
    OBVIOUS
<1>1. \A e \in Editors : Sound(editor[e])
    BY DEF ScorecardInv
<1>2. DOMAIN maps \subseteq Nat /\ DOMAIN cases \subseteq Nat
    <2>1. maps \in Seq(MapType) /\ cases \in Seq(CaseType)
        BY DEF ScorecardInv, TablesTyped
    <2> QED BY <2>1
<1>3. ASSUME NEW e \in Editors, NEW m \in Maps, NEW l \in Links,
             NEW step \in {"link", "unlink", "propose map"}, ChooseMap(e, step, m, l)
      PROVE  ScorecardInv'
    <2> DEFINE s == Editing(step, m, l, {})
    <2>1. Sound(s)
        BY <1>2, <1>3 DEF Sound, Editing, Maps
    <2>2. Becomes(e, s)
        BY <1>3 DEF ChooseMap
    <2> HIDE DEF s
    <2> QED BY <1>3, <2>1, <2>2, LookingKeeps DEF ChooseMap
<1>4. ASSUME NEW e \in Editors, NEW l \in Links, MissMap(e, l) PROVE ScorecardInv'
    <2> DEFINE s == Editing("open map", 0, l, {})
    <2>1. Sound(s)
        BY DEF Sound, Editing
    <2>2. Becomes(e, s)
        BY <1>4 DEF MissMap
    <2> HIDE DEF s
    <2> QED BY <1>4, <2>1, <2>2, LookingKeeps DEF MissMap
<1>5. ASSUME NEW e \in Editors, ProposeMap(e) PROVE ScorecardInv'
    <2> DEFINE case == Case("map", editor[e].subject, NoWeighting)
    <2>1. case \in CaseType
        BY <1>1, NoWeightingTyped DEF Sound, Case, CaseType
    <2>2. Submit(case) /\ Ends(e)
        BY <1>5 DEF ProposeMap
    <2> HIDE DEF case
    <2> QED BY <1>5, <2>1, <2>2, SubmitKeeps DEF ProposeMap
<1>6. ASSUME NEW e \in Editors, NEW c \in Cases, CheckMap(e, c) PROVE ScorecardInv'
    <2> DEFINE s == Editing("publish map", c, NotEditing.link, {})
    <2>1. Sound(s)
        <3>1. c \in Nat /\ cases[c].map \in Maps /\ Approves(c, "map", cases[c].map)
            BY <1>2, <1>6 DEF CheckMap, Cases
        <3> QED BY <3>1 DEF Sound, Editing
    <2>2. Becomes(e, s)
        BY <1>6 DEF CheckMap
    <2> HIDE DEF s
    <2> QED BY <1>6, <2>1, <2>2, LookingKeeps DEF CheckMap
<1>7. ASSUME NEW e \in Editors, FindPublished(e) PROVE ScorecardInv'
    <2> DEFINE r == editor[e]
    <2>1. PICK sees : sees = InState("published")
        OBVIOUS
    <2> DEFINE s == [r EXCEPT !.step = "swap maps", !.sees = sees]
    <2>2. r.step = "publish map"
        BY <1>7 DEF FindPublished, At
    <2>3. s.subject = r.subject /\ (s.step = "swap maps" \/ s.step = r.step)
        OBVIOUS
    <2>4. Sound(s)
        BY <1>1, <2>2, <2>3 DEF Sound
    <2>5. Becomes(e, s)
        BY <1>7, <2>1 DEF FindPublished
    <2> HIDE DEF s
    <2> QED BY <1>7, <2>4, <2>5, LookingKeeps DEF FindPublished
<1> QED BY <1>3, <1>4, <1>5, <1>6, <1>7, OpenMapKeeps, WriteLinkKeeps,
       PublishMapKeeps DEF MapStep

-----------------------------------------------------------------------------

LEMMA Initially == Init => ScorecardInv
<1> SUFFICES ASSUME Init PROVE ScorecardInv
    OBVIOUS
<1>1. RulesInv
    BY RulesInitially DEF Init
<1>2. TablesTyped
    BY DEF Init, TablesTyped
<1>3. \A e \in Editors : Sound(editor[e])
    BY IdleIsSound DEF Init
<1>4. Weightings = {} /\ Maps = {}
    BY DEF Init, Weightings, Maps
<1> QED BY <1>1, <1>2, <1>3, <1>4
       DEF ScorecardInv, PublicationsAreFounded, PublishedMapIsFounded, WeightingsAreFounded,
           InState

LEMMA StepKeeps == ScorecardInv /\ [Next]_vars => ScorecardInv'
<1> SUFFICES ASSUME ScorecardInv, [Next]_vars PROVE ScorecardInv'
    OBVIOUS
<1>1. RulesInv' /\ RowsKept
    BY NextKeepsRules DEF ScorecardInv
<1>2. CASE RuleStep /\ UNCHANGED scorecardVars
    BY <1>1, <1>2, OthersKeep DEF scorecardVars, ScorecardInv, TablesTyped
<1>3. CASE Tick
    BY <1>1, <1>3, OthersKeep DEF Tick, ScorecardInv, TablesTyped
<1>4. CASE UNCHANGED vars
    BY <1>1, <1>4, OthersKeep DEF vars, scorecardVars, ScorecardInv, TablesTyped
<1>5. ASSUME NEW e \in Editors, EditingFails(e) PROVE ScorecardInv'
    BY <1>5, IdleIsSound, LookingKeeps DEF EditingFails, Ends
<1> QED BY <1>2, <1>3, <1>4, <1>5, StructureStepKeeps, WeightingStepKeeps, MapStepKeeps
       DEF Next

\* One map of a scorecard at most is published, a weighting says what its case
\* was approved for, and no two supersede the same one, for any number of
\* requests and any failures.
THEOREM PublicationsStayFounded == Spec => []PublicationsAreFounded
<1>1. ScorecardInv => PublicationsAreFounded
    BY DEF ScorecardInv
<1> QED BY <1>1, Initially, StepKeeps, PTL DEF Spec

=============================================================================
