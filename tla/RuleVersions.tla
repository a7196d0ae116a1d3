---------------------------- MODULE RuleVersions ----------------------------
(***************************************************************************)
(* The versions of one rule (one rule_key), as RulesService writes them.   *)
(* A draft is created beside the version in force and becomes the current  *)
(* one; its publication supersedes the version before it.  Neither         *)
(* transaction takes a lock before it reads: what it found may be stale    *)
(* when it writes, and only the unique indexes see that.                   *)
(*                                                                         *)
(* Rows are in the order of their versions.  The document of a rule and    *)
(* its evaluation are left out.                                            *)
(***************************************************************************)
EXTENDS Naturals, Sequences

CONSTANTS
    Authors,             \* requests that write rules
    MaxRules             \* bound on the versions of the rule

ASSUME MaxRulesAssumption == MaxRules \in Nat

VARIABLES
    rule,                \* rule_definitions of the key
    author               \* what each request has read so far

rulesVars == <<rule, author>>

RuleStatuses == {"draft", "published", "superseded"}
RuleRow(status, current, supersedes) ==
    [status |-> status, current |-> current, supersedes |-> supersedes]

\* step: what the request does next; row: the version it was decided from, 0
\* when it found none.
Writing(step, row) == [step |-> step, row |-> row]
NotWriting == Writing("idle", 0)

RulesInit ==
    /\ rule = <<>>
    /\ author = [a \in Authors |-> NotWriting]

Rules == DOMAIN rule
Current == {n \in Rules : rule[n].current}
IsPublished(n) == n \in Rules /\ rule[n].status = "published"

Does(a, step) == author[a].step = step
Continues(a, step, row) == author' = [author EXCEPT ![a] = Writing(step, row)]
Finishes(a) == Continues(a, "idle", 0)

-----------------------------------------------------------------------------
\* createDraft()

\* The first query is for a current row, in no order: a draft among them is
\* refused, another one is what the new draft supersedes.
FindCurrent(a) ==
    /\ Does(a, "idle")
    /\ \/ \E n \in Current : rule[n].status # "draft" /\ Continues(a, "demote", n)
       \/ Current = {} /\ Continues(a, "latest", 0)
    /\ UNCHANGED rule

\* The second query, made when the first found nothing, is for the highest
\* version; its status is not looked at, and it is not demoted.
FindLatest(a) ==
    /\ Does(a, "latest")
    /\ Continues(a, "insert", Len(rule))
    /\ UNCHANGED rule

\* Mutated: no unique index.
FitsAlways(version, supersedes) == TRUE

\* Unique (rule_key, version) and unique supersedes_id.
Fits(version, supersedes) ==
    /\ version \notin Rules
    /\ supersedes # 0 => \A n \in Rules : rule[n].supersedes # supersedes

\* Mutated: the version in force is superseded by the draft already.
DemotedBefore(n) ==
    [m \in Rules |-> IF m = n THEN RuleRow("superseded", FALSE, rule[m].supersedes)
                              ELSE rule[m]]

Demoted(n) ==
    [m \in Rules |-> IF m = n THEN RuleRow(rule[m].status, FALSE, rule[m].supersedes)
                              ELSE rule[m]]

\* The current row found is demoted by its id, whatever it has become, and the
\* draft is inserted; a taken number rolls both back.
CommitDraft(a) ==
    LET n == author[a].row
        others == IF Does(a, "demote") THEN Demoted(n) ELSE rule
    IN  /\ Does(a, "demote") \/ Does(a, "insert")
        /\ Len(rule) < MaxRules
        /\ IF Fits(n + 1, n)
           THEN rule' = Append(others, RuleRow("draft", TRUE, n))
           ELSE UNCHANGED rule
        /\ Finishes(a)

-----------------------------------------------------------------------------
\* publish()

FindDraft(a) ==
    /\ Does(a, "idle")
    /\ \E n \in Current : rule[n].status = "draft" /\ Continues(a, "publish", n)
    /\ UNCHANGED rule

\* Both updates are by id: neither looks at the status again.
CommitPublish(a) ==
    LET n == author[a].row
    IN  /\ Does(a, "publish")
        /\ rule' = [m \in Rules |->
                      IF m = n THEN RuleRow("published", TRUE, rule[m].supersedes)
                      ELSE IF m = rule[n].supersedes
                      THEN RuleRow("superseded", FALSE, rule[m].supersedes)
                      ELSE rule[m]]
        /\ Finishes(a)

\* A statement that the database refuses, or the death of the process.
WritingFails(a) ==
    /\ ~Does(a, "idle")
    /\ Finishes(a)
    /\ UNCHANGED rule

RuleStep ==
    \E a \in Authors :
        \/ FindCurrent(a) \/ FindLatest(a) \/ CommitDraft(a)
        \/ FindDraft(a) \/ CommitPublish(a)
        \/ WritingFails(a)

RulesSpec == RulesInit /\ [][RuleStep]_rulesVars

-----------------------------------------------------------------------------

RulesTypeOK ==
    /\ rule \in Seq([status : RuleStatuses, current : BOOLEAN, supersedes : Nat])
    /\ Len(rule) <= MaxRules
    /\ author \in [Authors -> [step : {"idle", "latest", "demote", "insert", "publish"},
                               row : Nat]]

\* The versions form one line, each superseding the one before it, though two
\* requests may draft from the same version, or from none.
VersionsFormOneLine == \A n \in Rules : rule[n].supersedes = n - 1

\* What getPublished() answers, and workflow guards, gates and recomputation
\* decide by, never goes back: once a version is published there is always a
\* published version at least as new, while others draft and publish, and when
\* a publication that was overtaken commits late.
PublishedNeverGoesBack ==
    [][\A n \in Rules : IsPublished(n) =>
          \E m \in DOMAIN rule' : m >= n /\ rule'[m].status = "published"]_rulesVars
=============================================================================
