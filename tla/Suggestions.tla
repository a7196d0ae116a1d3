----------------------------- MODULE Suggestions -----------------------------
(***************************************************************************)
(* Accepting an AI suggestion: the one way a proposal becomes a KPI draft  *)
(* or an OKR.  Accepts of the same suggestion may run at the same time in  *)
(* several processes.  The provenance row is inserted first, as a claim,   *)
(* and completed once the record exists; losers of the claim wait for it.  *)
(* A process may die between any two steps.                                *)
(*                                                                         *)
(* A creation that commits is taken to be answered.  Alignments and the    *)
(* capture schedule keep no state here: only their failure matters.  KPIs  *)
(* drafted by hand resemble no suggestion.                                 *)
(***************************************************************************)
EXTENDS KpiRegistry

CONSTANTS
    Suggested,           \* suggestion identities
    IsKpi(_),            \* a KPI suggestion rather than an OKR one
    Alike(_, _),         \* similarity at or above BLOCK_SIMILARITY_THRESHOLD
    Okrs,
    NoRecord,
    Acceptors            \* callers of accept()

Records == Kpis \cup Okrs
ASSUME RecordAssumption == NoRecord \notin Records /\ Okrs \cap Kpis = {}
ASSUME SuggestedAssumption == Suggested # {}

VARIABLES
    claim,               \* the provenance row: "none", "open" or "settled"
    subject,             \* its subject_id, or NoRecord
    records,             \* what was created for a suggestion
    answers,             \* what accept() answered for it
    acceptor             \* where each call is

suggestionVars == <<claim, subject, records, answers, acceptor>>
vars == <<registryVars, suggestionVars>>

Call(phase, s, ack, dup, made, fails) ==
    [phase |-> phase, s |-> s, ack |-> ack, dup |-> dup, made |-> made, fails |-> fails]
NoCall == Call("idle", CHOOSE s \in Suggested : TRUE, FALSE, FALSE, NoRecord, FALSE)

Init ==
    /\ RegistryInit
    /\ claim = [s \in Suggested |-> "none"]
    /\ subject = [s \in Suggested |-> NoRecord]
    /\ records = [s \in Suggested |-> {}]
    /\ answers = [s \in Suggested |-> {}]
    /\ acceptor = [a \in Acceptors |-> NoCall]

Of(a) == acceptor[a].s
Calls(a, phase) == acceptor[a].phase = phase
Goes(a, phase) == acceptor' = [acceptor EXCEPT ![a].phase = phase]
Hangs(a) == acceptor' = [acceptor EXCEPT ![a] = NoCall]
Answer(a, r) ==
    /\ answers' = [answers EXCEPT ![Of(a)] = @ \cup {r}]
    /\ Hangs(a)

\* findKpiDuplicates(), findOkrDuplicates(): a record of one alike exists.
Duplicated(s) ==
    \E t \in Suggested : IsKpi(t) = IsKpi(s) /\ Alike(t, s) /\ records[t] # {}

\* accept() and acceptOne(): findSettledProvenance() comes first.
Accept(a, s, ack) ==
    /\ Calls(a, "idle")
    /\ IF claim[s] = "settled"
       THEN answers' = [answers EXCEPT ![s] = @ \cup {subject[s]}] /\ UNCHANGED acceptor
       ELSE /\ acceptor' = [acceptor EXCEPT ![a] =
                               Call("context", s, ack, FALSE, NoRecord, FALSE)]
            /\ UNCHANGED answers
    /\ UNCHANGED <<registryVars, claim, subject, records>>

\* The context lists the theme's OKRs, which the duplicate check will use.
BuildContext(a) ==
    /\ Calls(a, "context")
    /\ acceptor' = [acceptor EXCEPT ![a].phase = "claim",
                                    ![a].dup = ~IsKpi(Of(a)) /\ Duplicated(Of(a))]
    /\ UNCHANGED <<registryVars, claim, subject, records, answers>>

\* Mutated: the provenance row is written without a unique index.
ClaimableAlways(s) == TRUE

\* claim(): the unique index on suggestion_id.
Claimable(s) == claim[s] = "none"

Claim(a) ==
    /\ Calls(a, "claim")
    /\ IF Claimable(Of(a))
       THEN claim' = [claim EXCEPT ![Of(a)] = "open"] /\ Goes(a, "check")
       ELSE Goes(a, "wait") /\ UNCHANGED claim
    /\ UNCHANGED <<registryVars, subject, records, answers>>

\* assertNotBlockedDuplicate().
Blocked(a) ==
    ~acceptor[a].ack /\ IF IsKpi(Of(a)) THEN Duplicated(Of(a)) ELSE acceptor[a].dup

CheckDuplicates(a) ==
    /\ Calls(a, "check")
    /\ Goes(a, IF Blocked(a) THEN "release" ELSE "create")
    /\ UNCHANGED <<registryVars, claim, subject, records, answers>>

Makes(a, r, phase) ==
    /\ records' = [records EXCEPT ![Of(a)] = @ \cup {r}]
    /\ acceptor' = [acceptor EXCEPT ![a].phase = phase, ![a].made = r]
    /\ UNCHANGED <<claim, subject, answers>>

CreateKpi(a, k) ==
    /\ Calls(a, "create") /\ IsKpi(Of(a))
    /\ NewDefinition(k)
    /\ Makes(a, k, "align")
    /\ UNCHANGED <<active, approved, lock, user>>

CreateOkr(a, o) ==
    /\ Calls(a, "create") /\ ~IsKpi(Of(a))
    /\ \A s \in Suggested : o \notin records[s]
    /\ Makes(a, o, "settle")
    /\ UNCHANGED registryVars

\* alignments.set() refuses a KPI retired meanwhile; the schedule is best effort.
Align(a) ==
    /\ Calls(a, "align")
    /\ status[acceptor[a].made] # "retired"
    /\ Goes(a, "settle")
    /\ UNCHANGED <<registryVars, claim, subject, records, answers>>

\* Mutated: a failed accept releases its claim whatever it has made.
AfterFailureReleased(made) == "release"

\* Mutated: a failed accept keeps its claim, whether it has made something or not.
AfterFailureSettled(made) == "settle"

\* A claim that made something is settled, any other is released.
AfterFailure(made) == IF made = NoRecord THEN "release" ELSE "settle"

CreationFails(a) ==
    /\ Calls(a, "check") \/ Calls(a, "create") \/ Calls(a, "align")
    /\ acceptor' = [acceptor EXCEPT ![a].phase = AfterFailure(acceptor[a].made),
                                    ![a].fails = TRUE]
    /\ UNCHANGED <<registryVars, claim, subject, records, answers>>

Answered(a) ==
    IF acceptor[a].fails THEN Hangs(a) /\ UNCHANGED answers
    ELSE Answer(a, acceptor[a].made)

\* settleClaim(): the row and its event.  A failure is logged and answered alike.
SettleClaim(a) ==
    /\ Calls(a, "settle")
    /\ claim' = [claim EXCEPT ![Of(a)] = "settled"]
    /\ subject' = [subject EXCEPT ![Of(a)] = acceptor[a].made]
    /\ Answered(a)
    /\ UNCHANGED <<registryVars, records>>

SettleFails(a) ==
    /\ Calls(a, "settle")
    /\ Answered(a)
    /\ UNCHANGED <<registryVars, claim, subject, records>>

\* releaseClaim() deletes an unsettled row; its failure is logged, the row stays.
ReleaseClaim(a) ==
    /\ Calls(a, "release")
    /\ claim' = [claim EXCEPT ![Of(a)] = IF @ = "open" THEN "none" ELSE @]
    /\ Hangs(a)
    /\ UNCHANGED <<registryVars, subject, records, answers>>

\* awaitWinner(): polls until the claim is settled or the attempts run out.
AwaitWinner(a) ==
    /\ Calls(a, "wait")
    /\ claim[Of(a)] = "settled"
    /\ Answer(a, subject[Of(a)])
    /\ UNCHANGED <<registryVars, claim, subject, records>>

\* A refusal, a read that fails, a wait that ends, or the end of the process.
CallEnds(a) ==
    /\ ~Calls(a, "idle")
    /\ Hangs(a)
    /\ UNCHANGED <<registryVars, claim, subject, records, answers>>

AcceptStep(a) ==
    \/ \E s \in Suggested, ack \in BOOLEAN : Accept(a, s, ack)
    \/ BuildContext(a) \/ Claim(a) \/ CheckDuplicates(a)
    \/ \E k \in Kpis : CreateKpi(a, k)
    \/ \E o \in Okrs : CreateOkr(a, o)
    \/ Align(a) \/ CreationFails(a)
    \/ SettleClaim(a) \/ SettleFails(a) \/ ReleaseClaim(a)
    \/ AwaitWinner(a) \/ CallEnds(a)

Next ==
    \/ \E a \in Acceptors : AcceptStep(a)
    \/ RegistryStep /\ UNCHANGED suggestionVars

Spec == Init /\ [][Next]_vars

-----------------------------------------------------------------------------
(***************************************************************************)
(* PROPERTIES                                                              *)
(***************************************************************************)

\* Type invariant.  A claim is settled when, and only when, it names a record.
TypeOK ==
    /\ RegistryTypeOK
    /\ claim \in [Suggested -> {"none", "open", "settled"}]
    /\ subject \in [Suggested -> Records \cup {NoRecord}]
    /\ \A s \in Suggested : claim[s] = "settled" <=> subject[s] # NoRecord
    /\ records \in [Suggested -> SUBSET Records]
    /\ answers \in [Suggested -> SUBSET Records]
    /\ acceptor \in [Acceptors -> [phase : {"idle", "context", "claim", "check",
                                            "create", "align", "settle", "release", "wait"},
                                   s : Suggested, ack : BOOLEAN, dup : BOOLEAN,
                                   made : Records \cup {NoRecord}, fails : BOOLEAN]]

\* However often a suggestion is accepted, at once, again, or after a failure,
\* one record at most is created for it, and every answer and a settled claim
\* name that record.
OneRecordPerSuggestion ==
    \A s \in Suggested :
        /\ \A q, r \in records[s] : q = r
        /\ answers[s] \subseteq records[s]
        /\ claim[s] = "settled" => subject[s] \in records[s]

=============================================================================
