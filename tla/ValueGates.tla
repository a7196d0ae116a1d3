----------------------------- MODULE ValueGates -----------------------------
(***************************************************************************)
(* The stages of an initiative and the value gate behind each of them,     *)
(* composed with the initiative's benefit.  Moving to the next stage       *)
(* announces an event; a worker turns it, at least once, into one gate     *)
(* with one approval case and freezes the facts the gate is judged by; the *)
(* committee decides the gate once, and a decision to stop ends the        *)
(* initiative and its benefit.                                             *)
(*                                                                         *)
(* Stages are numbered in the order of NEXT_STAGE; a gate is known by the  *)
(* stage left behind, as in its dedupe key.  Who may decide, and the rules *)
(* the facts are put to, are left out.                                     *)
(***************************************************************************)
EXTENDS Benefits

CONSTANTS
    Owners,              \* requests that move the initiative
    Workers,             \* dispatch workers, and callers of evaluateGateCriteria
    Committee,           \* requests that decide a gate
    Start                \* stage the initiative is registered in

Design == 1
Done == 5
ASSUME StartAssumption == Start \in Design..Done

Gates == Start..(Done - 1)
Decisions == {"continue", "intervene", "stop"}
Facts == {"favourable", "adverse"}

VARIABLES
    stage,               \* execution.initiatives.stage
    mover,               \* stage each owner's transaction has read, or 0
    announced,           \* gates whose stage event is in the outbox
    gate,                \* value.gate_reviews
    worker, decider,     \* what each has read so far
    required             \* gates with a corrective action requirement

gateVars == <<stage, mover, announced, gate, worker, decider, required>>
vars == <<benefitVars, gateVars>>

NoGate == [exists |-> FALSE, case |-> 0, evidence |-> "absent", decision |-> "none"]
Work(phase, g, case, facts) == [phase |-> phase, gate |-> g, case |-> case, facts |-> facts]
Unemployed == Work("idle", 0, 0, "absent")
Deciding(phase, g, decision, case) ==
    [phase |-> phase, gate |-> g, decision |-> decision, case |-> case]
Absent == Deciding("idle", 0, "none", 0)

Init ==
    /\ BenefitInit
    /\ stage = Start
    /\ mover = [o \in Owners |-> 0]
    /\ announced = {}
    /\ gate = [g \in Gates |-> NoGate]
    /\ worker = [w \in Workers |-> Unemployed]
    /\ decider = [d \in Committee |-> Absent]
    /\ required = {}

\* Mutant: the row is read without FOR UPDATE.
StageFreeAlways == TRUE

\* The initiative's row is locked by whoever is about to write its stage.
StageFree == \A o \in Owners : mover[o] = 0

Undecided(g) == gate[g].decision = "none"

-----------------------------------------------------------------------------
\* transitionStage(): the lock and the read, then the write with its event.
BeginStage(o) ==
    /\ StageFree
    /\ stage # Done
    /\ mover' = [mover EXCEPT ![o] = stage]
    /\ UNCHANGED <<benefitVars, stage, announced, gate, worker, decider, required>>

CommitStage(o) ==
    /\ mover[o] # 0
    /\ stage' = mover[o] + 1
    /\ announced' = announced \cup {mover[o]}
    /\ mover' = [mover EXCEPT ![o] = 0]
    /\ UNCHANGED <<benefitVars, gate, worker, decider, required>>

AbortStage(o) ==
    /\ mover[o] # 0
    /\ mover' = [mover EXCEPT ![o] = 0]
    /\ UNCHANGED <<benefitVars, stage, announced, gate, worker, decider, required>>

Does(w, phase) == worker[w].phase = phase
Proceeds(w, phase) == worker' = [worker EXCEPT ![w].phase = phase]
Rests(w) == worker' = [worker EXCEPT ![w] = Unemployed]

\* createPendingFromStageTransition(): ON CONFLICT (transition_dedupe_key).
CreateGate(w, g) ==
    /\ Does(w, "idle")
    /\ g \in announced
    /\ gate' = [gate EXCEPT ![g].exists = TRUE,
                    ![g].evidence = IF gate[g].exists THEN @ ELSE "pending"]
    /\ worker' = [worker EXCEPT ![w] =
                    Work(IF gate[g].case = 0 THEN "find" ELSE "evaluate", g, 0, "absent")]
    /\ UNCHANGED <<benefitVars, stage, mover, announced, decider, required>>

\* getLatestCaseForEntity().
FindCase(w) ==
    /\ Does(w, "find")
    /\ LET found == {i \in DOMAIN cases : cases[i].for = OfGate(worker[w].gate)}
       IN  worker' = [worker EXCEPT
             ![w].phase = IF found = {} THEN "open" ELSE "link",
             ![w].case = IF found = {} THEN 0 ELSE CHOOSE i \in found : \A j \in found : j <= i]
    /\ UNCHANGED <<benefitVars, stage, mover, announced, gate, decider, required>>

OpenGateCase(w) ==
    /\ Does(w, "open")
    /\ Len(cases) < MaxCases
    /\ cases' = Created(OfGate(worker[w].gate))
    /\ worker' = [worker EXCEPT ![w].phase = "link", ![w].case = Len(cases')]
    /\ UNCHANGED <<benefit, baseline, realized, checkin, elapsed, request, requests, sweeper,
                   stage, mover, announced, gate, decider, required>>

\* SET approval_case_id .. WHERE approval_case_id IS NULL.
LinkCase(w) ==
    /\ Does(w, "link")
    /\ gate' = [gate EXCEPT ![worker[w].gate].case = Linked(@, worker[w].case)]
    /\ Proceeds(w, "evaluate")
    /\ UNCHANGED <<benefitVars, stage, mover, announced, decider, required>>

\* evaluateCriteria() is also a request of its own.
Evaluate(w, g) ==
    /\ Does(w, "idle")
    /\ gate[g].exists
    /\ worker' = [worker EXCEPT ![w] = Work("evaluate", g, 0, "absent")]
    /\ UNCHANGED <<benefitVars, stage, mover, announced, gate, decider, required>>

\* A decided gate is refused, an evaluated one left alone; then the facts,
\* which risks and recorded values change at any time.
ReadFacts(w, facts) ==
    /\ Does(w, "evaluate")
    /\ IF Undecided(worker[w].gate) /\ gate[worker[w].gate].evidence = "pending"
       THEN worker' = [worker EXCEPT ![w].phase = "freeze", ![w].facts = facts]
       ELSE Rests(w)
    /\ UNCHANGED <<benefitVars, stage, mover, announced, gate, decider, required>>

\* Mutant: the update has no condition.
StillPendingAlways(g) == TRUE

\* WHERE decision IS NULL AND status = 'pending'.
StillPending(g) == Undecided(g) /\ gate[g].evidence = "pending"

Freeze(w) ==
    /\ Does(w, "freeze")
    /\ gate' = IF StillPending(worker[w].gate)
               THEN [gate EXCEPT ![worker[w].gate].evidence = worker[w].facts] ELSE gate
    /\ Rests(w)
    /\ UNCHANGED <<benefitVars, stage, mover, announced, decider, required>>

WorkerDies(w) ==
    /\ ~Does(w, "idle")
    /\ Rests(w)
    /\ UNCHANGED <<benefitVars, stage, mover, announced, gate, decider, required>>

-----------------------------------------------------------------------------
\* decide(): the checks, the vote on the approval case, and then the gate.

Is(d, phase) == decider[d].phase = phase
Turns(d, phase) == decider' = [decider EXCEPT ![d].phase = phase]
Leaves(d) == decider' = [decider EXCEPT ![d] = Absent]

ReadGate(d, g, decision) ==
    /\ Is(d, "idle")
    /\ gate[g].exists /\ Undecided(g) /\ gate[g].evidence # "pending"
    /\ decider' = [decider EXCEPT ![d] =
          Deciding(IF gate[g].case = 0 THEN "lock" ELSE "case", g, decision, gate[g].case)]
    /\ UNCHANGED <<benefitVars, stage, mover, announced, gate, worker, required>>

ReadCase(d) ==
    /\ Is(d, "case")
    /\ Turns(d, IF cases[decider[d].case].state = "pending" THEN "vote" ELSE "lock")
    /\ UNCHANGED <<benefitVars, stage, mover, announced, gate, worker, required>>

\* transition() refuses a case that somebody else has decided.
Vote(d) ==
    /\ Is(d, "vote")
    /\ LET i == decider[d].case
       IN  IF cases[i].state = "pending"
           THEN /\ cases' = DecidedAs(i, IF decider[d].decision = "stop" THEN "rejected"
                                         ELSE "approved")
                /\ Turns(d, "lock")
           ELSE UNCHANGED cases /\ Leaves(d)
    /\ UNCHANGED <<benefit, baseline, realized, checkin, elapsed, request, requests, sweeper,
                   stage, mover, announced, gate, worker, required>>

\* Mutant: nothing is looked at again under the lock.
OpenToDecisionAlways(g) == TRUE

\* The second look, under the gate's lock; the update repeats it.
OpenToDecision(g) == Undecided(g)

LockGate(d) ==
    /\ Is(d, "lock")
    /\ \A c \in Committee : Is(c, "commit") => decider[c].gate # decider[d].gate
    /\ IF OpenToDecision(decider[d].gate) THEN Turns(d, "commit") ELSE Leaves(d)
    /\ UNCHANGED <<benefitVars, stage, mover, announced, gate, worker, required>>

\* STOP takes the benefit to closure from wherever it is.
Stops ==
    /\ StageFree
    /\ stage' = Done
    /\ benefit' = [benefit EXCEPT !.state = "closure"]

CommitDecision(d) ==
    /\ Is(d, "commit")
    /\ LET g == decider[d].gate
           decision == decider[d].decision
       IN  /\ gate' = [gate EXCEPT ![g].decision = decision]
           /\ required' = IF decision = "intervene" THEN required \cup {g} ELSE required
           /\ IF decision = "stop" THEN Stops ELSE UNCHANGED <<stage, benefit>>
           /\ IF decision = "stop" /\ benefit.state # "closure" /\ benefit.case # 0
              THEN decider' = [decider EXCEPT ![d].phase = "reject", ![d].case = benefit.case]
              ELSE Leaves(d)
    /\ UNCHANGED <<baseline, realized, checkin, elapsed, cases, request, requests, sweeper,
                   mover, announced, worker>>

\* The case of the benefit that was stopped.
RejectCase(d) ==
    /\ Is(d, "reject")
    /\ cases' = IF cases[decider[d].case].state = "pending"
                THEN DecidedAs(decider[d].case, "rejected") ELSE cases
    /\ Leaves(d)
    /\ UNCHANGED <<benefit, baseline, realized, checkin, elapsed, request, requests, sweeper,
                   stage, mover, announced, gate, worker, required>>

DeciderFails(d) ==
    /\ ~Is(d, "idle")
    /\ Leaves(d)
    /\ UNCHANGED <<benefitVars, stage, mover, announced, gate, worker, required>>

Next ==
    \/ BenefitStep /\ UNCHANGED gateVars
    \/ \E o \in Owners : BeginStage(o) \/ CommitStage(o) \/ AbortStage(o)
    \/ \E w \in Workers :
          \/ \E g \in Gates : CreateGate(w, g) \/ Evaluate(w, g)
          \/ FindCase(w) \/ OpenGateCase(w) \/ LinkCase(w) \/ Freeze(w) \/ WorkerDies(w)
          \/ \E facts \in Facts : ReadFacts(w, facts)
    \/ \E d \in Committee :
          \/ \E g \in Gates, decision \in Decisions : ReadGate(d, g, decision)
          \/ ReadCase(d) \/ Vote(d) \/ LockGate(d) \/ CommitDecision(d) \/ RejectCase(d)
          \/ DeciderFails(d)

Spec == Init /\ [][Next]_vars

-----------------------------------------------------------------------------
TypeOK ==
    /\ BenefitTypeOK
    /\ stage \in Start..Done
    /\ mover \in [Owners -> 0..(Done - 1)]
    /\ announced \subseteq Gates
    /\ \A g \in Gates :
          /\ gate[g].exists => g \in announced
          /\ gate[g].case \in 0..Len(cases)
          /\ gate[g].evidence \in {"absent", "pending"} \cup Facts
          /\ gate[g].decision \in Decisions \cup {"none"}
    /\ \A w \in Workers : worker[w].gate \in Gates \cup {0}
    /\ \A d \in Committee : decider[d].gate \in Gates \cup {0}
    /\ required \subseteq {g \in Gates : gate[g].decision = "intervene"}

(***************************************************************************)
(* "Permit exactly one pending -> evaluated snapshot write", and a gate    *)
(* that "has already been decided" is not decided again: what a gate was   *)
(* judged by, and the decision, stand once they are there, whoever         *)
(* evaluates or decides it at the same time.                               *)
(***************************************************************************)
GatesStand ==
    [][\A g \in Gates :
          /\ ~Undecided(g) => gate'[g].decision = gate[g].decision
          /\ gate[g].evidence \in Facts =>
                gate'[g].evidence = gate[g].evidence]_vars

(***************************************************************************)
(* An initiative that the committee stopped is done, even when its owner   *)
(* was moving it to another stage at that moment.                          *)
(***************************************************************************)
StopIsTerminal == \A g \in Gates : gate[g].decision = "stop" => stage = Done
=============================================================================
