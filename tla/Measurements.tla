---------------------------- MODULE Measurements ----------------------------
(***************************************************************************)
(* Measurements of one series (KPI version, scope, period) and the capture *)
(* sessions that submit them.  Rows are only inserted; a correction names  *)
(* the row it supersedes.  record() is one transaction under the series'   *)
(* advisory lock; a capture session is read, checked and updated in        *)
(* statements of their own, with nothing held between them.                *)
(*                                                                         *)
(* Rows are a sequence in the order of their creation, a row's identity is *)
(* its index and 0 is no row.  Rows of kind FEED or TEMPLATE come from     *)
(* callers outside the module, which may name any row as the one to        *)
(* supersede.                                                              *)
(***************************************************************************)
EXTENDS Naturals, Sequences

CONSTANTS
    Callers,             \* open requests of users and importers
    Nobody,              \* the series lock is free
    Values,              \* measured values
    Imports,             \* kinds of row that feeds and templates bring
    MaxRows,             \* bound on measurements of the series
    MaxSessions          \* bound on capture sessions of the series

ASSUME CallersAssumption == Nobody \notin Callers
ASSUME ImportsAssumption ==
    Imports \subseteq [source : {"FEED", "TEMPLATE"}, locked : BOOLEAN]
ASSUME BoundsAssumption == MaxRows \in Nat /\ MaxSessions \in Nat

Manual == [source |-> "MANUAL", locked |-> FALSE]
Kinds == {Manual} \cup Imports
SessionStates == {"DRAFT", "SUBMITTED", "RECALLED"}
Stages == {"idle", "start", "resolve", "record", "insert", "mark", "recall", "consume"}

VARIABLES
    rows,                \* performance.measurements of the series
    lock,                \* holder of its advisory lock
    session,             \* capture sessions of the series, oldest first
    caller               \* what each open request has read so far

measurementVars == <<rows, lock, session, caller>>

Row == [value : Values, kind : Kinds, supersedes : Nat]
Session == [state : SessionStates, measurement : Nat, consumed : BOOLEAN]
\* An open request: where it is, its session, the row to supersede or just
\* inserted, and the kind of row it brings.
Request(stage, s, target, kind) ==
    [stage |-> stage, session |-> s, target |-> target, kind |-> kind]
Idle == Request("idle", 0, 0, Manual)

Superseded(i) == \E j \in DOMAIN rows : rows[j].supersedes = i
Effective == {i \in DOMAIN rows : ~Superseded(i)}

\* Mutant: the oldest row, superseded or not.
CurrentFirst == IF rows = <<>> THEN 0 ELSE 1

\* resolveCurrent(): the newest effective row, or none.
Current == IF Effective = {} THEN 0
           ELSE CHOOSE i \in Effective : \A j \in Effective : j <= i

\* validateSupersession(): the rows this transaction sees allow the insert.
ValidSupersession(target, kind) ==
    IF target = 0 THEN Effective = {}
    ELSE /\ target \in DOMAIN rows
         /\ ~Superseded(target)
         /\ rows[target].kind.locked => kind.source = "FEED"

MeasurementInit ==
    /\ rows = <<>>
    /\ lock = Nobody
    /\ session = <<>>
    /\ caller = [c \in Callers |-> Idle]

Becomes(c, state) == caller' = [caller EXCEPT ![c] = state]
At(c, stage) == caller[c].stage = stage

-----------------------------------------------------------------------------
\* startSession(): read the newest session, then reopen it or create one.

StartRead(c) ==
    /\ At(c, "idle")
    /\ LET n == Len(session)
       IN  /\ n # 0 => session[n].state = "RECALLED"
           /\ Becomes(c, Request("start", n, 0, Manual))
    /\ UNCHANGED <<rows, lock, session>>

StartWrite(c) ==
    /\ At(c, "start")
    /\ LET n == caller[c].session
       IN  IF n = 0
           THEN /\ Len(session) < MaxSessions
                /\ session' = Append(session, [state |-> "DRAFT", measurement |-> 0,
                                               consumed |-> FALSE])
           ELSE session' = [session EXCEPT ![n].state = "DRAFT"]
    /\ Becomes(c, Idle)
    /\ UNCHANGED <<rows, lock>>

\* submit(): the session is checked, the effective row resolved, the
\* measurement recorded in its own transaction, and the session updated.

SubmitRead(c, s) ==
    /\ At(c, "idle")
    /\ s \in DOMAIN session
    /\ session[s].state = "DRAFT"
    /\ Len(rows) < MaxRows
    /\ Becomes(c, Request("resolve", s, 0, Manual))
    /\ UNCHANGED <<rows, lock, session>>

SubmitResolve(c) ==
    /\ At(c, "resolve")
    /\ Becomes(c, Request("record", caller[c].session, Current, Manual))
    /\ UNCHANGED <<rows, lock, session>>

SubmitMark(c) ==
    /\ At(c, "mark")
    /\ session' = [session EXCEPT ![caller[c].session].state = "SUBMITTED",
                                  ![caller[c].session].measurement = caller[c].target]
    /\ Becomes(c, Idle)
    /\ UNCHANGED <<rows, lock>>

\* A feed or a template brings a row, superseding whichever its caller named.
Import(c, kind, target) ==
    /\ At(c, "idle")
    /\ target \in {0} \cup DOMAIN rows
    /\ Len(rows) < MaxRows
    /\ Becomes(c, Request("record", 0, target, kind))
    /\ UNCHANGED <<rows, lock, session>>

\* Mutant: the transaction does not wait for the lock.
LockFreeAlways(c) == TRUE

LockFree(c) == lock = Nobody

\* record(): lock and validate; a row that is not allowed rolls back.
BeginRecord(c) ==
    /\ At(c, "record")
    /\ LockFree(c)
    /\ IF ValidSupersession(caller[c].target, caller[c].kind)
       THEN /\ lock' = c
            /\ Becomes(c, Request("insert", caller[c].session, caller[c].target,
                                  caller[c].kind))
       ELSE UNCHANGED lock /\ Becomes(c, Idle)
    /\ UNCHANGED <<rows, session>>

\* Insert, publish, commit.  supersedes_id is UNIQUE, so a second row that
\* supersedes the same one fails.  A submission goes on to its session.
CommitRecord(c, value) ==
    /\ At(c, "insert")
    /\ Len(rows) < MaxRows
    /\ lock' = IF lock = c THEN Nobody ELSE lock
    /\ IF caller[c].target # 0 /\ Superseded(caller[c].target)
       THEN UNCHANGED rows /\ Becomes(c, Idle)
       ELSE /\ rows' = Append(rows, [value |-> value, kind |-> caller[c].kind,
                                     supersedes |-> caller[c].target])
            /\ Becomes(c, IF caller[c].kind = Manual
                          THEN Request("mark", caller[c].session, Len(rows) + 1, Manual)
                          ELSE Idle)
    /\ UNCHANGED session

\* recall(): allowed to the owner or a steward before the cutoff; whether the
\* deadline has passed is the caller's \E.
RecallRead(c, s) ==
    /\ At(c, "idle")
    /\ s \in DOMAIN session
    /\ session[s].state = "SUBMITTED"
    /\ ~session[s].consumed
    /\ Becomes(c, Request("recall", s, 0, Manual))
    /\ UNCHANGED <<rows, lock, session>>

RecallWrite(c) ==
    /\ At(c, "recall")
    /\ session' = [session EXCEPT ![caller[c].session].state = "RECALLED"]
    /\ Becomes(c, Idle)
    /\ UNCHANGED <<rows, lock>>

\* markConsumed(): the downstream consumer takes the submission.
ConsumeRead(c, s) ==
    /\ At(c, "idle")
    /\ s \in DOMAIN session
    /\ ~session[s].consumed
    /\ Becomes(c, Request("consume", s, 0, Manual))
    /\ UNCHANGED <<rows, lock, session>>

ConsumeWrite(c) ==
    /\ At(c, "consume")
    /\ session' = [session EXCEPT ![caller[c].session].consumed = TRUE]
    /\ Becomes(c, Idle)
    /\ UNCHANGED <<rows, lock>>

\* The request dies: a transaction rolls back and its lock goes.
CallerDies(c) ==
    /\ ~At(c, "idle")
    /\ lock' = IF lock = c THEN Nobody ELSE lock
    /\ Becomes(c, Idle)
    /\ UNCHANGED <<rows, session>>

CallerStep(c) ==
    \/ StartRead(c) \/ StartWrite(c)
    \/ \E s \in DOMAIN session :
          SubmitRead(c, s) \/ RecallRead(c, s) \/ ConsumeRead(c, s)
    \/ SubmitResolve(c) \/ SubmitMark(c)
    \/ \E kind \in Imports, target \in 0..Len(rows) : Import(c, kind, target)
    \/ BeginRecord(c)
    \/ \E value \in Values : CommitRecord(c, value)
    \/ RecallWrite(c) \/ ConsumeWrite(c)
    \/ CallerDies(c)

MeasurementNext == \E c \in Callers : CallerStep(c)
MeasurementSpec == MeasurementInit /\ [][MeasurementNext]_measurementVars

-----------------------------------------------------------------------------
MeasurementTypeOK ==
    /\ rows \in Seq(Row)
    /\ lock \in Callers \cup {Nobody}
    /\ session \in Seq(Session)
    /\ caller \in [Callers -> [stage : Stages, session : Nat, target : Nat,
                               kind : Kinds]]

(***************************************************************************)
(* Corrections form one chain: each row supersedes the one created just    *)
(* before it, so that there is one effective measurement at any instant    *)
(* and none is lost, whoever races to record or to correct.                *)
(***************************************************************************)
ChainIsLinear == \A i \in DOMAIN rows : rows[i].supersedes = i - 1
=============================================================================
