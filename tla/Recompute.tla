------------------------------ MODULE Recompute ------------------------------
(***************************************************************************)
(* The recompute subscriber, composed with the measurements that trigger   *)
(* it.  An event (a recorded row, or the closing of the capture window)    *)
(* reaches a worker at least once; the worker looks for a result of that   *)
(* event, resolves the effective row, asks the rules engine, reads the     *)
(* latest status, and only then opens the transaction that inserts the new *)
(* status with its outbox events.  The roll-up of the parent KPI follows.  *)
(*                                                                         *)
(* The transport is EventDelivery's promise: an event whose handling has   *)
(* not ended is delivered, perhaps to a second worker while the first one  *)
(* still runs.  Event n is that of row n; WindowClosed is the window's.    *)
(* computedAt is a reading of one clock.                                   *)
(***************************************************************************)
EXTENDS Measurements

CONSTANTS
    Workers,             \* dispatch workers running the subscriber
    WindowClosed,        \* the schedule.window.closed event of the period
    Label(_),            \* the published threshold rule
    OffTrack,            \* OFF_TRACK_STATUS
    NoLabel,             \* there is no status yet
    MaxFaults            \* bound on handlings that fail or die

ASSUME WindowAssumption == WindowClosed \notin Nat

VARIABLES
    active,              \* the KPI is active under this version
    closed,              \* the window has closed
    handled,             \* events whose dispatch job has completed
    worker,              \* what each worker has read so far
    statuses,            \* performance.status_results of the series, each with
                         \* the row it was computed from
    rollups,             \* performance.rollup_results of the parent
    breaches,            \* threshold.breached events in the outbox
    clock,               \* readings of the clock so far
    faults

recomputeVars == <<active, closed, handled, worker, statuses, rollups, breaches,
                   clock, faults>>
vars == <<measurementVars, recomputeVars>>

Events == DOMAIN rows \cup (IF closed THEN {WindowClosed} ELSE {})
Phases == {"idle", "version", "find", "resolve", "previous", "insert",
           "findRollup", "children", "insertRollup"}
Labels == {Label(v) : v \in Values}
Free == [phase |-> "idle", event |-> 0, row |-> 0, previous |-> NoLabel, stamp |-> 0]

\* Mutant: the dedupe key is not UNIQUE.
KeyTakenNever(results, e) == FALSE

\* dedupe_key is UNIQUE in either table.
KeyTaken(results, e) == \E r \in results : r.event = e

\* The look-up by that key before anything is computed.
Computed(results, e) == \E r \in results : r.event = e

\* getStatus(), and the look at the previous status: the greatest computedAt.
Latest == IF statuses = {} THEN NoLabel
          ELSE (CHOOSE r \in statuses : \A s \in statuses : s.at <= r.at).status

\* "Breach fires only on an actual transition": what evaluateStatus makes of it.
Crosses(previous, status) ==
    previous # NoLabel /\ status = OffTrack /\ previous # OffTrack

Init == /\ MeasurementInit
        /\ active = TRUE
        /\ closed = FALSE
        /\ handled = {}
        /\ worker = [w \in Workers |-> Free]
        /\ statuses = {} /\ rollups = {} /\ breaches = {}
        /\ clock = 0
        /\ faults = 0

\* Mutant: the event is lost on the way to the next step.
FreshWithoutEvent(e) == Free

\* What was read for the status is not used for the roll-up.
Fresh(e) == [Free EXCEPT !.event = e]
Goes(w, phase) == worker' = [worker EXCEPT ![w] =
                               [Fresh(worker[w].event) EXCEPT !.phase = phase]]
Ends(w) == /\ worker' = [worker EXCEPT ![w] = Free]
           /\ handled' = handled \cup {worker[w].event}
In(w, phase) == worker[w].phase = phase

-----------------------------------------------------------------------------
\* The scheduler closes the window; Registry activates another version.

CloseWindow == /\ ~closed
               /\ closed' = TRUE
               /\ UNCHANGED <<measurementVars, active, handled, worker, statuses,
                              rollups, breaches, clock, faults>>

Retire == /\ active
          /\ active' = FALSE
          /\ UNCHANGED <<measurementVars, closed, handled, worker, statuses,
                         rollups, breaches, clock, faults>>

\* handle(): the event becomes a request.
Deliver(w, e) ==
    /\ In(w, "idle")
    /\ e \in Events \ handled
    /\ worker' = [worker EXCEPT ![w] = [Fresh(e) EXCEPT !.phase = "version"]]
    /\ UNCHANGED <<measurementVars, active, closed, handled, statuses, rollups,
                   breaches, clock, faults>>

\* recompute(): nothing is computed for a version that is not the active one.
ReadVersion(w) ==
    /\ In(w, "version")
    /\ IF active THEN Goes(w, "find") /\ UNCHANGED handled ELSE Ends(w)
    /\ UNCHANGED <<measurementVars, active, closed, statuses, rollups, breaches,
                   clock, faults>>

FindStatus(w) ==
    /\ In(w, "find")
    /\ Goes(w, IF Computed(statuses, worker[w].event) THEN "findRollup" ELSE "resolve")
    /\ UNCHANGED <<measurementVars, active, closed, handled, statuses, rollups,
                   breaches, clock, faults>>

\* Without an effective measurement there is no status to compute.
ResolveMeasurement(w) ==
    /\ In(w, "resolve")
    /\ IF Current = 0 THEN Goes(w, "findRollup")
       ELSE worker' = [worker EXCEPT ![w].row = Current, ![w].phase = "previous"]
    /\ UNCHANGED <<measurementVars, active, closed, handled, statuses, rollups,
                   breaches, clock, faults>>

\* The latest status is read outside the transaction, then the clock.
ReadPrevious(w) ==
    /\ In(w, "previous")
    /\ clock' = clock + 1
    /\ worker' = [worker EXCEPT ![w].previous = Latest, ![w].stamp = clock + 1,
                                ![w].phase = "insert"]
    /\ UNCHANGED <<measurementVars, active, closed, handled, statuses, rollups,
                   breaches, faults>>

\* The result and its events in one transaction; whoever comes second with the
\* same key takes the first one's result.
InsertStatus(w) ==
    /\ In(w, "insert")
    /\ LET e == worker[w].event
           status == Label(rows[worker[w].row].value)
           previous == worker[w].previous
       IN  IF KeyTaken(statuses, e)
           THEN UNCHANGED <<statuses, breaches>>
           ELSE /\ statuses' = statuses \cup
                     {[event |-> e, row |-> worker[w].row, status |-> status,
                       at |-> worker[w].stamp]}
                /\ breaches' = IF Crosses(previous, status) THEN breaches \cup {e}
                               ELSE breaches
    /\ Goes(w, "findRollup")
    /\ UNCHANGED <<measurementVars, active, closed, handled, rollups, clock, faults>>

FindRollup(w) ==
    /\ In(w, "findRollup")
    /\ IF Computed(rollups, worker[w].event) THEN Ends(w)
       ELSE Goes(w, "children") /\ UNCHANGED handled
    /\ UNCHANGED <<measurementVars, active, closed, statuses, rollups, breaches,
                   clock, faults>>

\* The parent's only active child is this KPI, with its effective row or none.
ReadChildren(w) ==
    /\ In(w, "children")
    /\ worker' = [worker EXCEPT ![w].row = IF active THEN Current ELSE 0,
                                ![w].phase = "insertRollup"]
    /\ UNCHANGED <<measurementVars, active, closed, handled, statuses, rollups,
                   breaches, clock, faults>>

InsertRollup(w) ==
    /\ In(w, "insertRollup")
    /\ rollups' = IF KeyTaken(rollups, worker[w].event) THEN rollups
                  ELSE rollups \cup {[event |-> worker[w].event, row |-> worker[w].row]}
    /\ Ends(w)
    /\ UNCHANGED <<measurementVars, active, closed, statuses, breaches, clock, faults>>

\* A rule that does not evaluate, a lost connection, a dead process: the job is
\* tried again.
Fail(w) ==
    /\ ~In(w, "idle")
    /\ faults < MaxFaults
    /\ faults' = faults + 1
    /\ worker' = [worker EXCEPT ![w] = Free]
    /\ UNCHANGED <<measurementVars, active, closed, handled, statuses, rollups,
                   breaches, clock>>

WorkerStep(w) ==
    \/ ReadVersion(w) \/ FindStatus(w) \/ ResolveMeasurement(w) \/ ReadPrevious(w)
    \/ InsertStatus(w) \/ FindRollup(w) \/ ReadChildren(w) \/ InsertRollup(w)
Next ==
    \/ MeasurementNext /\ UNCHANGED recomputeVars
    \/ CloseWindow \/ Retire
    \/ \E w \in Workers :
          \/ WorkerStep(w) \/ Fail(w)
          \/ \E e \in Events : Deliver(w, e)

Spec == Init /\ [][Next]_vars

-----------------------------------------------------------------------------
TypeOK ==
    /\ MeasurementTypeOK
    /\ active \in BOOLEAN /\ closed \in BOOLEAN
    /\ handled \subseteq Events
    /\ \A w \in Workers :
          /\ worker[w].phase \in Phases
          /\ worker[w].phase # "idle" => worker[w].event \in Events
          /\ worker[w].row \in 0..Len(rows)
          /\ worker[w].previous \in Labels \cup {NoLabel}
          /\ worker[w].stamp \in 0..clock
    /\ \A r \in statuses : r.event \in Events /\ r.row \in DOMAIN rows /\ r.at \in 1..clock
    /\ \A r \in rollups : r.event \in Events /\ r.row \in 0..Len(rows)
    /\ breaches \subseteq {r.event : r \in {q \in statuses : q.status = OffTrack}}

(***************************************************************************)
(* A redelivered event, even to a second worker at the same time, writes   *)
(* nothing new: an event has one status and one roll-up.                   *)
(***************************************************************************)
OncePerEvent ==
    /\ \A r, s \in statuses : r.event = s.event => r = s
    /\ \A r, s \in rollups : r.event = s.event => r = s

(***************************************************************************)
(* A status is never of a row older than the event that asked for it: the  *)
(* row is resolved after the event is committed, however late or often the *)
(* event is handled.                                                       *)
(***************************************************************************)
FreshAsItsEvent ==
    \A r \in statuses :
        /\ r.event \in Nat => r.row >= r.event
        /\ r.status = Label(rows[r.row].value)

=============================================================================
