------------------------- MODULE MeasurementsProofs -------------------------
(* The corrections of a series form one chain, for any set of callers; each *)
(* event has one status, of a row no older than it, for any set of workers. *)
EXTENDS Recompute, TLAPS

\* The holder of the lock has validated against the rows as they still are.
Validated ==
    \A c \in Callers : caller[c].stage = "insert" =>
        lock = c /\ caller[c].target = Len(rows)

ChainInv ==
    /\ rows \in Seq(Row)
    /\ DOMAIN caller = Callers
    /\ \A c \in Callers : caller[c].target \in Nat /\ caller[c].kind \in Kinds
    /\ ChainIsLinear
    /\ Validated

(***************************************************************************)
(* What validation lets through names the newest row, if the rows form a   *)
(* chain: any other is superseded by the one after it.                     *)
(***************************************************************************)
LEMMA ValidNamesNewest ==
    ASSUME rows \in Seq(Row), ChainIsLinear,
           NEW t \in Nat, NEW k, ValidSupersession(t, k)
    PROVE  t = Len(rows)
<1> DEFINE n == Len(rows)
<1>1. n \in Nat /\ DOMAIN rows = 1..n
    OBVIOUS
<1> HIDE DEF n
<1>2. ASSUME t = 0, n # 0 PROVE FALSE
    <2>1. n \in DOMAIN rows
        BY <1>1, <1>2
    <2>2. ~Superseded(n)
        BY <1>1 DEF Superseded, ChainIsLinear
    <2> QED BY <1>2, <2>1, <2>2 DEF ValidSupersession, Effective
<1>3. ASSUME t # 0 PROVE t = n
    <2>1. t \in DOMAIN rows /\ ~Superseded(t)
        BY <1>3 DEF ValidSupersession
    <2>2. ASSUME t < n PROVE FALSE
        <3>1. t + 1 \in DOMAIN rows
            BY <1>1, <2>1, <2>2
        <3>2. rows[t + 1].supersedes = (t + 1) - 1
            BY <3>1 DEF ChainIsLinear
        <3>3. rows[t + 1].supersedes = t
            BY <3>2
        <3> QED BY <2>1, <3>1, <3>3 DEF Superseded
    <2> QED BY <1>1, <2>1, <2>2
<1> QED BY <1>2, <1>3 DEF n

(***************************************************************************)
(* The row that resolveCurrent() gives is the newest there is: at least as *)
(* new as an event that was committed before.                              *)
(***************************************************************************)
LEMMA CurrentIsNewest ==
    ASSUME rows \in Seq(Row), ChainIsLinear
    PROVE  Current = Len(rows)
<1> DEFINE n == Len(rows)
<1>1. n \in Nat /\ DOMAIN rows = 1..n
    OBVIOUS
<1> HIDE DEF n
<1>2. \A i \in 1..n : i < n => Superseded(i)
    <2> SUFFICES ASSUME NEW i \in 1..n, i < n PROVE Superseded(i)
        OBVIOUS
    <2>1. i + 1 \in DOMAIN rows /\ (i + 1) - 1 = i
        BY <1>1
    <2> QED BY <2>1 DEF ChainIsLinear, Superseded
<1>3. n # 0 => n \in DOMAIN rows /\ ~Superseded(n)
    BY <1>1 DEF Superseded, ChainIsLinear
<1>4. Effective = IF n = 0 THEN {} ELSE {n}
    BY <1>1, <1>2, <1>3 DEF Effective
<1> QED BY <1>1, <1>4 DEF Current, n

LEMMA InitChain == MeasurementInit => ChainInv
<1> SUFFICES ASSUME MeasurementInit PROVE ChainInv
    OBVIOUS
<1>1. rows = <<>> /\ caller = [c \in Callers |-> Idle]
    BY DEF MeasurementInit
<1> QED BY <1>1 DEF ChainInv, ChainIsLinear, Validated, Idle, Request, Kinds

(***************************************************************************)
(* A step that leaves the rows alone and does not put its caller in the    *)
(* middle of an insert keeps the invariant.                                *)
(***************************************************************************)
LEMMA QuietStep ==
    ASSUME ChainInv, NEW c \in Callers,
           NEW stage, stage # "insert", NEW s, NEW t \in Nat, NEW k \in Kinds,
           caller' = [caller EXCEPT ![c] = Request(stage, s, t, k)],
           rows' = rows,
           lock' = lock \/ lock' = (IF lock = c THEN Nobody ELSE lock)
    PROVE  ChainInv'
<1>1. /\ DOMAIN caller' = Callers
      /\ caller'[c] = Request(stage, s, t, k)
      /\ \A b \in Callers \ {c} : caller'[b] = caller[b]
    BY DEF ChainInv
<1>2. \A b \in Callers : caller'[b].target \in Nat /\ caller'[b].kind \in Kinds
    BY <1>1 DEF ChainInv, Request
<1>3. ChainIsLinear'
    BY DEF ChainInv, ChainIsLinear
<1>4. Validated'
    <2> SUFFICES ASSUME NEW d \in Callers, caller'[d].stage = "insert"
                 PROVE  lock' = d /\ caller'[d].target = Len(rows')
        BY DEF Validated
    <2>1. d # c /\ caller'[d] = caller[d]
        BY <1>1 DEF Request
    <2>2. lock = d /\ caller[d].target = Len(rows)
        BY <2>1 DEF ChainInv, Validated
    <2> QED BY <2>1, <2>2
<1> QED BY <1>1, <1>2, <1>3, <1>4 DEF ChainInv

(***************************************************************************)
(* Every step of a caller keeps the chain.                                 *)
(***************************************************************************)
LEMMA StepKeepsChain ==
    ASSUME ChainInv, NEW c \in Callers, CallerStep(c)
    PROVE  ChainInv'
<1> USE DEF Becomes, At
<1>0. /\ Manual \in Kinds /\ Imports \subseteq Kinds
      /\ caller[c].target \in Nat /\ caller[c].kind \in Kinds
      /\ Len(rows) \in Nat /\ DOMAIN rows = 1..Len(rows)
    BY DEF ChainInv, Kinds
<1>1. CASE StartRead(c)
    BY <1>0, <1>1, QuietStep DEF StartRead
<1>2. CASE StartWrite(c)
    <2>1. /\ caller' = [caller EXCEPT ![c] = Request("idle", 0, 0, Manual)]
          /\ rows' = rows /\ lock' = lock
        BY <1>2, Zenon DEF StartWrite, Idle
    <2> QED BY <1>0, <2>1, QuietStep
<1>3. ASSUME NEW s \in DOMAIN session,
             SubmitRead(c, s) \/ RecallRead(c, s) \/ ConsumeRead(c, s)
      PROVE  ChainInv'
    <2>1. \E stage \in {"resolve", "recall", "consume"} :
              caller' = [caller EXCEPT ![c] = Request(stage, s, 0, Manual)]
        BY <1>3 DEF SubmitRead, RecallRead, ConsumeRead
    <2>2. rows' = rows /\ lock' = lock
        BY <1>3 DEF SubmitRead, RecallRead, ConsumeRead
    <2> QED BY <1>0, <2>1, <2>2, QuietStep
<1>4. CASE SubmitResolve(c)
    <2>1. Current \in Nat
        BY <1>0, CurrentIsNewest DEF ChainInv
    <2> QED BY <1>0, <1>4, <2>1, QuietStep DEF SubmitResolve
<1>5. CASE SubmitMark(c) \/ RecallWrite(c) \/ ConsumeWrite(c)
    <2>1. /\ caller' = [caller EXCEPT ![c] = Request("idle", 0, 0, Manual)]
          /\ rows' = rows /\ lock' = lock
        BY <1>5 DEF SubmitMark, RecallWrite, ConsumeWrite, Idle
    <2> QED BY <1>0, <2>1, QuietStep
<1>6. ASSUME NEW kind \in Imports, NEW t \in 0..Len(rows), Import(c, kind, t)
      PROVE  ChainInv'
    <2>1. t \in Nat /\ kind \in Kinds
        BY <1>0
    <2> QED BY <1>6, <2>1, QuietStep DEF Import
<1>7. CASE BeginRecord(c)
    <2>1. CASE ValidSupersession(caller[c].target, caller[c].kind)
        <3>1. caller[c].target = Len(rows)
            BY <1>0, <2>1, ValidNamesNewest DEF ChainInv
        <3>2. /\ lock = Nobody /\ lock' = c /\ rows' = rows
              /\ caller' = [caller EXCEPT ![c] = Request("insert", caller[c].session,
                                                 caller[c].target, caller[c].kind)]
            BY <1>7, <2>1 DEF BeginRecord, LockFree
        <3>3. /\ DOMAIN caller' = Callers
              /\ caller'[c].target = Len(rows) /\ caller'[c].kind = caller[c].kind
              /\ \A d \in Callers \ {c} : caller'[d] = caller[d]
            BY <3>1, <3>2 DEF ChainInv, Request
        <3>4. \A d \in Callers : caller[d].stage # "insert"
            BY <3>2, CallersAssumption DEF ChainInv, Validated
        <3>5. ChainIsLinear' /\ Validated'
            BY <3>2, <3>3, <3>4 DEF ChainInv, ChainIsLinear, Validated
        <3>6. \A d \in Callers : caller'[d].target \in Nat /\ caller'[d].kind \in Kinds
            BY <1>0, <3>3 DEF ChainInv
        <3> QED BY <3>2, <3>3, <3>5, <3>6 DEF ChainInv
    <2>2. CASE ~ValidSupersession(caller[c].target, caller[c].kind)
        BY <1>0, <1>7, <2>2, QuietStep DEF BeginRecord, Idle
    <2> QED BY <2>1, <2>2
<1>8. ASSUME NEW value \in Values, CommitRecord(c, value) PROVE ChainInv'
    <2> DEFINE row == [value |-> value, kind |-> caller[c].kind,
                       supersedes |-> caller[c].target]
    <2>1. lock = c /\ caller[c].target = Len(rows)
        BY <1>8 DEF CommitRecord, ChainInv, Validated
    <2>2. ~(caller[c].target # 0 /\ Superseded(caller[c].target))
        BY <1>0, <2>1 DEF Superseded, ChainInv, ChainIsLinear
    <2>3. /\ rows' = Append(rows, row) /\ lock' = Nobody
          /\ \E stage \in {"mark", "idle"}, s \in {0, caller[c].session},
                t \in {0, Len(rows) + 1} :
                caller' = [caller EXCEPT ![c] = Request(stage, s, t, Manual)]
        BY <1>8, <2>1, <2>2 DEF CommitRecord, Idle
    <2>4. row \in Row
        BY <1>0 DEF Row
    <2>5. /\ rows' \in Seq(Row) /\ Len(rows') = Len(rows) + 1
          /\ DOMAIN rows' = 1..Len(rows) + 1
          /\ rows'[Len(rows) + 1] = row
          /\ \A i \in 1..Len(rows) : rows'[i] = rows[i]
        BY <1>0, <2>3, <2>4 DEF ChainInv
    <2>6. ChainIsLinear'
        BY <1>0, <2>1, <2>5 DEF ChainInv, ChainIsLinear
    <2>7. /\ DOMAIN caller' = Callers
          /\ caller'[c].stage # "insert"
          /\ caller'[c].target \in Nat /\ caller'[c].kind \in Kinds
          /\ \A d \in Callers \ {c} : caller'[d] = caller[d] /\ caller[d].stage # "insert"
        BY <1>0, <2>1, <2>3 DEF ChainInv, Validated, Request
    <2>8. Validated'
        BY <2>7 DEF Validated
    <2>9. \A d \in Callers : caller'[d].target \in Nat /\ caller'[d].kind \in Kinds
        BY <2>7 DEF ChainInv
    <2> QED BY <2>5, <2>6, <2>7, <2>8, <2>9 DEF ChainInv
<1>9. CASE CallerDies(c)
    BY <1>0, <1>9, QuietStep DEF CallerDies, Idle
<1> QED
    BY <1>1, <1>2, <1>3, <1>4, <1>5, <1>6, <1>7, <1>8, <1>9 DEF CallerStep

LEMMA NextKeepsChain == ChainInv /\ [MeasurementNext]_measurementVars => ChainInv'
<1> SUFFICES ASSUME ChainInv, [MeasurementNext]_measurementVars PROVE ChainInv'
    OBVIOUS
<1>1. CASE UNCHANGED measurementVars
    BY <1>1 DEF measurementVars, ChainInv, ChainIsLinear, Validated
<1>2. CASE MeasurementNext
    BY <1>2, StepKeepsChain DEF MeasurementNext
<1> QED BY <1>1, <1>2

(***************************************************************************)
(* However many callers race to record and to correct, the measurements of *)
(* a series are one chain (ChainIsLinear).                                 *)
(***************************************************************************)
THEOREM ChainStaysLinear == MeasurementSpec => []ChainIsLinear
<1>1. ChainInv => ChainIsLinear
    BY DEF ChainInv
<1> QED BY <1>1, InitChain, NextKeepsChain, PTL DEF MeasurementSpec

-----------------------------------------------------------------------------
\* Rows are only added.
RowsAdded ==
    /\ Len(rows) <= Len(rows')
    /\ \A i \in DOMAIN rows : i \in DOMAIN rows' /\ rows'[i] = rows[i]

LEMMA CallersOnlyAdd ==
    ASSUME ChainInv, [MeasurementNext]_measurementVars
    PROVE  RowsAdded
<1>1. Len(rows) \in Nat /\ DOMAIN rows = 1..Len(rows)
    BY DEF ChainInv
<1>2. rows' = rows \/ \E r : rows' = Append(rows, r)
    BY DEF MeasurementNext, CallerStep, StartRead, StartWrite, SubmitRead, RecallRead,
           ConsumeRead, SubmitResolve, SubmitMark, Import, BeginRecord, CommitRecord,
           RecallWrite, ConsumeWrite, CallerDies, measurementVars
<1>3. CASE rows' = rows
    BY <1>1, <1>3 DEF RowsAdded
<1>4. ASSUME NEW r, rows' = Append(rows, r) PROVE RowsAdded
    BY <1>1, <1>4 DEF RowsAdded, ChainInv
<1> QED BY <1>2, <1>3, <1>4

\* What a worker carries: the event was committed before, and the row read for
\* its status is no older.
Carries(w) ==
    LET e == worker[w].event
        row == worker[w].row
    IN  /\ e \in Nat => e <= Len(rows)
        /\ worker[w].phase \in {"previous", "insert"} =>
              row \in DOMAIN rows /\ (e \in Nat => row >= e)

ResultInv ==
    /\ ChainInv
    /\ DOMAIN worker = Workers
    /\ \A w \in Workers : Carries(w)
    /\ \A r \in statuses : r.row \in DOMAIN rows
    /\ OncePerEvent
    /\ FreshAsItsEvent

LEMMA ResultsInitially == Init => ResultInv
<1> SUFFICES ASSUME Init PROVE ResultInv
    OBVIOUS
<1>1. ChainInv /\ rows = <<>>
    BY InitChain DEF Init, MeasurementInit
<1>2. statuses = {} /\ rollups = {} /\ worker = [w \in Workers |-> Free]
    BY DEF Init
<1>3. \A w \in Workers : Carries(w)
    BY <1>1, <1>2 DEF Carries, Free
<1> QED BY <1>1, <1>2, <1>3 DEF ResultInv, OncePerEvent, FreshAsItsEvent

\* Rows that are added spoil nothing that was read or computed.
LEMMA MoreRows ==
    ASSUME ResultInv, ChainInv', RowsAdded, UNCHANGED <<worker, statuses, rollups>>
    PROVE  ResultInv'
<1>1. Len(rows) \in Nat /\ Len(rows') \in Nat
    BY DEF ResultInv, ChainInv
<1>2. \A w \in Workers : Carries(w)'
    BY <1>1 DEF ResultInv, Carries, RowsAdded
<1>3. \A r \in statuses' : r.row \in DOMAIN rows'
    BY DEF ResultInv, RowsAdded
<1>4. OncePerEvent'
    BY DEF ResultInv, OncePerEvent
<1>5. FreshAsItsEvent'
    <2> SUFFICES ASSUME NEW r \in statuses
                 PROVE  /\ r.event \in Nat => r.row >= r.event
                        /\ r.status = Label(rows'[r.row].value)
        BY DEF FreshAsItsEvent
    <2>1. r.row \in DOMAIN rows /\ rows'[r.row] = rows[r.row]
        BY DEF ResultInv, RowsAdded
    <2> QED BY <2>1 DEF ResultInv, FreshAsItsEvent
<1> QED BY <1>2, <1>3, <1>4, <1>5 DEF ResultInv

\* A worker that writes nothing, and goes on with the event it has, with one
\* that was just delivered, or with none.
LEMMA WorkerReads ==
    ASSUME ResultInv, UNCHANGED <<measurementVars, statuses, rollups>>,
           NEW w \in Workers, NEW state, worker' = [worker EXCEPT ![w] = state],
           state.event \in Nat => state.event <= Len(rows),
           state.phase \in {"previous", "insert"} =>
              /\ state.row \in DOMAIN rows
              /\ state.event \in Nat => state.row >= state.event
    PROVE  ResultInv'
<1>1. UNCHANGED rows /\ ChainInv'
    BY DEF measurementVars, ResultInv, ChainInv, ChainIsLinear, Validated
<1>2. DOMAIN worker' = Workers
      /\ \A v \in Workers : worker'[v] = IF v = w THEN state ELSE worker[v]
    BY DEF ResultInv
<1>3. \A v \in Workers : Carries(v)'
    <2> SUFFICES ASSUME NEW v \in Workers PROVE Carries(v)'
        OBVIOUS
    <2>1. CASE v = w
        BY <1>1, <1>2, <2>1 DEF Carries
    <2>2. CASE v # w
        BY <1>1, <1>2, <2>2 DEF ResultInv, Carries
    <2> QED BY <2>1, <2>2
<1> QED BY <1>1, <1>2, <1>3 DEF ResultInv, OncePerEvent, FreshAsItsEvent

LEMMA WorkerKeepsResults ==
    ASSUME ResultInv, NEW w \in Workers, WorkerStep(w) \/ Fail(w)
    PROVE  ResultInv'
<1> DEFINE e == worker[w].event
<1>1. /\ DOMAIN worker = Workers /\ Carries(w)
      /\ rows \in Seq(Row) /\ Len(rows) \in Nat /\ DOMAIN rows = 1..Len(rows)
      /\ Current = Len(rows)
    BY CurrentIsNewest DEF ResultInv, ChainInv
<1>2. /\ Free.event = 0 /\ Free.phase = "idle"
      /\ Fresh(e).event = e
      /\ \A phase : [Fresh(e) EXCEPT !.phase = phase].event = e
      /\ \A phase : [Fresh(e) EXCEPT !.phase = phase].phase = phase
    BY DEF Free, Fresh
<1>3. 0 <= Len(rows) /\ (e \in Nat => e <= Len(rows))
    BY <1>1 DEF Carries
\* The steps that write nothing.
<1>4. ASSUME UNCHANGED <<measurementVars, statuses, rollups>>,
             Ends(w) \/ worker' = [worker EXCEPT ![w] = Free]
      PROVE  ResultInv'
    BY <1>2, <1>3, <1>4, WorkerReads DEF Ends
<1>5. ASSUME UNCHANGED <<measurementVars, statuses, rollups>>,
             NEW phase, phase \notin {"previous", "insert"}, Goes(w, phase)
      PROVE  ResultInv'
    <2>1. worker' = [worker EXCEPT ![w] = [Fresh(e) EXCEPT !.phase = phase]]
        BY <1>5 DEF Goes
    <2> QED BY <1>2, <1>3, <1>5, <2>1, WorkerReads
<1>6. CASE ReadVersion(w) \/ FindRollup(w) \/ Fail(w)
    BY <1>4, <1>5, <1>6 DEF ReadVersion, FindRollup, Fail
<1>7. CASE FindStatus(w)
    BY <1>5, <1>7 DEF FindStatus
<1>8. CASE ResolveMeasurement(w)
    <2> DEFINE state == [worker[w] EXCEPT !.row = Current, !.phase = "previous"]
    <2>1. CASE Current = 0
        BY <1>5, <1>8, <2>1 DEF ResolveMeasurement
    <2>2. CASE Current # 0
        <3>1. /\ worker' = [worker EXCEPT ![w] = state]
              /\ UNCHANGED <<measurementVars, statuses, rollups>>
            BY <1>1, <1>8, <2>2 DEF ResolveMeasurement
        <3>2. state.event = e /\ state.row = Len(rows) /\ Len(rows) \in DOMAIN rows
            BY <1>1, <2>2
        <3> QED BY <1>3, <3>1, <3>2, WorkerReads
    <2> QED BY <2>1, <2>2
<1>9. CASE ReadPrevious(w)
    <2> DEFINE state == [worker[w] EXCEPT !.previous = Latest, !.stamp = clock + 1,
                                          !.phase = "insert"]
    <2>1. /\ worker' = [worker EXCEPT ![w] = state]
          /\ UNCHANGED <<measurementVars, statuses, rollups>>
        BY <1>1, <1>9 DEF ReadPrevious
    <2>2. state.event = e /\ state.row = worker[w].row /\ worker[w].phase = "previous"
        BY <1>9 DEF ReadPrevious, In
    <2> HIDE DEF state
    <2> QED BY <1>1, <1>3, <2>1, <2>2, WorkerReads DEF Carries
<1>10. CASE ReadChildren(w)
    <2> DEFINE state == [worker[w] EXCEPT !.row = IF active THEN Current ELSE 0,
                                          !.phase = "insertRollup"]
    <2>1. /\ worker' = [worker EXCEPT ![w] = state]
          /\ UNCHANGED <<measurementVars, statuses, rollups>>
        BY <1>1, <1>10 DEF ReadChildren
    <2>2. state.event = e /\ state.phase = "insertRollup"
        OBVIOUS
    <2> HIDE DEF state
    <2> QED BY <1>3, <2>1, <2>2, WorkerReads
\* The steps that write a result.
<1>11. CASE InsertStatus(w)
    <2> DEFINE new == [event |-> e, row |-> worker[w].row,
                       status |-> Label(rows[worker[w].row].value),
                       at |-> worker[w].stamp]
    <2>1. /\ worker[w].row \in DOMAIN rows
          /\ e \in Nat => worker[w].row >= e
        BY <1>1, <1>11 DEF InsertStatus, In, Carries
    <2>2. \/ statuses' = statuses
          \/ statuses' = statuses \cup {new} /\ \A r \in statuses : r.event # e
        BY <1>11 DEF InsertStatus, KeyTaken
    <2>3. UNCHANGED <<measurementVars, rollups>> /\ Goes(w, "findRollup")
        BY <1>11 DEF InsertStatus
    <2>4. rows' = rows /\ ChainInv'
        BY <2>3 DEF measurementVars, ResultInv, ChainInv, ChainIsLinear, Validated
    <2>5. /\ DOMAIN worker' = Workers
          /\ worker'[w].event = e /\ worker'[w].phase = "findRollup"
          /\ \A v \in Workers \ {w} : worker'[v] = worker[v]
        BY <1>1, <1>2, <2>3 DEF Goes
    <2>6. \A v \in Workers : Carries(v)'
        BY <1>3, <2>4, <2>5 DEF ResultInv, Carries
    <2>7. /\ \A r \in statuses' : r.row \in DOMAIN rows
          /\ \A r, s \in statuses' : r.event = s.event => r = s
          /\ \A r \in statuses' :
                /\ r.event \in Nat => r.row >= r.event
                /\ r.status = Label(rows[r.row].value)
        BY <2>1, <2>2 DEF ResultInv, OncePerEvent, FreshAsItsEvent
    <2> QED BY <2>3, <2>4, <2>5, <2>6, <2>7 DEF ResultInv, OncePerEvent, FreshAsItsEvent
<1>12. CASE InsertRollup(w)
    <2>1. \/ rollups' = rollups
          \/ \E new : /\ rollups' = rollups \cup {new} /\ new.event = e
                      /\ \A r \in rollups : r.event # e
        BY <1>12 DEF InsertRollup, KeyTaken
    <2>2. UNCHANGED <<measurementVars, statuses>> /\ worker' = [worker EXCEPT ![w] = Free]
        BY <1>12 DEF InsertRollup, Ends
    <2>3. rows' = rows /\ ChainInv'
        BY <2>2 DEF measurementVars, ResultInv, ChainInv, ChainIsLinear, Validated
    <2>4. /\ DOMAIN worker' = Workers
          /\ \A v \in Workers : worker'[v] = IF v = w THEN Free ELSE worker[v]
        BY <1>1, <2>2
    <2>5. \A v \in Workers : Carries(v)'
        BY <1>2, <1>3, <2>3, <2>4 DEF ResultInv, Carries
    <2>6. \A r, s \in rollups' : r.event = s.event => r = s
        BY <2>1 DEF ResultInv, OncePerEvent
    <2> QED BY <2>2, <2>3, <2>4, <2>5, <2>6 DEF ResultInv, OncePerEvent, FreshAsItsEvent
<1> QED
    BY <1>6, <1>7, <1>8, <1>9, <1>10, <1>11, <1>12 DEF WorkerStep

LEMMA NextKeepsResults == ResultInv /\ [Next]_vars => ResultInv'
<1> SUFFICES ASSUME ResultInv, [Next]_vars PROVE ResultInv'
    OBVIOUS
<1>1. ASSUME [MeasurementNext]_measurementVars, UNCHANGED <<worker, statuses, rollups>>
      PROVE  ResultInv'
    <2>1. ChainInv
        BY DEF ResultInv
    <2> QED BY <1>1, <2>1, NextKeepsChain, CallersOnlyAdd, MoreRows
<1>2. ASSUME NEW w \in Workers, WorkerStep(w) \/ Fail(w) PROVE ResultInv'
    BY <1>2, WorkerKeepsResults
<1>3. ASSUME NEW w \in Workers, NEW e \in Events, Deliver(w, e) PROVE ResultInv'
    <2> DEFINE state == [Fresh(e) EXCEPT !.phase = "version"]
    <2>1. state.event = e /\ state.phase = "version"
        BY DEF Fresh, Free
    <2>2. e \in Nat => e <= Len(rows)
        BY <1>3, WindowAssumption DEF Events, ResultInv, ChainInv
    <2>3. /\ worker' = [worker EXCEPT ![w] = state]
          /\ UNCHANGED <<measurementVars, statuses, rollups>>
        BY <1>3 DEF Deliver
    <2> QED BY <2>1, <2>2, <2>3, WorkerReads
<1>4. CASE MeasurementNext /\ UNCHANGED recomputeVars
    BY <1>1, <1>4 DEF recomputeVars
<1>5. CASE CloseWindow \/ Retire \/ UNCHANGED vars
    BY <1>1, <1>5 DEF CloseWindow, Retire, vars, recomputeVars
<1> QED BY <1>2, <1>3, <1>4, <1>5 DEF Next

LEMMA ResultsInvariance == Spec => []ResultInv
BY ResultsInitially, NextKeepsResults, PTL DEF Spec

(***************************************************************************)
(* However often an event is delivered, and to however many workers at     *)
(* once, it has one status and one roll-up (OncePerEvent).                 *)
(***************************************************************************)
THEOREM ResultsOncePerEvent == Spec => []OncePerEvent
<1>1. ResultInv => OncePerEvent
    BY DEF ResultInv
<1> QED BY <1>1, ResultsInvariance, PTL

(***************************************************************************)
(* Whoever corrects the series meanwhile, a status is never of a row older *)
(* than its event, and says what the rule says of that row                 *)
(* (FreshAsItsEvent).                                                      *)
(***************************************************************************)
THEOREM StatusesAreFresh == Spec => []FreshAsItsEvent
<1>1. ResultInv => FreshAsItsEvent
    BY DEF ResultInv
<1> QED BY <1>1, ResultsInvariance, PTL

-----------------------------------------------------------------------------
\* Types.  An event is committed before a worker has it, a status is of a reading
\* of the clock, and of several statuses one is the latest.

CallerType == [stage : Stages, session : Nat, target : Nat, kind : Kinds]

CallerInv ==
    /\ lock \in Callers \cup {Nobody}
    /\ session \in Seq(Session)
    /\ caller \in [Callers -> CallerType]

WorkerTyped(s, events, n, t) ==
    /\ s.phase \in Phases
    /\ s.phase # "idle" => s.event \in events
    /\ s.row \in 0..n
    /\ s.previous \in Labels \cup {NoLabel}
    /\ s.stamp \in 0..t
    /\ s.phase = "insert" => s.stamp # 0

StatusTyped(r, events, n, t) == r.event \in events /\ r.row \in 1..n /\ r.at \in 1..t
RollupTyped(r, events, n) == r.event \in events /\ r.row \in 0..n
HasLatest(results) ==
    results # {} => \E r \in results : \A s \in results : s.at <= r.at
Breached(results) == {r.event : r \in {q \in results : q.status = OffTrack}}

ResultTypes ==
    /\ active \in BOOLEAN /\ closed \in BOOLEAN /\ clock \in Nat
    /\ handled \subseteq Events
    /\ \A w \in Workers : WorkerTyped(worker[w], Events, Len(rows), clock)
    /\ \A r \in statuses : StatusTyped(r, Events, Len(rows), clock)
    /\ \A r \in rollups : RollupTyped(r, Events, Len(rows))
    /\ HasLatest(statuses)
    /\ breaches \subseteq Breached(statuses)

LEMMA IdleCaller == Idle \in CallerType /\ Manual \in Kinds /\ Imports \subseteq Kinds
BY DEF Idle, Request, CallerType, Stages, Kinds

\* A session that is in the sequence is replaced by a session.
LEMMA SessionReplaced ==
    ASSUME NEW q \in Seq(Session), NEW n \in Nat, NEW x,
           n \in DOMAIN q => x \in Session
    PROVE  [q EXCEPT ![n] = x] \in Seq(Session)
<1>1. q \in [1..Len(q) -> Session] /\ Len(q) \in Nat
    OBVIOUS
<1>2. [q EXCEPT ![n] = x] \in [1..Len(q) -> Session]
    BY <1>1
<1> QED BY <1>1, <1>2

LEMMA CallerStepTyped ==
    ASSUME ChainInv, CallerInv, NEW c \in Callers, CallerStep(c)
    PROVE  CallerInv'
<1> DEFINE n == caller[c].session
<1>0. /\ Len(rows) \in Nat /\ DOMAIN rows = 1..Len(rows)
      /\ Len(session) \in Nat /\ DOMAIN session = 1..Len(session)
      /\ caller[c] \in CallerType /\ n \in Nat /\ caller[c].target \in Nat
      /\ caller[c].kind \in Kinds /\ Current \in Nat
    BY CurrentIsNewest DEF ChainInv, CallerInv, CallerType
<1>1. ASSUME NEW stage \in Stages, NEW s \in Nat, NEW t \in Nat, NEW k \in Kinds,
             Becomes(c, Request(stage, s, t, k))
      PROVE  caller' \in [Callers -> CallerType]
    BY <1>1 DEF Becomes, Request, CallerType, CallerInv
<1>2. ASSUME Becomes(c, Idle) PROVE caller' \in [Callers -> CallerType]
    BY <1>2, IdleCaller DEF Becomes, CallerInv
<1>3. ASSUME NEW x, session' = [session EXCEPT ![n] = x],
             n \in DOMAIN session => x \in Session
      PROVE  session' \in Seq(Session)
    BY <1>0, <1>3, SessionReplaced DEF CallerInv
<1>4. ASSUME NEW s \in DOMAIN session PROVE session[s] \in Session /\ s \in Nat
    BY <1>0, <1>4 DEF CallerInv
<1>5. CASE StartRead(c)
    BY <1>0, <1>1, <1>5, IdleCaller DEF StartRead, CallerInv, Stages
<1>6. CASE StartWrite(c)
    <2>1. CASE n = 0
        <3> DEFINE new == [state |-> "DRAFT", measurement |-> 0, consumed |-> FALSE]
        <3>1. session' = Append(session, new) /\ new \in Session
            BY <1>6, <2>1 DEF StartWrite, Session, SessionStates
        <3> HIDE DEF new
        <3>2. session' \in Seq(Session)
            BY <3>1 DEF CallerInv
        <3> QED BY <1>2, <1>6, <3>2 DEF StartWrite, CallerInv
    <2>2. CASE n # 0
        <3> DEFINE x == [session[n] EXCEPT !.state = "DRAFT"]
        <3>1. session' = [session EXCEPT ![n] = x]
            BY <1>6, <2>2 DEF StartWrite
        <3>2. n \in DOMAIN session => x \in Session
            BY <1>4 DEF Session, SessionStates
        <3> HIDE DEF x
        <3> QED BY <1>2, <1>3, <1>6, <3>1, <3>2 DEF StartWrite, CallerInv
    <2> QED BY <2>1, <2>2
<1>7. ASSUME NEW s \in DOMAIN session, SubmitRead(c, s) \/ RecallRead(c, s) \/ ConsumeRead(c, s)
      PROVE  CallerInv'
    BY <1>1, <1>4, <1>7, IdleCaller
       DEF SubmitRead, RecallRead, ConsumeRead, CallerInv, Stages
<1>8. CASE SubmitResolve(c)
    BY <1>0, <1>1, <1>8, IdleCaller DEF SubmitResolve, CallerInv, Stages
<1>9. CASE SubmitMark(c)
    <2> DEFINE x == [session[n] EXCEPT !.state = "SUBMITTED", !.measurement = caller[c].target]
    <2>1. session' = [session EXCEPT ![n] = x]
        BY <1>9, Zenon DEF SubmitMark
    <2>2. n \in DOMAIN session => x \in Session
        BY <1>0, <1>4 DEF Session, SessionStates
    <2> HIDE DEF x
    <2> QED BY <1>2, <1>3, <1>9, <2>1, <2>2 DEF SubmitMark, CallerInv
<1>10. ASSUME NEW kind \in Imports, NEW t \in 0..Len(rows), Import(c, kind, t)
       PROVE  CallerInv'
    BY <1>0, <1>1, <1>10, IdleCaller DEF Import, CallerInv, Stages
<1>11. CASE BeginRecord(c)
    BY <1>0, <1>1, <1>2, <1>11 DEF BeginRecord, CallerInv, Stages
<1>12. ASSUME NEW value \in Values, CommitRecord(c, value) PROVE CallerInv'
    <2>1. \/ Becomes(c, Idle)
          \/ Becomes(c, Request("mark", n, Len(rows) + 1, Manual))
        BY <1>12 DEF CommitRecord
    <2>2. caller' \in [Callers -> CallerType]
        BY <1>0, <1>1, <1>2, <2>1, IdleCaller DEF Stages
    <2> QED BY <1>12, <2>2 DEF CommitRecord, CallerInv
<1>13. CASE RecallWrite(c)
    <2> DEFINE x == [session[n] EXCEPT !.state = "RECALLED"]
    <2>1. session' = [session EXCEPT ![n] = x]
        BY <1>13 DEF RecallWrite
    <2>2. n \in DOMAIN session => x \in Session
        BY <1>4 DEF Session, SessionStates
    <2> HIDE DEF x
    <2> QED BY <1>2, <1>3, <1>13, <2>1, <2>2 DEF RecallWrite, CallerInv
<1>14. CASE ConsumeWrite(c)
    <2> DEFINE x == [session[n] EXCEPT !.consumed = TRUE]
    <2>1. session' = [session EXCEPT ![n] = x]
        BY <1>14 DEF ConsumeWrite
    <2>2. n \in DOMAIN session => x \in Session
        BY <1>4 DEF Session
    <2> HIDE DEF x
    <2> QED BY <1>2, <1>3, <1>14, <2>1, <2>2 DEF ConsumeWrite, CallerInv
<1>15. CASE CallerDies(c)
    BY <1>2, <1>15 DEF CallerDies, CallerInv
<1> QED BY <1>5, <1>6, <1>7, <1>8, <1>9, <1>10, <1>11, <1>12, <1>13, <1>14, <1>15
        DEF CallerStep

\* A step of the world around the workers.
LEMMA WorldTyped ==
    ASSUME ChainInv, ChainInv', ResultTypes, RowsAdded, closed => closed', closed' \in BOOLEAN,
           active' \in BOOLEAN, UNCHANGED <<handled, worker, statuses, rollups, breaches, clock>>
    PROVE  ResultTypes'
<1>1. Len(rows) \in Nat /\ Len(rows') \in Nat /\ Len(rows) <= Len(rows') /\ clock \in Nat
    BY DEF ChainInv, RowsAdded, ResultTypes
<1> DEFINE es == Events
           fs == Events'
<1>2. es \subseteq fs
    BY DEF Events, RowsAdded
<1> HIDE DEF es, fs
<1>3. /\ \A s : WorkerTyped(s, es, Len(rows), clock) => WorkerTyped(s, fs, Len(rows'), clock)
      /\ \A r : StatusTyped(r, es, Len(rows), clock) => StatusTyped(r, fs, Len(rows'), clock)
      /\ \A r : RollupTyped(r, es, Len(rows)) => RollupTyped(r, fs, Len(rows'))
    BY <1>1, <1>2 DEF WorkerTyped, StatusTyped, RollupTyped
<1>4. \A w \in Workers : WorkerTyped(worker[w], fs, Len(rows'), clock)
    BY <1>3 DEF ResultTypes, es
<1>5. \A r \in statuses : StatusTyped(r, fs, Len(rows'), clock)
    BY <1>3 DEF ResultTypes, es
<1>6. \A r \in rollups : RollupTyped(r, fs, Len(rows'))
    BY <1>3 DEF ResultTypes, es
<1> QED BY <1>2, <1>4, <1>5, <1>6 DEF ResultTypes, es, fs

\* A step of a worker that inserts no result.
LEMMA ReadTyped ==
    ASSUME ResultInv, ResultTypes, UNCHANGED <<measurementVars, active, closed, statuses,
                                               rollups, breaches>>,
           clock' \in Nat, clock <= clock',
           NEW w \in Workers, NEW state, worker' = [worker EXCEPT ![w] = state],
           WorkerTyped(state, Events, Len(rows), clock'),
           handled' \subseteq Events
    PROVE  ResultTypes'
<1>0. clock \in Nat
    BY DEF ResultTypes
<1>1. rows' = rows /\ Events' = Events
    BY DEF measurementVars, Events
<1> DEFINE es == Events
           n == Len(rows)
<1> HIDE DEF es, n
<1>2. /\ \A s : WorkerTyped(s, es, n, clock) => WorkerTyped(s, es, n, clock')
      /\ \A r : StatusTyped(r, es, n, clock) => StatusTyped(r, es, n, clock')
    BY <1>0 DEF WorkerTyped, StatusTyped
<1>3. \A v \in Workers : worker'[v] = IF v = w THEN state ELSE worker[v]
    BY DEF ResultInv
<1>4. \A v \in Workers : WorkerTyped(worker'[v], es, n, clock')
    BY <1>2, <1>3 DEF ResultTypes, es, n
<1>5. \A r \in statuses : StatusTyped(r, es, n, clock')
    BY <1>2 DEF ResultTypes, es, n
<1> QED BY <1>1, <1>4, <1>5 DEF ResultTypes, es, n

\* The latest of the statuses and one more is the one or the other.
LEMMA OneMoreLatest ==
    ASSUME NEW q, HasLatest(q), NEW x, x.at \in Nat, \A r \in q : r.at \in Nat
    PROVE  HasLatest(q \cup {x})
<1>1. CASE q = {}
    BY <1>1 DEF HasLatest
<1>2. CASE q # {}
    <2>1. PICK r \in q : \A s \in q : s.at <= r.at
        BY <1>2 DEF HasLatest
    <2>2. CASE x.at <= r.at
        BY <2>1, <2>2 DEF HasLatest
    <2>3. CASE r.at <= x.at
        BY <2>1, <2>3 DEF HasLatest
    <2> QED BY <2>1, <2>2, <2>3
<1> QED BY <1>1, <1>2

\* The latest status is a label, when there is one.
LEMMA LatestTyped ==
    ASSUME ResultInv, ResultTypes
    PROVE  Latest \in Labels \cup {NoLabel}
<1>1. CASE statuses = {}
    BY <1>1 DEF Latest
<1>2. CASE statuses # {}
    <2> DEFINE r == CHOOSE q \in statuses : \A s \in statuses : s.at <= q.at
    <2>1. r \in statuses
        BY <1>2 DEF ResultTypes, HasLatest
    <2> HIDE DEF r
    <2>2. r.row \in DOMAIN rows /\ r.status = Label(rows[r.row].value)
        BY <2>1 DEF ResultInv, FreshAsItsEvent
    <2>3. rows[r.row].value \in Values
        <3>1. rows[r.row] \in Row
            BY <2>2 DEF ResultInv, ChainInv
        <3> QED BY <3>1 DEF Row
    <2>4. Latest = r.status
        BY <1>2 DEF Latest, r
    <2> QED BY <2>2, <2>3, <2>4 DEF Labels
<1> QED BY <1>1, <1>2

LEMMA WorkerStepTyped ==
    ASSUME ResultInv, ResultTypes, NEW w \in Workers, WorkerStep(w) \/ Fail(w)
    PROVE  ResultTypes'
<1> DEFINE e == worker[w].event
           s == worker[w]
<1>1. /\ rows \in Seq(Row) /\ Len(rows) \in Nat /\ DOMAIN rows = 1..Len(rows)
      /\ Current = Len(rows) /\ clock \in Nat /\ handled \subseteq Events
      /\ WorkerTyped(s, Events, Len(rows), clock)
      /\ clock' \in Nat /\ clock <= clock'
    BY CurrentIsNewest DEF ResultInv, ChainInv, ResultTypes, WorkerStep, Fail, ReadVersion,
       FindStatus, ResolveMeasurement, ReadPrevious, InsertStatus, FindRollup, ReadChildren,
       InsertRollup
<1>2. /\ WorkerTyped(Free, Events, Len(rows), clock)
      /\ s.phase # "idle" => \A phase \in Phases \ {"insert"} :
            WorkerTyped([Fresh(e) EXCEPT !.phase = phase], Events, Len(rows), clock)
    BY <1>1 DEF WorkerTyped, Free, Fresh, Phases
<1>3. s.phase # "idle" => handled \cup {e} \subseteq Events
    BY <1>1 DEF WorkerTyped
\* The steps that write nothing.
<1>4. ASSUME UNCHANGED <<measurementVars, active, closed, statuses, rollups, breaches, clock>>,
             s.phase # "idle",
             Ends(w) \/ (worker' = [worker EXCEPT ![w] = Free] /\ handled' = handled)
      PROVE  ResultTypes'
    BY <1>1, <1>2, <1>3, <1>4, ReadTyped DEF Ends
<1>5. ASSUME UNCHANGED <<measurementVars, active, closed, statuses, rollups, breaches, clock,
                         handled>>,
             s.phase # "idle", NEW phase \in Phases \ {"insert"}, Goes(w, phase)
      PROVE  ResultTypes'
    <2> DEFINE state == [Fresh(e) EXCEPT !.phase = phase]
    <2>1. worker' = [worker EXCEPT ![w] = state]
        BY <1>5 DEF Goes
    <2>2. WorkerTyped(state, Events, Len(rows), clock')
        BY <1>2, <1>5
    <2> HIDE DEF state
    <2> QED BY <1>1, <1>5, <2>1, <2>2, ReadTyped
<1>6. CASE ReadVersion(w) \/ FindRollup(w) \/ Fail(w)
    BY <1>4, <1>5, <1>6 DEF ReadVersion, FindRollup, Fail, In, Phases
<1>7. CASE FindStatus(w)
    BY <1>5, <1>7 DEF FindStatus, In, Phases
<1>8. CASE ResolveMeasurement(w)
    <2>1. CASE Current = 0
        BY <1>5, <1>8, <2>1 DEF ResolveMeasurement, In, Phases
    <2>2. CASE Current # 0
        <3> DEFINE state == [s EXCEPT !.row = Current, !.phase = "previous"]
        <3>1. /\ worker' = [worker EXCEPT ![w] = state] /\ s.phase = "resolve"
              /\ UNCHANGED <<measurementVars, active, closed, handled, statuses, rollups,
                             breaches, clock>>
            BY <1>8, <2>2 DEF ResolveMeasurement, In
        <3>2. WorkerTyped(state, Events, Len(rows), clock')
            BY <1>1, <3>1 DEF WorkerTyped, Phases, ResultInv
        <3> HIDE DEF state
        <3> QED BY <1>1, <3>1, <3>2, ReadTyped
    <2> QED BY <2>1, <2>2
<1>9. CASE ReadPrevious(w)
    <2> DEFINE state == [s EXCEPT !.previous = Latest, !.stamp = clock + 1, !.phase = "insert"]
    <2>1. /\ worker' = [worker EXCEPT ![w] = state] /\ s.phase = "previous"
          /\ clock' = clock + 1
          /\ UNCHANGED <<measurementVars, active, closed, handled, statuses, rollups, breaches>>
        BY <1>9 DEF ReadPrevious, In
    <2>2. WorkerTyped(state, Events, Len(rows), clock')
        BY <1>1, <2>1, LatestTyped DEF WorkerTyped, Phases
    <2> HIDE DEF state
    <2> QED BY <1>1, <2>1, <2>2, ReadTyped
<1>10. CASE ReadChildren(w)
    <2> DEFINE state == [s EXCEPT !.row = IF active THEN Current ELSE 0,
                                  !.phase = "insertRollup"]
    <2>1. /\ worker' = [worker EXCEPT ![w] = state] /\ s.phase = "children"
          /\ UNCHANGED <<measurementVars, active, closed, handled, statuses, rollups, breaches,
                         clock>>
        BY <1>10 DEF ReadChildren, In
    <2>2. WorkerTyped(state, Events, Len(rows), clock')
        BY <1>1, <2>1 DEF WorkerTyped, Phases
    <2> HIDE DEF state
    <2> QED BY <1>1, <2>1, <2>2, ReadTyped
\* The steps that insert a result also free the worker or send it on.
<1>11. CASE InsertStatus(w)
    <2> DEFINE label == Label(rows[s.row].value)
               new == [event |-> e, row |-> s.row, status |-> label, at |-> s.stamp]
               state == [Fresh(e) EXCEPT !.phase = "findRollup"]
    <2>1. /\ s.phase = "insert" /\ s.row \in DOMAIN rows
          /\ worker' = [worker EXCEPT ![w] = state]
          /\ UNCHANGED <<measurementVars, active, closed, handled, rollups, clock>>
          /\ \/ statuses' = statuses /\ breaches' = breaches
             \/ /\ statuses' = statuses \cup {new}
                /\ breaches' = breaches \/ (breaches' = breaches \cup {e} /\ label = OffTrack)
        BY <1>11 DEF InsertStatus, In, Goes, Crosses, ResultInv, Carries
    <2>2. StatusTyped(new, Events, Len(rows), clock) /\ new.at \in Nat
        BY <1>1, <2>1 DEF WorkerTyped, StatusTyped
    <2>3. \A r \in statuses : r.at \in Nat
        BY <1>1 DEF ResultTypes, StatusTyped
    <2>4. WorkerTyped(state, Events, Len(rows), clock)
        BY <1>2, <2>1 DEF Phases
    <2>5. new.event = e /\ new.status = label
        OBVIOUS
    <2> HIDE DEF new, state, label
    <2>6. \A r \in statuses' : StatusTyped(r, Events, Len(rows), clock)
        BY <2>1, <2>2 DEF ResultTypes
    <2>7. HasLatest(statuses')
        BY <2>1, <2>2, <2>3, OneMoreLatest DEF ResultTypes
    <2>8. breaches' \subseteq Breached(statuses')
        BY <2>1, <2>5 DEF ResultTypes, Breached
    <2>9. \A v \in Workers : worker'[v] = IF v = w THEN state ELSE worker[v]
        BY <2>1 DEF ResultInv
    <2>10. \A v \in Workers : WorkerTyped(worker'[v], Events, Len(rows), clock)
        BY <2>4, <2>9 DEF ResultTypes
    <2>11. rows' = rows /\ Events' = Events
        BY <2>1 DEF measurementVars, Events
    <2> QED BY <2>1, <2>6, <2>7, <2>8, <2>10, <2>11 DEF ResultTypes
<1>12. CASE InsertRollup(w)
    <2> DEFINE new == [event |-> e, row |-> s.row]
    <2>1. /\ s.phase = "insertRollup"
          /\ worker' = [worker EXCEPT ![w] = Free] /\ handled' = handled \cup {e}
          /\ UNCHANGED <<measurementVars, active, closed, statuses, breaches, clock>>
          /\ rollups' = rollups \/ rollups' = rollups \cup {new}
        BY <1>12 DEF InsertRollup, In, Ends
    <2>2. RollupTyped(new, Events, Len(rows))
        BY <1>1, <2>1 DEF WorkerTyped, RollupTyped
    <2> HIDE DEF new
    <2>3. \A r \in rollups' : RollupTyped(r, Events, Len(rows))
        BY <2>1, <2>2 DEF ResultTypes
    <2>4. \A v \in Workers : worker'[v] = IF v = w THEN Free ELSE worker[v]
        BY <2>1 DEF ResultInv
    <2>5. \A v \in Workers : WorkerTyped(worker'[v], Events, Len(rows), clock)
        BY <1>2, <2>4 DEF ResultTypes
    <2>6. rows' = rows /\ Events' = Events
        BY <2>1 DEF measurementVars, Events
    <2> QED BY <1>3, <2>1, <2>3, <2>5, <2>6 DEF ResultTypes
<1> QED BY <1>6, <1>7, <1>8, <1>9, <1>10, <1>11, <1>12 DEF WorkerStep

LEMMA InitResultTypes == Init => CallerInv /\ ResultTypes
<1> SUFFICES ASSUME Init PROVE CallerInv /\ ResultTypes
    OBVIOUS
<1>1. CallerInv
    BY IdleCaller DEF Init, MeasurementInit, CallerInv
<1>2. Len(rows) = 0 /\ Events = {}
    BY DEF Init, MeasurementInit, Events
<1>3. \A w \in Workers : WorkerTyped(worker[w], Events, Len(rows), clock)
    BY <1>2 DEF Init, WorkerTyped, Free, Phases
<1>4. ResultTypes
    BY <1>3 DEF Init, ResultTypes, HasLatest
<1> QED BY <1>1, <1>4

LEMMA NextKeepsTypes ==
    ResultInv /\ CallerInv /\ ResultTypes /\ [Next]_vars => (CallerInv /\ ResultTypes)'
<1> SUFFICES ASSUME ResultInv, CallerInv, ResultTypes, [Next]_vars
             PROVE  CallerInv' /\ ResultTypes'
    OBVIOUS
<1>1. ChainInv /\ ChainInv'
    BY NextKeepsResults DEF ResultInv
<1>2. ASSUME UNCHANGED measurementVars PROVE CallerInv'
    BY <1>2 DEF measurementVars, CallerInv
<1>3. CASE MeasurementNext /\ UNCHANGED recomputeVars
    <2>1. CallerInv'
        BY <1>1, <1>3, CallerStepTyped DEF MeasurementNext
    <2>2. RowsAdded
        BY <1>1, <1>3, CallersOnlyAdd
    <2> QED BY <1>1, <1>3, <2>1, <2>2, WorldTyped DEF recomputeVars, ResultTypes
<1>4. CASE CloseWindow \/ Retire \/ UNCHANGED vars
    <2>1. UNCHANGED measurementVars
        BY <1>4 DEF CloseWindow, Retire, vars
    <2>2. RowsAdded
        BY <1>1, <2>1, CallersOnlyAdd
    <2> QED BY <1>1, <1>2, <1>4, <2>1, <2>2, WorldTyped
            DEF CloseWindow, Retire, vars, recomputeVars, ResultTypes
<1>5. ASSUME NEW w \in Workers, WorkerStep(w) \/ Fail(w) PROVE CallerInv' /\ ResultTypes'
    <2>1. UNCHANGED measurementVars
        BY <1>5 DEF WorkerStep, Fail, ReadVersion, FindStatus, ResolveMeasurement, ReadPrevious,
           InsertStatus, FindRollup, ReadChildren, InsertRollup
    <2> QED BY <1>2, <1>5, <2>1, WorkerStepTyped
<1>6. ASSUME NEW w \in Workers, NEW e \in Events, Deliver(w, e)
      PROVE  CallerInv' /\ ResultTypes'
    <2> DEFINE state == [Fresh(e) EXCEPT !.phase = "version"]
    <2>1. /\ worker' = [worker EXCEPT ![w] = state]
          /\ UNCHANGED <<measurementVars, active, closed, handled, statuses, rollups, breaches,
                         clock>>
        BY <1>6 DEF Deliver
    <2>2. clock \in Nat /\ clock' \in Nat /\ clock <= clock' /\ handled' \subseteq Events
          /\ Len(rows) \in Nat
        BY <1>1, <2>1 DEF ResultTypes, ChainInv
    <2>3. WorkerTyped(state, Events, Len(rows), clock')
        BY <2>1, <2>2 DEF WorkerTyped, Fresh, Free, Phases
    <2> HIDE DEF state
    <2> QED BY <1>2, <2>1, <2>2, <2>3, ReadTyped
<1> QED BY <1>3, <1>4, <1>5, <1>6 DEF Next

(***************************************************************************)
(* Every state is well typed: workers carry events that were committed and *)
(* readings of the clock, and only a status off track is a breach.         *)
(***************************************************************************)
THEOREM RecomputeIsWellTyped == Spec => []TypeOK
<1>1. ResultInv /\ CallerInv /\ ResultTypes => TypeOK
    <2> SUFFICES ASSUME ResultInv, CallerInv, ResultTypes PROVE TypeOK
        OBVIOUS
    <2>1. MeasurementTypeOK
        BY DEF MeasurementTypeOK, CallerInv, CallerType, ResultInv, ChainInv
    <2>2. \A w \in Workers : WorkerTyped(worker[w], Events, Len(rows), clock)
        BY DEF ResultTypes
    <2>3. \A r \in statuses : StatusTyped(r, Events, Len(rows), clock)
        BY DEF ResultTypes
    <2>4. \A r \in rollups : RollupTyped(r, Events, Len(rows))
        BY DEF ResultTypes
    <2>5. \A r \in statuses : r.row \in DOMAIN rows
        BY DEF ResultInv
    <2>6. /\ active \in BOOLEAN /\ closed \in BOOLEAN /\ handled \subseteq Events
          /\ breaches \subseteq {r.event : r \in {q \in statuses : q.status = OffTrack}}
        BY DEF ResultTypes, Breached
    <2> QED BY <2>1, <2>2, <2>3, <2>4, <2>5, <2>6
            DEF TypeOK, WorkerTyped, StatusTyped, RollupTyped
<1> QED BY <1>1, ResultsInvariance, InitResultTypes, NextKeepsTypes, PTL DEF Spec
=============================================================================
