---------------------------- MODULE AuditJournal ----------------------------
(***************************************************************************)
(* The audit journal: a hash chain in PostgreSQL that every worker process *)
(* appends to.  The wildcard event subscriber "audit.journal" receives     *)
(* each domain event at least once and appends it in one transaction that  *)
(* is serialised by an advisory lock; a verification job reads the whole   *)
(* table without that lock.                                                *)
(*                                                                         *)
(* The table is a function keyed by sequence_number, which is UNIQUE in    *)
(* the schema.  A row's content other than its sequence number is the      *)
(* event it records.                                                       *)
(***************************************************************************)
EXTENDS Naturals

CONSTANTS
    Events,              \* domain events delivered to the subscriber
    SecurityEvents,      \* those classified "security", forwarded to the SIEM
    Workers,             \* worker processes running the subscriber
    Nobody,              \* the advisory lock is free
    NoEvent,             \* a worker that handles nothing
    NoHash,              \* previousHash of the first row
    Hash(_, _, _)        \* SHA-256 of previous hash, sequence number, content

ASSUME NobodyAssumption == Nobody \notin Workers
ASSUME SecurityAssumption == SecurityEvents \subseteq Events

VARIABLES
    journal,             \* sequence number -> committed row
    lock,                \* holder of pg_advisory_xact_lock(742031)
    pc,                  \* where each worker is in handle()
    event,               \* the event each worker is handling
    previous,            \* the greatest sequence number its transaction read
    siem                 \* security events the SIEM has accepted

vars == <<journal, lock, pc, event, previous, siem>>

Stages == {"idle", "begin", "find", "read", "insert", "forward"}
InTransaction == {"find", "read", "insert"}

Rows == DOMAIN journal
Last == IF Rows = {} THEN 0
        ELSE CHOOSE n \in Rows : \A m \in Rows : m <= n
HashAt(n) == IF n = 0 THEN NoHash ELSE journal[n].entryHash
\* Mutant: no look-up of the event.
JournalledNever(e) == FALSE
Journalled(e) == \E n \in Rows : journal[n].event = e

\* Mutants: two columns swapped; a hash that leaves the previous row out.
RowSwapped(seq, e, prevHash) ==
    [event |-> prevHash, previousHash |-> e, entryHash |-> Hash(prevHash, seq, e)]
RowUnchained(seq, e, prevHash) ==
    [event |-> e, previousHash |-> prevHash, entryHash |-> Hash(NoHash, seq, e)]

Row(seq, e, prevHash) ==
    [event |-> e, previousHash |-> prevHash, entryHash |-> Hash(prevHash, seq, e)]

\* Mutant: rows are checked against themselves, not against each other.
VerifiedAlone(table) ==
    \A n \in DOMAIN table :
        table[n].entryHash = Hash(table[n].previousHash, n, table[n].event)

\* The check verifyChain makes of a table, row by row in sequence order.
Verified(table) ==
    \A n \in DOMAIN table :
        LET expected == IF n = 1 THEN NoHash ELSE table[n - 1].entryHash
        IN  /\ n = 1 \/ n - 1 \in DOMAIN table
            /\ table[n].previousHash = expected
            /\ table[n].entryHash = Hash(expected, n, table[n].event)

-----------------------------------------------------------------------------
Init == /\ journal = [n \in {} |-> n]
        /\ lock = Nobody
        /\ pc = [w \in Workers |-> "idle"]
        /\ event = [w \in Workers |-> NoEvent]
        /\ previous = [w \in Workers |-> 0]
        /\ siem = {}

Goto(w, stage) == pc' = [pc EXCEPT ![w] = stage]

\* The lock is held to the end of the transaction.
EndTransaction(w) == lock' = IF lock = w THEN Nobody ELSE lock

\* What follows the append: a security event goes on to the SIEM forwarder.
AfterAppend(w) ==
    Goto(w, IF event[w] \in SecurityEvents THEN "forward" ELSE "idle")

\* A dispatch job reaches the worker; the queue may redeliver any event.
Handle(w, e) ==
    /\ pc[w] = "idle"
    /\ Goto(w, "begin")
    /\ event' = [event EXCEPT ![w] = e]
    /\ UNCHANGED <<journal, lock, previous, siem>>

AcquireLock(w) ==
    /\ pc[w] = "begin"
    /\ lock = Nobody
    /\ lock' = w
    /\ Goto(w, "find")
    /\ UNCHANGED <<journal, event, previous, siem>>

\* Redelivery: the row is returned as it stands and the transaction ends.
FindExisting(w) ==
    /\ pc[w] = "find"
    /\ IF Journalled(event[w])
       THEN EndTransaction(w) /\ AfterAppend(w)
       ELSE UNCHANGED lock /\ Goto(w, "read")
    /\ UNCHANGED <<journal, event, previous, siem>>

ReadPrevious(w) ==
    /\ pc[w] = "read"
    /\ previous' = [previous EXCEPT ![w] = Last]
    /\ Goto(w, "insert")
    /\ UNCHANGED <<journal, lock, event, siem>>

\* The UNIQUE indexes on sequence_number and source_event_id.
Collides(w) == previous[w] + 1 \in Rows \/ Journalled(event[w])

Create(w) ==
    /\ pc[w] = "insert"
    /\ EndTransaction(w)
    /\ IF Collides(w)
       THEN UNCHANGED journal /\ Goto(w, "idle")
       ELSE LET seq == previous[w] + 1
                row == Row(seq, event[w], HashAt(previous[w]))
            IN  /\ journal' = [n \in Rows \cup {seq} |->
                                 IF n = seq THEN row ELSE journal[n]]
                /\ AfterAppend(w)
    /\ UNCHANGED <<event, previous, siem>>

\* The forwarder's failure is logged and swallowed.
Forward(w) ==
    /\ pc[w] = "forward"
    /\ Goto(w, "idle")
    /\ \/ siem' = siem \cup {event[w]}
       \/ siem' = siem
    /\ UNCHANGED <<journal, lock, event, previous>>

\* The process dies or the transaction times out: it rolls back and the lock
\* goes with it.  The job is redelivered by Handle.
Crash(w) ==
    /\ pc[w] # "idle"
    /\ Goto(w, "idle")
    /\ EndTransaction(w)
    /\ UNCHANGED <<journal, event, previous, siem>>

Next == \E w \in Workers :
    \/ \E e \in Events : Handle(w, e)
    \/ AcquireLock(w)
    \/ FindExisting(w)
    \/ ReadPrevious(w)
    \/ Create(w)
    \/ Forward(w)
    \/ Crash(w)

Spec == Init /\ [][Next]_vars

-----------------------------------------------------------------------------
TypeOK ==
    /\ Rows \subseteq Nat \ {0}
    /\ \A n \in Rows : journal[n].event \in Events
    /\ lock \in Workers \cup {Nobody}
    /\ pc \in [Workers -> Stages]
    /\ event \in [Workers -> Events \cup {NoEvent}]
    /\ previous \in [Workers -> Nat]
    /\ siem \subseteq Events

\* The verification job (audit.workers.ts) finds the chain intact whenever it
\* runs: it takes no lock, so every committed state must verify, with appends
\* from several workers, redeliveries and crashes in any order.
ChainVerifies == Verified(journal)

\* The UNIQUE indexes never fire: the advisory lock and the look-up under it
\* already rule out a taken sequence number and a second row for one event, so
\* no delivery of an event is failed by another delivery of it.
InsertNeverCollides == \A w \in Workers : pc[w] = "insert" => ~Collides(w)

\* One event, one row, however often the queue redelivers it.
OneRowPerEvent ==
    \A m, n \in Rows : journal[m].event = journal[n].event => m = n

\* What the SIEM has seen is in the journal: a forward never precedes the
\* commit of the append, even when the worker dies in between.
SiemAfterJournal == \A e \in siem : Journalled(e)

\* The chain is evidence: a committed journal in which one row's content is
\* replaced, or a row other than the last is removed, no longer verifies, even
\* if the row's own hash is recomputed (the last row's is out of its reach).
Forged(n, e, rehash) ==
    LET row == journal[n]
        forgedHash == IF rehash THEN Hash(row.previousHash, n, e)
                                ELSE row.entryHash
    IN  [journal EXCEPT ![n] = [event |-> e, previousHash |-> row.previousHash,
                                entryHash |-> forgedHash]]

Without(n) == [m \in Rows \ {n} |-> journal[m]]

TamperingShows ==
    \A n \in Rows :
        /\ n # Last => ~Verified(Without(n))
        /\ \A e \in Events \ {journal[n].event}, rehash \in BOOLEAN :
              (rehash => n # Last) => ~Verified(Forged(n, e, rehash))
=============================================================================
