------------------------- MODULE AuditJournalProofs -------------------------
(***************************************************************************)
(* The hash chain is intact after every step, for any number of workers,   *)
(* events, redeliveries and crashes.  The argument: whoever is past the    *)
(* look-up holds the advisory lock, so what it read there is still true    *)
(* when it inserts.                                                        *)
(***************************************************************************)
EXTENDS AuditJournal, TLAPS

\* The sequence numbers are 1 to k without a gap.
Contiguous == \E k \in Nat : Rows = 1..k

\* The lock holder is the one worker inside the transaction.
LockHeld == \A w \in Workers : pc[w] \in InTransaction <=> lock = w

\* What a transaction has read stays true while it is open.
ReadsHold ==
    \A w \in Workers :
        /\ pc[w] # "idle" => event[w] \in Events
        /\ pc[w] \in {"read", "insert"} => ~Journalled(event[w])
        /\ pc[w] = "insert" => previous[w] = Last
        /\ pc[w] = "forward" => Journalled(event[w])

IndInv == /\ TypeOK
          /\ Contiguous
          /\ LockHeld
          /\ ReadsHold
          /\ OneRowPerEvent
          /\ ChainVerifies
          /\ SiemAfterJournal

\* The greatest of 1..k is k: the row findFirst returns is the newest.
LEMMA LastIsCount ==
    ASSUME NEW k \in Nat, Rows = 1..k
    PROVE  Last = k
<1>1. CASE k = 0
  BY <1>1 DEF Last
<1>2. CASE k # 0
  <2>1. k \in Rows /\ \A m \in Rows : m <= k
    BY <1>2
  <2>2. \A n \in Rows : (\A m \in Rows : m <= n) => n = k
    BY <2>1
  <2> QED
    BY <2>1, <2>2, <1>2 DEF Last
<1> QED
  BY <1>1, <1>2

LEMMA InitIndInv == Init => IndInv
<1> SUFFICES ASSUME Init PROVE IndInv
  OBVIOUS
<1>1. Rows = {}
  BY DEF Init, Rows
<1>2. Rows = 1..0
  BY <1>1
<1> QED
  BY <1>1, <1>2, NobodyAssumption
  DEF Init, IndInv, TypeOK, Contiguous, LockHeld, ReadsHold, OneRowPerEvent,
      ChainVerifies, Verified, SiemAfterJournal, Journalled, Stages,
      InTransaction

\* An insertion under the lock extends the chain by one verified row.
LEMMA CreateExtends ==
    ASSUME IndInv, NEW w \in Workers, Create(w)
    PROVE  /\ ~Collides(w)
           /\ \E k \in Nat :
                /\ Rows = 1..k
                /\ previous[w] = k
                /\ Rows' = 1..(k + 1)
                /\ \A n \in Rows : journal'[n] = journal[n]
                /\ journal'[k + 1] = Row(k + 1, event[w], HashAt(k))
<1>1. PICK k \in Nat : Rows = 1..k
  BY DEF IndInv, Contiguous
<1>2. Last = k
  BY <1>1, LastIsCount
<1>3. previous[w] = k /\ ~Journalled(event[w])
  BY <1>2 DEF IndInv, ReadsHold, Create
<1>4. ~Collides(w)
  BY <1>1, <1>3 DEF Collides
<1>5. journal' = [n \in Rows \cup {k + 1} |->
          IF n = k + 1 THEN Row(k + 1, event[w], HashAt(k)) ELSE journal[n]]
  BY <1>3, <1>4 DEF Create
<1>6. Rows' = 1..(k + 1)
  BY <1>1, <1>5 DEF Rows
<1>7. journal'[k + 1] = Row(k + 1, event[w], HashAt(k))
  BY <1>5
<1>8. \A n \in Rows : journal'[n] = journal[n]
  BY <1>1, <1>5
<1> QED
  BY <1>1, <1>3, <1>4, <1>6, <1>7, <1>8

\* A step that leaves the table alone leaves alone what only the table decides.
LEMMA TableUnchanged ==
    ASSUME IndInv, UNCHANGED journal
    PROVE  /\ Contiguous' /\ OneRowPerEvent' /\ ChainVerifies'
           /\ Rows' = Rows /\ Last' = Last
           /\ \A e \in Events : Journalled(e)' <=> Journalled(e)
BY DEF IndInv, Contiguous, OneRowPerEvent, ChainVerifies, Verified, Rows, Last,
       Journalled

LEMMA HandleStep ==
    ASSUME IndInv, NEW w \in Workers, NEW e \in Events, Handle(w, e)
    PROVE  IndInv'
<1>1. UNCHANGED journal
  BY DEF Handle
<1>2. TypeOK'
  BY <1>1, TableUnchanged DEF Handle, IndInv, TypeOK, Goto, Stages
<1>3. LockHeld'
  BY DEF Handle, IndInv, TypeOK, LockHeld, Goto, InTransaction
<1>4. ReadsHold'
  BY <1>1, TableUnchanged
  DEF Handle, IndInv, TypeOK, ReadsHold, Goto, InTransaction
<1>5. SiemAfterJournal'
  BY <1>1, TableUnchanged DEF Handle, IndInv, TypeOK, SiemAfterJournal
<1> QED
  BY <1>1, <1>2, <1>3, <1>4, <1>5, TableUnchanged DEF IndInv

LEMMA AcquireLockStep ==
    ASSUME IndInv, NEW w \in Workers, AcquireLock(w)
    PROVE  IndInv'
<1>1. UNCHANGED journal
  BY DEF AcquireLock
<1>2. TypeOK'
  BY <1>1, TableUnchanged DEF AcquireLock, IndInv, TypeOK, Goto, Stages
<1>3. LockHeld'
  BY NobodyAssumption
  DEF AcquireLock, IndInv, TypeOK, LockHeld, Goto, InTransaction
<1>4. ReadsHold'
  BY <1>1, TableUnchanged DEF AcquireLock, IndInv, TypeOK, ReadsHold, Goto
<1>5. SiemAfterJournal'
  BY <1>1, TableUnchanged DEF AcquireLock, IndInv, TypeOK, SiemAfterJournal
<1> QED
  BY <1>1, <1>2, <1>3, <1>4, <1>5, TableUnchanged DEF IndInv

LEMMA FindExistingStep ==
    ASSUME IndInv, NEW w \in Workers, FindExisting(w)
    PROVE  IndInv'
<1>1. UNCHANGED journal
  BY DEF FindExisting
<1>2. TypeOK'
  BY <1>1, TableUnchanged
  DEF FindExisting, IndInv, TypeOK, Goto, AfterAppend, EndTransaction, Stages
<1>3. LockHeld'
  BY NobodyAssumption
  DEF FindExisting, IndInv, TypeOK, LockHeld, Goto, AfterAppend,
      EndTransaction, InTransaction
<1>4. ReadsHold'
  BY <1>1, TableUnchanged
  DEF FindExisting, IndInv, TypeOK, ReadsHold, Goto, AfterAppend
<1>5. SiemAfterJournal'
  BY <1>1, TableUnchanged DEF FindExisting, IndInv, TypeOK, SiemAfterJournal
<1> QED
  BY <1>1, <1>2, <1>3, <1>4, <1>5, TableUnchanged DEF IndInv

LEMMA ReadPreviousStep ==
    ASSUME IndInv, NEW w \in Workers, ReadPrevious(w)
    PROVE  IndInv'
<1>1. UNCHANGED journal
  BY DEF ReadPrevious
<1>2. Last \in Nat
  BY LastIsCount DEF IndInv, Contiguous
<1>3. TypeOK'
  BY <1>1, <1>2, TableUnchanged DEF ReadPrevious, IndInv, TypeOK, Goto, Stages
<1>4. LockHeld'
  BY DEF ReadPrevious, IndInv, TypeOK, LockHeld, Goto, InTransaction
<1>5. ReadsHold'
  BY <1>1, TableUnchanged DEF ReadPrevious, IndInv, TypeOK, ReadsHold, Goto
<1>6. SiemAfterJournal'
  BY <1>1, TableUnchanged DEF ReadPrevious, IndInv, TypeOK, SiemAfterJournal
<1> QED
  BY <1>1, <1>3, <1>4, <1>5, <1>6, TableUnchanged DEF IndInv

LEMMA ForwardStep ==
    ASSUME IndInv, NEW w \in Workers, Forward(w)
    PROVE  IndInv'
<1>1. UNCHANGED journal
  BY DEF Forward
<1>2. event[w] \in Events /\ Journalled(event[w])
  BY DEF Forward, IndInv, ReadsHold
<1>3. TypeOK'
  BY <1>1, <1>2, TableUnchanged DEF Forward, IndInv, TypeOK, Goto, Stages
<1>4. LockHeld'
  BY DEF Forward, IndInv, TypeOK, LockHeld, Goto, InTransaction
<1>5. ReadsHold'
  BY <1>1, TableUnchanged DEF Forward, IndInv, TypeOK, ReadsHold, Goto
<1>6. SiemAfterJournal'
  BY <1>1, <1>2, TableUnchanged DEF Forward, IndInv, TypeOK, SiemAfterJournal
<1> QED
  BY <1>1, <1>3, <1>4, <1>5, <1>6, TableUnchanged DEF IndInv

LEMMA CrashStep ==
    ASSUME IndInv, NEW w \in Workers, Crash(w)
    PROVE  IndInv'
<1>1. UNCHANGED journal
  BY DEF Crash
<1>2. TypeOK'
  BY <1>1, TableUnchanged
  DEF Crash, IndInv, TypeOK, Goto, EndTransaction, Stages
<1>3. LockHeld'
  BY NobodyAssumption
  DEF Crash, IndInv, TypeOK, LockHeld, Goto, EndTransaction, InTransaction
<1>4. ReadsHold'
  BY <1>1, TableUnchanged DEF Crash, IndInv, TypeOK, ReadsHold, Goto
<1>5. SiemAfterJournal'
  BY <1>1, TableUnchanged DEF Crash, IndInv, TypeOK, SiemAfterJournal
<1> QED
  BY <1>1, <1>2, <1>3, <1>4, <1>5, TableUnchanged DEF IndInv

LEMMA CreateStep ==
    ASSUME IndInv, NEW w \in Workers, Create(w)
    PROVE  IndInv'
<1>1. PICK k \in Nat :
        /\ Rows = 1..k
        /\ Rows' = 1..(k + 1)
        /\ \A n \in Rows : journal'[n] = journal[n]
        /\ journal'[k + 1] = Row(k + 1, event[w], HashAt(k))
  BY CreateExtends
<1>2. ~Collides(w)
  BY CreateExtends
<1>3. event[w] \in Events /\ ~Journalled(event[w])
  BY DEF IndInv, ReadsHold, Create
<1>4. /\ journal'[k + 1].event = event[w]
      /\ journal'[k + 1].previousHash = HashAt(k)
      /\ journal'[k + 1].entryHash = Hash(HashAt(k), k + 1, event[w])
  BY <1>1 DEF Row
<1>5. UNCHANGED <<event, previous, siem>> /\ AfterAppend(w) /\ EndTransaction(w)
  BY <1>2 DEF Create
<1>6. /\ \A e \in Events : Journalled(e) => Journalled(e)'
      /\ Journalled(event[w])'
  <2>1. k + 1 \in Rows' /\ Rows \subseteq Rows'
    BY <1>1
  <2>2. ASSUME NEW e \in Events, Journalled(e) PROVE Journalled(e)'
    BY <1>1, <2>1, <2>2 DEF Journalled
  <2>3. Journalled(event[w])'
    BY <1>4, <1>5, <2>1 DEF Journalled
  <2> QED
    BY <2>2, <2>3
<1>7. TypeOK'
  <2>1. Rows' \subseteq Nat \ {0}
    BY <1>1
  <2>2. \A n \in Rows' : journal'[n].event \in Events
    BY <1>1, <1>3, <1>4 DEF IndInv, TypeOK
  <2> QED
    BY <1>5, <2>1, <2>2
    DEF IndInv, TypeOK, AfterAppend, Goto, EndTransaction, Stages
<1>8. Contiguous'
  BY <1>1 DEF Contiguous
<1>9. LockHeld'
  BY <1>5, NobodyAssumption
  DEF Create, IndInv, TypeOK, LockHeld, AfterAppend, Goto, EndTransaction,
      InTransaction
<1>10. ReadsHold'
  <2>1. \A v \in Workers : pc'[v] \notin {"read", "insert"}
    BY <1>5
    DEF Create, IndInv, TypeOK, LockHeld, AfterAppend, Goto, InTransaction
  <2>2. \A v \in Workers : pc'[v] # "idle" => event'[v] \in Events
    BY <1>3, <1>5 DEF IndInv, TypeOK, ReadsHold, AfterAppend, Goto
  <2>3. \A v \in Workers : pc'[v] = "forward" => Journalled(event[v])'
    BY <1>6, <1>5 DEF IndInv, TypeOK, ReadsHold, AfterAppend, Goto
  <2> QED
    BY <1>5, <2>1, <2>2, <2>3 DEF ReadsHold
<1>11. OneRowPerEvent'
  <2>1. \A n \in Rows : journal[n].event # event[w]
    BY <1>3 DEF Journalled
  <2> QED
    BY <1>1, <1>4, <2>1 DEF IndInv, OneRowPerEvent
<1>12. ChainVerifies'
  <2> SUFFICES ASSUME NEW n \in Rows'
        PROVE LET expected == IF n = 1 THEN NoHash ELSE journal'[n - 1].entryHash
              IN  /\ n = 1 \/ n - 1 \in Rows'
                  /\ journal'[n].previousHash = expected
                  /\ journal'[n].entryHash = Hash(expected, n, journal'[n].event)
    BY DEF ChainVerifies, Verified, Rows
  <2>1. CASE n = k + 1
    <3>1. HashAt(k) = IF n = 1 THEN NoHash ELSE journal'[n - 1].entryHash
      BY <1>1, <2>1 DEF HashAt
    <3> QED
      BY <1>1, <1>4, <2>1, <3>1
  <2>2. CASE n # k + 1
    <3>1. n \in 1..k
      BY <1>1, <2>2
    <3>2. journal'[n] = journal[n] /\ (n # 1 => journal'[n - 1] = journal[n - 1])
      BY <1>1, <3>1
    <3>3. /\ journal[n].previousHash =
               (IF n = 1 THEN NoHash ELSE journal[n - 1].entryHash)
          /\ journal[n].entryHash =
               Hash(IF n = 1 THEN NoHash ELSE journal[n - 1].entryHash,
                    n, journal[n].event)
      BY <1>1, <3>1 DEF IndInv, ChainVerifies, Verified, Rows
    <3> QED
      BY <1>1, <3>1, <3>2, <3>3
  <2> QED
    BY <2>1, <2>2
<1>13. SiemAfterJournal'
  BY <1>6, <1>5 DEF IndInv, TypeOK, SiemAfterJournal
<1> QED
  BY <1>7, <1>8, <1>9, <1>10, <1>11, <1>12, <1>13 DEF IndInv

LEMMA StepIndInv == IndInv /\ [Next]_vars => IndInv'
<1> SUFFICES ASSUME IndInv, [Next]_vars PROVE IndInv'
  OBVIOUS
<1>1. CASE UNCHANGED vars
  <2>1. UNCHANGED journal
    BY <1>1 DEF vars
  <2> QED
    BY <1>1, <2>1, TableUnchanged
    DEF vars, IndInv, TypeOK, LockHeld, ReadsHold, SiemAfterJournal
<1>2. ASSUME NEW w \in Workers, NEW e \in Events, Handle(w, e) PROVE IndInv'
  BY <1>2, HandleStep
<1>3. ASSUME NEW w \in Workers, AcquireLock(w) PROVE IndInv'
  BY <1>3, AcquireLockStep
<1>4. ASSUME NEW w \in Workers, FindExisting(w) PROVE IndInv'
  BY <1>4, FindExistingStep
<1>5. ASSUME NEW w \in Workers, ReadPrevious(w) PROVE IndInv'
  BY <1>5, ReadPreviousStep
<1>6. ASSUME NEW w \in Workers, Create(w) PROVE IndInv'
  BY <1>6, CreateStep
<1>7. ASSUME NEW w \in Workers, Forward(w) PROVE IndInv'
  BY <1>7, ForwardStep
<1>8. ASSUME NEW w \in Workers, Crash(w) PROVE IndInv'
  BY <1>8, CrashStep
<1> QED
  BY <1>1, <1>2, <1>3, <1>4, <1>5, <1>6, <1>7, <1>8 DEF Next

LEMMA Invariance == Spec => []IndInv
BY InitIndInv, StepIndInv, PTL DEF Spec

\* Every row holds an event, under a sequence number that is not zero, and the
\* lock, the workers and the SIEM stay what the schema makes them.
THEOREM JournalIsWellTyped == Spec => []TypeOK
<1>1. IndInv => TypeOK
  BY DEF IndInv
<1> QED
  BY <1>1, Invariance, PTL

\* Whenever the verification job reads the table, in any interleaving of any
\* number of appends, redeliveries and crashes, the chain verifies.
THEOREM ChainAlwaysVerifies == Spec => []ChainVerifies
<1>1. IndInv => ChainVerifies
  BY DEF IndInv
<1> QED
  BY <1>1, Invariance, PTL

\* An event is journalled at most once, for any number of deliveries of it.
THEOREM NeverJournalledTwice == Spec => []OneRowPerEvent
<1>1. IndInv => OneRowPerEvent
  BY DEF IndInv
<1> QED
  BY <1>1, Invariance, PTL

\* What the SIEM has seen is journalled, also when the append that preceded the
\* forward was another worker's, or the worker dies between the two.
THEOREM SiemFollowsJournal == Spec => []SiemAfterJournal
<1>1. IndInv => SiemAfterJournal
  BY DEF IndInv
<1> QED
  BY <1>1, Invariance, PTL

\* The advisory lock makes the UNIQUE indexes redundant: no append is failed by
\* a concurrent one.
THEOREM AppendsNeverCollide == Spec => []InsertNeverCollides
<1>1. ASSUME IndInv, NEW w \in Workers, pc[w] = "insert" PROVE ~Collides(w)
  <2>1. PICK k \in Nat : Rows = 1..k
    BY <1>1 DEF IndInv, Contiguous
  <2>2. previous[w] = k /\ ~Journalled(event[w])
    BY <1>1, <2>1, LastIsCount DEF IndInv, ReadsHold
  <2> QED
    BY <2>1, <2>2 DEF Collides
<1>2. IndInv => InsertNeverCollides
  BY <1>1 DEF InsertNeverCollides
<1> QED
  BY <1>2, Invariance, PTL

\* A digest without collisions: what the hash chain takes SHA-256 to be.
HashInjective ==
    \A p, s, e, q, t, f : Hash(p, s, e) = Hash(q, t, f) => p = q /\ s = t /\ e = f

\* With a collision-free digest the chain is evidence of every committed row
\* but the last one's content: tampering makes verifyChain fail.
THEOREM TamperingAlwaysShows == HashInjective => (Spec => []TamperingShows)
<1>1. ASSUME HashInjective, IndInv, NEW n \in Rows, n # Last
      PROVE  ~Verified(Without(n))
  <2>1. PICK k \in Nat : Rows = 1..k /\ Last = k
    BY <1>1, LastIsCount DEF IndInv, Contiguous
  <2>2. n \in 1..k /\ n # k
    BY <1>1, <2>1
  <2>3. n + 1 \in Rows \ {n} /\ n + 1 # 1 /\ (n + 1) - 1 = n
    BY <2>1, <2>2
  <2>4. DOMAIN Without(n) = Rows \ {n}
    BY DEF Without
  <2> QED
    BY <2>3, <2>4 DEF Verified
<1>2. ASSUME HashInjective, IndInv, NEW n \in Rows, NEW rehash \in BOOLEAN,
             NEW e \in Events \ {journal[n].event}, rehash => n # Last
      PROVE  ~Verified(Forged(n, e, rehash))
  <2>1. PICK k \in Nat : Rows = 1..k /\ Last = k
    BY <1>2, LastIsCount DEF IndInv, Contiguous
  <2> DEFINE forged == Forged(n, e, rehash)
             before == IF n = 1 THEN NoHash ELSE journal[n - 1].entryHash
  <2>2. /\ DOMAIN forged = Rows
        /\ \A m \in Rows \ {n} : forged[m] = journal[m]
        /\ forged[n].event = e
        /\ forged[n].entryHash = IF rehash
                                 THEN Hash(journal[n].previousHash, n, e)
                                 ELSE journal[n].entryHash
    BY DEF Forged, Rows
  <2>3. /\ journal[n].previousHash = before
        /\ journal[n].entryHash = Hash(before, n, journal[n].event)
    BY <1>2 DEF IndInv, ChainVerifies, Verified, Rows
  <2>4. Hash(before, n, e) # Hash(before, n, journal[n].event)
    BY <1>2 DEF HashInjective
  <2>5. CASE ~rehash
    <3>1. n # 1 => forged[n - 1] = journal[n - 1]
      BY <2>1, <2>2
    <3>2. Verified(forged) => forged[n].entryHash = Hash(before, n, e)
      BY <2>2, <3>1 DEF Verified
    <3> QED
      BY <2>2, <2>3, <2>4, <2>5, <3>2
  <2>6. CASE rehash
    <3>1. n + 1 \in Rows /\ n + 1 # n /\ n + 1 # 1 /\ (n + 1) - 1 = n
      BY <1>2, <2>1, <2>6
    <3>2. journal[n + 1].previousHash = journal[n].entryHash
      BY <1>2, <3>1 DEF IndInv, ChainVerifies, Verified, Rows
    <3>3. Verified(forged) => forged[n + 1].previousHash = forged[n].entryHash
      BY <2>2, <3>1 DEF Verified
    <3>4. forged[n].entryHash = Hash(before, n, e)
      BY <2>2, <2>3, <2>6
    <3>5. forged[n + 1].previousHash = journal[n + 1].previousHash
      BY <2>2, <3>1
    <3> QED
      BY <2>3, <2>4, <3>2, <3>3, <3>4, <3>5
  <2> QED
    BY <2>5, <2>6
<1>3. HashInjective /\ IndInv => TamperingShows
  BY <1>1, <1>2 DEF TamperingShows
<1>4. ASSUME HashInjective PROVE Spec => []TamperingShows
  BY <1>3, <1>4, Invariance, PTL
<1> QED
  BY <1>4
=============================================================================
