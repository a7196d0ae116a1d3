--------------------------- MODULE MCAuditJournal ---------------------------
(* TLC instance of AuditJournal: three events, two of them for the SIEM.   *)
EXTENDS AuditJournal, TLC

CONSTANTS e1, e2, e3, w1, w2

MCEvents == {e1, e2, e3}
MCSecurityEvents == {e1, e2}
MCWorkers == {w1, w2}

\* A collision-free digest: the tuple of what is hashed.
MCHash(prevHash, seq, e) == <<prevHash, seq, e>>

WorkerSymmetry == Permutations(MCWorkers)
=============================================================================
