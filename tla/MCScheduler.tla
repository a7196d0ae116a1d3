---------------------------- MODULE MCScheduler ----------------------------
(* TLC instances of Scheduler. *)
EXTENDS Scheduler

\* Windows that open at their occurrence and warn as they open, close a tick
\* later and are reviewed at once.
MCOffset == [s \in Advanceable |-> IF s \in {"PENDING", "OPEN"} THEN 0 ELSE 1]
=============================================================================
