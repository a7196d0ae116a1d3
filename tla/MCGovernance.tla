---------------------------- MODULE MCGovernance ----------------------------
(* TLC instances of Governance. *)
EXTENDS Governance

\* A definition like the one the integration test registers: approval behind a
\* rule instead of the machine's own separation-of-duties guard.
GatedDefinition ==
    {IF t.on = "APPROVE" THEN [t EXCEPT !.guard = "ruleGate"] ELSE t :
        t \in DefaultDefinition}
=============================================================================
