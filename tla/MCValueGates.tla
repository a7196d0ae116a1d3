---------------------------- MODULE MCValueGates ----------------------------
(* TLC instances of ValueGates.                                            *)
EXTENDS ValueGates, TLC

Symmetry == Permutations(Users) \cup Permutations(Sweepers) \cup Permutations(Workers)
            \cup Permutations(Committee)

Busy == Cardinality({u \in Users : request[u] # Idle})
        + Cardinality({w \in Sweepers : sweeper[w] # Resting})
        + Cardinality({o \in Owners : mover[o] # 0})
        + Cardinality({w \in Workers : worker[w] # Unemployed})
        + Cardinality({d \in Committee : decider[d] # Absent})

\* Two actors at a time; and either the benefit runs its course with its
\* check-ins, or its initiative moves on and comes to its first gate.  A value
\* is realized while it is tracked.
Narrow == /\ Busy <= 2
          /\ realized => benefit.state \in {"tracking", "closure"}
          /\ announced # {} => /\ announced = {Start} /\ requests <= 1
                              /\ \A u \in Users : request[u] = Idle
=============================================================================
