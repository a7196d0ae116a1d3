---------------------------- MODULE MCSuggestions ----------------------------
(* TLC instances of Suggestions.                                           *)
EXTENDS Suggestions, FiniteSets, TLC

CONSTANTS kpi1, kpi2, okr1

MCIsKpi(s) == s # okr1
MCAlike(s, t) == TRUE

Symmetry == Permutations(Kpis) \cup Permutations(Okrs) \cup Permutations(Users)
            \cup Permutations(Acceptors) \cup Permutations({kpi1, kpi2})

\* At most two calls are under way at a time, one definition has a second
\* version and one is retired.
Busy == Cardinality({u \in Users : ~At(u, "idle")})
        + Cardinality({a \in Acceptors : ~Calls(a, "idle")})
Narrow ==
    /\ Busy <= 2
    /\ Cardinality({k \in Kpis : Len(versions[k]) > 1}) <= 1
    /\ Cardinality({k \in Kpis : status[k] = "retired"}) <= 1
=============================================================================
