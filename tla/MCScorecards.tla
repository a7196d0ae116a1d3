---------------------------- MODULE MCScorecards ----------------------------
(* TLC instances of Scorecards.                                            *)
EXTENDS Scorecards, FiniteSets, TLC

Symmetry == Permutations(Authors) \cup Permutations(Editors)

\* At most two requests are under way at a time.  Maps have nothing in common
\* with weightings, and either are explored without the other; nothing follows
\* from a rejected case.  One case, the first if any, is about perspectives, two
\* are about weightings.  A third weighting is published under one version of
\* the rule.
Busy == Cardinality({a \in Authors : ~Does(a, "idle")})
        + Cardinality({e \in Editors : ~At(e, "idle")})
Apart == maps = <<>> \/ (rule = <<>> /\ \A c \in Cases : cases[c].kind = "map")
Narrow ==
    /\ Busy <= 2
    /\ Apart
    /\ \A c \in Cases : cases[c].kind = "perspective" => c = 1
    /\ Cardinality({c \in Cases : cases[c].kind = "weighting"}) <= 2
    /\ \A c \in Cases : cases[c].state # "rejected"
    /\ Len(weightings) = MaxWeightings => Len(rule) = 1
=============================================================================
