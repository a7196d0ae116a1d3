----------------------------- MODULE MCRecompute -----------------------------
(* TLC instances of Recompute.                                             *)
EXTENDS Recompute, FiniteSets, TLC

MCLabel(v) == IF v = 0 THEN "off_track" ELSE "on_track"
SomeFeeds == {[source |-> "FEED", locked |-> TRUE], [source |-> "TEMPLATE", locked |-> FALSE]}
UnlockedFeed == {[source |-> "FEED", locked |-> FALSE]}

CallerSymmetry == Permutations(Callers)
Symmetry == CallerSymmetry \cup Permutations(Workers)

\* Two events; and either several callers and sessions, which race over the
\* rows, or workers, which race over the events of rows imported one by one.
Quiet == clock = 0 /\ handled = {} /\ faults = 0 /\ \A w \in Workers : worker[w] = Free
Plain == /\ session = <<>>
         /\ Cardinality({c \in Callers : caller[c] # Idle}) <= 1
         /\ \A i \in DOMAIN rows : ~rows[i].kind.locked
Narrow == /\ Cardinality(Events) <= 2
          /\ Quiet \/ Plain
=============================================================================
