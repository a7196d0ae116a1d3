-------------------------- MODULE MCHierarchyImport --------------------------
(* TLC instances of HierarchyImport.                                       *)
EXTENDS HierarchyImport, TLC

CONSTANTS objective, play, area, area2, p1, p2, p3

MCType(n) == CASE n = objective -> "objective" [] n = play -> "strategic_play"
               [] OTHER -> "area_of_focus"
Rule(f, t, min, max) == [from |-> f, to |-> t, min |-> min, max |-> max]
MCRules == {Rule("objective", "strategic_play", 1, 9),
            Rule("strategic_play", "area_of_focus", 0, 1)}

Symmetry == Permutations(Ids) \cup Permutations(Users) \cup Permutations(Workers)
            \cup Permutations(Plans \ {Opened})
=============================================================================
