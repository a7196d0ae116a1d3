CONSTANTS
  Authors = {a1, a2}
  MaxRules = 2
  Editors = {e1, e2}
  Perspectives = {p1}
  Links = {l1}
  MaxCases = 3
  MaxWeightings = 3
  MaxMaps = 2
  MaxTime = 1
SYMMETRY Symmetry
CONSTRAINT Narrow
SPECIFICATION Spec
INVARIANTS VersionsFormOneLine PublicationsAreFounded
PROPERTY PublishedNeverGoesBack
CHECK_DEADLOCK FALSE
