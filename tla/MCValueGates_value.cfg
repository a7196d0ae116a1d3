CONSTANTS
  Users = {u1, u2}
  Sweepers = {s1, s2}
  Months = {3, 6}
  Owners = {o1}
  Workers = {w1, w2}
  Committee = {d1, d2}
  Start = 2
  MaxCases = 3
  MaxRequests = 6
SYMMETRY Symmetry
CONSTRAINT Narrow
SPECIFICATION Spec
INVARIANTS TypeOK LifecycleIsFounded StopIsTerminal
PROPERTIES GatesStand
CHECK_DEADLOCK FALSE
