CONSTANTS
  Cases = {c1}
  Users = {u1, u2}
  Servers = {s1}
  Workers = {w1}
  Nobody = Nobody
  Definition <- DefaultDefinition
  Initial = "draft"
  Sla = 1
  MaxTime = 1
  MaxLog = 2
  MaxCrashes = 0
SPECIFICATION Spec
PROPERTIES
  StaleTimerIsNoOp
CHECK_DEADLOCK FALSE
