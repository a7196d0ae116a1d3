CONSTANTS
  Cases = {c1}
  Users = {u1, u2}
  Servers = {s1, s2}
  Workers = {w1, w2}
  Nobody = Nobody
  Definition <- GatedDefinition
  Initial = "draft"
  Sla = 1
  MaxTime = 2
  MaxLog = 3
  MaxCrashes = 1
SPECIFICATION FairSpec
INVARIANTS
  TypeOK
  DecisionsAgree
  SeparationOfDuties
PROPERTIES
  DecidedIsFinal
  OverdueIsEscalated
CHECK_DEADLOCK FALSE
