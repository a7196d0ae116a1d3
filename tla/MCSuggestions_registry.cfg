CONSTANTS
  kpi1 = kpi1
  kpi2 = kpi2
  okr1 = okr1
  Kpis = {k1, k2}
  Users = {u1, u2}
  NoOne = NoOne
  MaxVersions = 2
  Suggested = {kpi1, okr1}
  IsKpi <- MCIsKpi
  Alike <- MCAlike
  Okrs = {o1, o2}
  NoRecord = NoRecord
  Acceptors = {a1, a2}
SYMMETRY Symmetry
CONSTRAINT Narrow
SPECIFICATION Spec
INVARIANTS TypeOK VersionsAreLinear OneRecordPerSuggestion
PROPERTY RetiredIsFinal
CHECK_DEADLOCK FALSE
