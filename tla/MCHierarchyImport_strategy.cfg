CONSTANTS
  objective = objective
  play = play
  area = area
  area2 = area2
  p1 = p1
  p2 = p2
  p3 = p3
  Plans = {p1, p2, p3}
  Nodes = {objective, play, area, area2}
  Type <- MCType
  Rules <- MCRules
  Opened = p1
  Charter = {play, area}
  CharterEdges = {}
  Ids = {i1, i2}
  NoId = NoId
  NoNode = NoNode
  Users = {u1, u2}
  Workers = {w1, w2}
  MaxRequests = 2
SYMMETRY Symmetry
SPECIFICATION Spec
INVARIANTS TypeOK OneActivePlan AppliedOnceAndApproved ImportFollowsChange
CHECK_DEADLOCK FALSE
