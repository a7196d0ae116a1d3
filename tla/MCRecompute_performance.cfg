CONSTANTS
  Callers = {c1, c2}
  Nobody = Nobody
  Values = {0, 1}
  Imports <- SomeFeeds
  MaxRows = 2
  MaxSessions = 2
  Workers = {w1, w2}
  WindowClosed = WindowClosed
  Label <- MCLabel
  OffTrack = "off_track"
  NoLabel = "none"
  MaxFaults = 1
SYMMETRY Symmetry
CONSTRAINT Narrow
SPECIFICATION Spec
INVARIANTS TypeOK ChainIsLinear OncePerEvent FreshAsItsEvent
CHECK_DEADLOCK FALSE
