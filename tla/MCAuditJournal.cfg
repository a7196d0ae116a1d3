CONSTANTS
  e1 = e1
  e2 = e2
  e3 = e3
  w1 = w1
  w2 = w2
  Events <- MCEvents
  SecurityEvents <- MCSecurityEvents
  Workers <- MCWorkers
  Nobody = Nobody
  NoEvent = NoEvent
  NoHash = NoHash
  Hash <- MCHash
SYMMETRY WorkerSymmetry
SPECIFICATION Spec
INVARIANTS
  TypeOK
  ChainVerifies
  OneRowPerEvent
  TamperingShows
