SPECIFICATION Spec
CONSTANTS
  A = A
  B = B
  d1 = d1
  d2 = d2
  h1 = h1
  h2 = h2
  pull = pull
  replay = replay
  Active = A
  Passive = B
  Winner = B
  Nobody = Nobody
  Missing = Missing
  Docs = {d1}
  Enabled <- Everything
  Poison <- Nothing
  Handlers = {h1, h2}
  Puller = pull
  Replayer = replay
  SecondLength = 2
  BatchLimit = 2
  MaxAttempts = 2
  MaxWrites = 2
  MaxFaults = 1
  Environment = {"fail", "giveUp", "swallow", "tokenLost", "restart", "expire", "gc"}
SYMMETRY Interchangeable
CHECK_DEADLOCK FALSE
INVARIANTS TypeOK NothingSkipped LogFollowsStream SidesConverge DeletionsHold
