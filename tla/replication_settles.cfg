SPECIFICATION FairSpec
CONSTANTS
  A = A
  B = B
  d1 = d1
  d2 = d2
  h1 = h1
  h2 = h2
  pull = pull
  replay = replay
  Active = A
  Passive = B
  Winner = B
  Nobody = Nobody
  Missing = Missing
  Docs = {d1, d2}
  Enabled <- SecondAtActiveOnly
  Poison <- FirstAtPassive
  Handlers = {h1}
  Puller = pull
  Replayer = replay
  SecondLength = 2
  BatchLimit = 2
  MaxAttempts = 2
  MaxWrites = 2
  MaxFaults = 1
  Environment = {"refuse", "tooLarge", "fail", "die", "replay", "discard"}

CHECK_DEADLOCK FALSE
PROPERTY Settles
