SPECIFICATION RestartsSpec
CONSTANTS
  r1 = r1
  r2 = r2
  d1 = d1
  w1 = w1
  w2 = w2
  h1 = h1
  h2 = h2
  NoRun = NoRun
  Runs = {r1, r2}
  Definitions = {d1}
  DefinitionOf <- OneDefinition
  Nodes <- PairNodes
  Edges <- PairEdges
  Triggers = {"t"}
  NamedStarts = {}
  Blocked = {}
  Results <- PairResults
  AnswerBranches = {}
  MaxAttempts <- PairAttempts
  MaxNodesPerRun = 5
  Workers = {w1}
  Handlers = {h1}
  MaxAnswers = 0
  MaxFaults = 2
  Environment = {"crash", "quick restart", "early tick", "slow"}
CHECK_DEADLOCK FALSE
INVARIANT EachNodeSucceedsOnce
PROPERTY RunsEnd
