SPECIFICATION Spec
CONSTANTS
  r1 = r1
  r2 = r2
  d1 = d1
  w1 = w1
  w2 = w2
  h1 = h1
  h2 = h2
  NoRun = NoRun
  Runs = {r1}
  Definitions = {d1}
  DefinitionOf <- OneDefinition
  Nodes <- ForkNodes
  Edges <- ForkEdges
  Triggers = {"t"}
  NamedStarts = {}
  Blocked = {}
  Results <- ForkResults
  AnswerBranches = {"success"}
  MaxAttempts <- ForkAttempts
  MaxNodesPerRun = 5
  Workers = {w1}
  Handlers = {h1}
  MaxAnswers = 1
  MaxFaults = 1
  Environment = {"crash"}
CHECK_DEADLOCK FALSE
INVARIANT SucceededIsComplete
