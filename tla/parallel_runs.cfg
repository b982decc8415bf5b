SPECIFICATION Spec
CONSTANTS
  r1 = r1
  r2 = r2
  d1 = d1
  w1 = w1
  w2 = w2
  h1 = h1
  h2 = h2
  NoRun = NoRun
  Runs = {r1, r2}
  Definitions = {d1}
  DefinitionOf <- OneDefinition
  Nodes <- ForkNodes
  Edges <- ForkEdges
  Triggers = {"t"}
  NamedStarts = {"a"}
  Blocked = {"c"}
  Results <- ForkResults
  AnswerBranches = {}
  MaxAttempts <- ForkAttempts
  MaxNodesPerRun = 3
  Workers = {w1, w2}
  Handlers = {h1, h2}
  MaxAnswers = 0
  MaxFaults = 0
  Environment = {"cancel", "retry"}
SYMMETRY Interchangeable
CHECK_DEADLOCK FALSE
INVARIANTS OneJobPerDefinition BudgetHolds OneRetryPerRun SucceededIsComplete
PROPERTY ImplementsLifecycle
