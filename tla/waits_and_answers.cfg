SPECIFICATION Spec
CONSTANTS
  r1 = r1
  r2 = r2
  d1 = d1
  w1 = w1
  w2 = w2
  h1 = h1
  h2 = h2
  NoRun = NoRun
  Runs = {r1}
  Definitions = {d1}
  DefinitionOf <- OneDefinition
  Nodes <- WaitNodes
  Edges <- WaitEdges
  Triggers = {"t"}
  NamedStarts = {}
  Blocked = {}
  Results <- WaitResults
  AnswerBranches = {"success"}
  MaxAttempts <- WaitAttempts
  MaxNodesPerRun = 5
  Workers = {w1}
  Handlers = {h1, h2}
  MaxAnswers = 1
  MaxFaults = 1
  Environment = {"cancel", "several recipients", "crash", "quick restart", "database error"}
CHECK_DEADLOCK FALSE
SYMMETRY Interchangeable
INVARIANTS TypeOK EachNodeSucceedsOnce CancelledRunsClose
PROPERTY EndedRunsStay
