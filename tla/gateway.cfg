SPECIFICATION FairSpec
CONSTANTS
  e1 = e1
  e2 = e2
  c1 = c1
  m1 = m1
  a1 = a1
  Endpoints = {e1, e2}
  Priority <- FirstThenSecond
  Serves <- SharedByAll
  Chats = {c1}
  Embeds = {m1}
  Agents = {a1}
  AgentOf <- EmbedForAgent
  Concurrencies = {1, 2}
  Configured <- OneEach
  NoEndpoint = NoEndpoint
  Threshold = 1
  MaxAttempts = 2
  MaxFaults = 1
CHECK_DEADLOCK FALSE
INVARIANTS TypeOK SlotsAccounted NeverOverloaded NoMixedOutput NothingLeaks
PROPERTIES JobsEnd AgentsEnd
