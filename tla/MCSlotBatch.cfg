CONSTANTS
  a = a
  b = b
  Tokens = {a, b}
  NoTask = NoTask
  NSlots = 2
  Prompts <- MCPrompts
  NBatch = 4
  NCtx = 6
  NKeep = 1
  NReuse = 1
  Scenarios <- MCScenarios
  MaxTasks = 3
  MaxGen = 3
SPECIFICATION BatchSpec
CHECK_DEADLOCK FALSE
INVARIANTS
  KvIsPrompt
  AllSampled
PROPERTIES
  RoundEnds
