SPECIFICATION FairSpec
CONSTANTS
  a1 = a1
  a2 = a2
  a3 = a3
  NoAgent = NoAgent
  Agents = {a1, a2, a3}
  Isolated = {a1, a2}
  Ids = {1, 2}
  MaxAsk = 2
INVARIANTS RequestIsKept
PROPERTIES QuestionsAreReleased TasksEnd
CHECK_DEADLOCK FALSE
