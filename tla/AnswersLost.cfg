SPECIFICATION Spec
CONSTANTS
  a1 = a1
  a2 = a2
  NoAgent = NoAgent
  Agents = {a1, a2}
  Isolated = {a2}
  Ids = {1, 2}
  MaxAsk = 3
INVARIANT AnswersReach
CHECK_DEADLOCK FALSE
