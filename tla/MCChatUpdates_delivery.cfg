SPECIFICATION UpdatesSpec
CONSTANTS
  q1 = q1  q2 = q2  w1 = w1  w2 = w2
  Free = Free
  LastUpdate = 3
  Requests = {q1, q2}
  Workers = {w1, w2}
  MaxLosses = 1
INVARIANTS
  HandedOverAtMostOnce
PROPERTIES
  StepsAreNotOverwritten
  EveryUpdateIsAnswered
CHECK_DEADLOCK FALSE
