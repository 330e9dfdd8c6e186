SPECIFICATION FairSpec
CONSTANTS
  Handlers = {h1}
  Pollers = {w1, w2}
  Fallible = {w1, w2}
  Impatient = {w1}
  MaxTasks = 3
  None = None
CHECK_DEADLOCK FALSE
INVARIANTS TypeOK NothingLost AtMostOnce DispatchOrder UrgentFirst NobodyStranded
PROPERTY EveryTaskDispatched
