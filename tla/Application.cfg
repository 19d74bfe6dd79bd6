SPECIFICATION AppFairSpec
CONSTANTS
  Objects = {o1, o2}
  Holders = {h1, h2}
  LoopHolders = {h1}
  ServiceTasks = 2
INVARIANTS
  ObjectsAreWaitedFor
  UnloadIsLast
PROPERTIES
  NeverBack
  StopCompletes
\* The application ends, and a shutdown may be blocked by a coroutine.
CHECK_DEADLOCK FALSE
