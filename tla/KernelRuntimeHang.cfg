SPECIFICATION FairSpec
CONSTANTS
  Objects = {o1, o2}
  Holders = {h1, h2}
  LoopHolders = {h1}
PROPERTIES
  ForcedShutdownCompletes
\* The runtime thread ends, and a shutdown may be blocked by a coroutine.
CHECK_DEADLOCK FALSE
