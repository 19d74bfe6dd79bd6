SPECIFICATION Spec
CONSTANTS
  Nil = Nil
  Free = Free
  None = None
PROPERTIES
  ImplementsGroupContract
  CollectionAwaited
  ThreadsMeet
  TimersKeepWord
  CoroutinesKeepWord
\* A part stops when its callers have nothing more to do.
CHECK_DEADLOCK FALSE
