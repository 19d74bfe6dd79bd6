SPECIFICATION Spec
CONSTANTS
  Workers = {w1, w2}
  Clients = {c1}
  Nobody = Nobody
  Callers = {c1, c2}
  Users = {u1, u2}
  MaxRefs = 2
  MaxCounted = 3
  Getters = {g1, g2}
  Settlers = {s1, s2}
  MaxGeneration = 2
  IsVoid = FALSE
  Weakly = {o1, o2}
  ByAddress = {o3}
  Wanted = {o1, o3}
  AutoRemoved = {o1}
  Sources = {f1, f2}
  Lines = {1, 2}
  Names = {n1}
  MaxLines = 2
  MaxRequests = 3
  Frames = {1}
  MaxId = 5
  MaxChildren = 2
  LuaThreads = {t1}
  LuaObjects = {p1, p2}
  MaxStack = 2
  MaxKept = 2
  MaxValues = 2
INVARIANTS
  PoolKeepsCount
  QueueKeepsOrder
  HoldersKeepAlive
  AwaitersAreAnswered
  VisitsMeetTheLiving
  BreakpointsKeepWord
  NothingOutlivesThePause
  ValuesKeepWord
PROPERTIES
  PoolKeepsWord
  QueueKeepsWord
\* The pool stops once it is destroyed, or when join() waits for ever, and the
\* others when their callers have nothing more to do.
CHECK_DEADLOCK FALSE
