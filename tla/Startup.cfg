\* Four services, of which b may lack an interface and is asked for, and every
\* acyclic graph of dependencies.
SPECIFICATION StartupFairSpec
CONSTANTS
  Accessors <- FourServices
  Optional = {"b"}
  Requested = {"b"}
  Modules = 2
INVARIANTS
  ServicesInOrder
  ModulesInOrder
PROPERTIES
  ShutdownEnds
\* Nothing happens to an invalid or a finished application.
CHECK_DEADLOCK FALSE
