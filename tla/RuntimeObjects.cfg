SPECIFICATION Spec
CONSTANTS
  None = None
PROPERTIES
  SocketKeepsWord
  ListenerKeepsWord
  MemoryKeepsWord
  ListsKeepWord
  FilesKeepWord
  RegistriesKeepWord
\* A part stops when its callers have nothing more to do.
CHECK_DEADLOCK FALSE
