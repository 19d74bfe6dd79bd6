SPECIFICATION Spec
CONSTANTS
  None = None
PROPERTIES
  SessionAnswers
  ScriptsRunWhole
  NativesKeepWord
  ChangesKeepWord
  PropertiesKeepWord
\* A part stops when its callers have nothing more to do.
CHECK_DEADLOCK FALSE
