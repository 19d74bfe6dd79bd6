SPECIFICATION Spec
CONSTANTS
  Resolvers = {r1}
  Awaiter = awaiter
  Registrar = registrar
  NoOutcome = NoOutcome
INVARIANT NoUseAfterFree
