SPECIFICATION FairSpec
CONSTANTS
  Resolvers = {r1, r2}
  Awaiter = awaiter
  Registrar = registrar
  NoOutcome = NoOutcome
INVARIANTS
  TruthfulResult
  NothingIsLost
  NoUseAfterRelease
PROPERTIES
  ImplementsContract
  EventuallyFreed
