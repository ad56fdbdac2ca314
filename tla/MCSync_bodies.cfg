SPECIFICATION FairSpec
CONSTANTS
  m1 = m1
  m2 = m2
  service = service
  cli = cli
  None = None
  Msg = {m1, m2}
  Wanted = {m1, m2}
  Size <- MCSize
  Budget = 2
  Keeps = {TRUE}
  MaxUid = 2
  MaxVersion = 3
  MaxValidity = 2
  MaxGeneration = 3
  Syncer = {service}
  Service = service
INVARIANT BodyIsItsOwn
PROPERTIES FetchedIsKept ComesIntoStep
