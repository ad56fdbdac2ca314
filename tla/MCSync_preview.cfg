SPECIFICATION Spec
CONSTANTS
  m1 = m1
  m2 = m2
  service = service
  cli = cli
  None = None
  Msg = {m1}
  Wanted = {m1}
  Size <- MCSize
  Budget = 2
  Keeps = {TRUE}
  MaxUid = 1
  MaxVersion = 2
  MaxValidity = 1
  MaxGeneration = 1
  Syncer = {service}
  Service = service
INVARIANT PreviewStays
CHECK_DEADLOCK FALSE
