SPECIFICATION Spec
CONSTANTS
  m1 = m1
  m2 = m2
  service = service
  cli = cli
  None = None
  Msg = {m1, m2}
  Wanted = {}
  Size <- MCSize
  Budget = 2
  Keeps = {TRUE}
  MaxUid = 2
  MaxVersion = 2
  MaxValidity = 2
  MaxGeneration = 3
  Syncer = {service, cli}
  Service = service
INVARIANTS TypeOK MessageAtItsUid NothingOverlooked
PROPERTIES GoneStaysGone
SYMMETRY Symmetry
