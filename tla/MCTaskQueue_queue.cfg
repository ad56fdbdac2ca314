SPECIFICATION Spec
CONSTANTS
  p1 = p1  p2 = p2  work = work  home = home
  apply = apply  sync = sync  body = body
  Process = {p1, p2}
  Account = {work, home}
  Ask = {apply, sync}
  AccountOf <- Where
  Apply = {apply}
  Resumable = {apply, sync}
  MaxRows = 3
  NoAsk = {apply, sync}
INVARIANTS TypeOK OneLiveRow OneLanePerAccount AcceptedIsNotForgotten RunningIsRun
SYMMETRY Processes
