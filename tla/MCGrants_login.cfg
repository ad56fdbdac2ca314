SPECIFICATION Spec
CONSTANTS
  c1 = c1  c2 = c2  r1 = r1  r2 = r2  a1 = a1  a2 = a2  d1 = d1  d2 = d2  k1 = k1
  agent = agent  person = person
  None = None
  NameOf <- Names
  Reviewer = person
  Local = person
  Name = {agent, person}
  Offer <- Offers
  Client = {c1, c2}
  Account = {}
  Capability = {"observe"}
  Request = {r1}
  MaxGrants = 2
  MaxPairs = 3
  Desk = {d1, d2}
  Call = {}
SYMMETRY Desks
INVARIANTS TypeOK SpentOnce OneRefreshWorks AgreedOnce HeldByItsClient NoAgentIsThePerson
CHECK_DEADLOCK FALSE
