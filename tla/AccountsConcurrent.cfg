SPECIFICATION FairSpec
CONSTANTS
  Handlers = {h1, h2}
  Numbers = {n1, n2}
  Users = {alice, carol}
  Employees = {carol}
  Types = {savings}
  Currencies = {eur}
  Deposits = {d1}
  Reasons = {r1}
  Null = Null
  Ops = {"create", "update", "close", "get", "list", "balance", "adminGet", "adminList"}
  MaxRequests = 3
  MaxLag = 1
INVARIANTS
  TypeOK
  DocumentsConsistent
  IdentityNeverChanges
  RepliesRespectOwner
  CustomersReadActive
PROPERTIES
  OnlyOwnersWrite
  FreshReplaceNeverReopens
  EveryRequestAnswered
