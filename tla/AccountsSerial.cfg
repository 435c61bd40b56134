SPECIFICATION SerialSpec
CONSTANTS
  Handlers = {h1, h2}
  Numbers = {n1, n2}
  Users = {alice}
  Employees = {}
  Types = {savings}
  Currencies = {eur, usd}
  Deposits = {d1}
  Reasons = {r1}
  Null = Null
  Ops = {"create", "update", "close", "list", "balance"}
  MaxRequests = 4
  MaxLag = 0
SYMMETRY Symmetry
INVARIANTS
  ClosedForGood
  UpdatedAtNeverGoesBack
PROPERTIES
  ImplementsLedger
  NoActiveAccountMissed
