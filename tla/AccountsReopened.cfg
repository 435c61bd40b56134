SPECIFICATION Spec
CONSTANTS
  Handlers = {h1, h2}
  Numbers = {n1, n2}
  Users = {alice}
  Employees = {}
  Types = {savings}
  Currencies = {eur}
  Deposits = {d1}
  Reasons = {r1}
  Null = Null
  Ops = {"create", "update", "close"}
  MaxRequests = 3
  MaxLag = 0
SYMMETRY Symmetry
INVARIANTS
  ClosedForGood
