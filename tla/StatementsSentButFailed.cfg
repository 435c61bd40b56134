SPECIFICATION Spec
CONSTANTS
  Handlers = {h1}
  Users = {alice}
  Numbers = {n1}
  Emails = {e1}
  LastDay = 4
  Period = 2
  Dates = {3}
  Todays = {3}
  Null = Null
  MaxRequests = 2
  MaxWrites = 2
  MaxLag = 0
INVARIANTS
  FailedMeansUnsent
