SPECIFICATION Spec
CONSTANTS
  Handlers = {h1, h2}
  Users = {alice, bob}
  Numbers = {n1, n2}
  Emails = {e1}
  LastDay = 2
  Period = 2
  Dates = {0, 1}
  Todays = {2}
  Null = Null
  MaxRequests = 2
  MaxWrites = 2
  MaxLag = 0
SYMMETRY Symmetry
INVARIANTS
  TypeOK
  AnswerAgreesWithMail
PROPERTIES
  PeriodsAreMeant
  RecipientWasCurrent
  StatementCoversActive
  ImplementsMailbox
