SPECIFICATION Spec
CONSTANTS
  Handlers = {h1, h2}
  Users = {alice}
  Emails = {e1}
  Mobiles = {m1}
  Places = {p1}
  Lines = {l1}
  Null = Null
  MaxRequests = 3
  MaxLag = 0
SYMMETRY Symmetry
INVARIANTS
  StoredProfilesAreServed
