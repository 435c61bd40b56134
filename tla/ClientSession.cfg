SPECIFICATION SessionSpec
CONSTANTS
  Slots = {r1, r2}
  Numbers = {n1, n2}
  Null = Null
  MaxVersion = 3
  MaxDispatches = 3
  Thunks = {t1, t2}
  Fields = {mobile, address}
  mobile = mobile
  address = address
  Values <- MCValues
  Absent = Absent
  NoProfile = NoProfile
  MaxThunks = 3
INVARIANTS
  SessionTypeOK
  LoadingMeansFetching
  QuietMeansCurrent
  RowsWereStored
  OneAccountPerOrder
  ProfileQuietMeansCurrent
PROPERTIES
  
  SavesEndTheirOwnForm
  CalmSavesKeepTheRest
  SpinnersEnd
