SPECIFICATION Spec
CONSTANTS
  a = a
  b = b
  i1 = i1
  i2 = i2
  i3 = i3
  t1 = t1
  t2 = t2
  t3 = t3
  w1 = w1
  w2 = w2
  NoPlan = NoPlan
  Keep = Keep
  Nobody = Nobody
  Outsider = Outsider
  NoCode = NoCode
  NoIntent = NoIntent
  NoOrg = NoOrg
  NoRow = NoRow
  NoSub = NoSub
  NoTx = NoTx
  NotSent = NotSent
  Orgs = {a}
  Intents = {i1, i2}
  Transfers = {t1, t2}
  Workers = {w1, w2}
  Lengths <- MCLengths
  OrgType <- MCOrgType
  Staff <- MCStaff
  StartSub <- MCVua
  StartIntent <- MCNoIntents
  StartInviter <- MCNobody
  Inviters = {}
  Wanted <- MCWanted
  AdminOrders <- MCAdmin
  Moments = {100}
  MaxFaults = 1
CHECK_DEADLOCK FALSE
INVARIANTS
  TypeOK
  NothingCountsTwice
  NoMonthLost
  AnsweredIsRecorded
PROPERTIES
  PaidDaysKept
