SPECIFICATION Spec
CONSTANTS
  a = a
  b = b
  i1 = i1
  i2 = i2
  i3 = i3
  t1 = t1
  t2 = t2
  t3 = t3
  w1 = w1
  w2 = w2
  NoPlan = NoPlan
  Keep = Keep
  Nobody = Nobody
  Outsider = Outsider
  NoCode = NoCode
  NoIntent = NoIntent
  NoOrg = NoOrg
  NoRow = NoRow
  NoSub = NoSub
  NoTx = NoTx
  NotSent = NotSent
  Orgs = {a}
  Intents = {i1, i2}
  Transfers = {t1, t2}
  Workers = {w1, w2}
  Lengths <- MCOneLength
  OrgType <- MCOrgType
  Staff <- MCStaff
  StartSub <- MCThuongLai
  StartIntent <- MCNoIntents
  StartInviter <- MCNobody
  Inviters = {}
  Wanted <- MCDown
  AdminOrders <- MCNone
  Moments = {100}
  MaxFaults = 0
CHECK_DEADLOCK FALSE
PROPERTIES
  NoDowngradeWhilePaid
