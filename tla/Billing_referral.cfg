SPECIFICATION FairSpec
CONSTANTS
  a = a
  b = b
  i1 = i1
  i2 = i2
  i3 = i3
  t1 = t1
  t2 = t2
  t3 = t3
  w1 = w1
  w2 = w2
  NoPlan = NoPlan
  Keep = Keep
  Nobody = Nobody
  Outsider = Outsider
  NoCode = NoCode
  NoIntent = NoIntent
  NoOrg = NoOrg
  NoRow = NoRow
  NoSub = NoSub
  NoTx = NoTx
  NotSent = NotSent
  Orgs = {a, b}
  Intents = {i1, i2, i3}
  Transfers = {t1, t2}
  Workers = {w1, w2}
  Lengths <- MCOneLength
  OrgType <- MCOrgType
  Staff <- MCStaff
  StartSub <- MCTrial
  StartIntent <- MCTwoForA
  StartInviter <- MCBInvited
  Inviters = {b, Outsider}
  Wanted <- MCNone
  AdminOrders <- MCNone
  Moments = {100, 115}
  MaxFaults = 1
CHECK_DEADLOCK FALSE
INVARIANTS
  FirstPaymentRewardedOnce
PROPERTIES
  EveryTransferAnswered
