SPECIFICATION FairSpec
CHECK_DEADLOCK FALSE
CONSTANTS
  v = v
  e = e
  pe = pe
  o1 = o1
  w1 = w1
  NoOrg = NoOrg
  NoReq = NoReq
  NoNotice = NoNotice
  Refs <- MCRefs
  NoPhone = NoPhone
  NoLink = NoLink
  GoneLink = GoneLink
  NoOrder = NoOrder
  GoneOrder = GoneOrder
  NoSeen = NoSeen
  Orgs = {v, e}
  May <- MCMay
  Workers = {w1}
  MaxFaults = 1
  MaxLinks = 1
  MaxCodes = 0
  Partners = {pe}
  OwnerOf <- MCOwnerOf
  KindOf <- MCKindOf
  PhoneOf <- MCPhoneOf
  Verified <- MCVerified
  StartLinks <- MCLinked
  OrderIds = {o1}
  StartOrders <- MCNoOrders
  MaxVersion = 1
  HasBook = {v, e}
  Deleters = {v, e}
INVARIANTS
  TypeOK
  OrdersSound
  NothingLeft
PROPERTIES
  DeletionEnds
  RecordsKept
