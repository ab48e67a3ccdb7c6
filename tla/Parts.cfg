SPECIFICATION Spec
CHECK_DEADLOCK FALSE
CONSTANTS
  v = v
  fa = fa
  e = e
  pf = pf
  o1 = o1
  w1 = w1
  w2 = w2
  n1 = n1
  NoOrg = NoOrg
  NoReq = NoReq
  NoNotice = NoNotice
  Refs <- MCRefs
  NoPhone = NoPhone
  NoLink = NoLink
  GoneLink = GoneLink
  NoOrder = NoOrder
  GoneOrder = GoneOrder
  Orgs = {v, fa, e}
  May <- MCMay
  Workers = {w1, w2}
  MaxFaults = 0
  MaxLinks = 1
  MaxCodes = 2
  Partners = {pf}
  OwnerOf <- MCOwnerOf
  KindOf <- MCKindOf
  PhoneOf <- MCPhoneOf
  Verified <- MCVerified
  StartLinks <- MCStartLinks
  OrderIds = {o1}
  StartOrders <- MCNoOrders
  MaxVersion = 4
  o = o
  x = x
  y = y
  tr = tr
  n = n
  b1 = b1
  b2 = b2
  d1 = d1
  d2 = d2
  People = {o, x, y}
  Firms = {tr, n}
  Branches = {b1, b2}
  FirmOf <- MCFirmOf
  StaffLimit <- MCStaffLimit
  BranchLimit <- MCBranchLimit
  Worlds <- MCWorlds
  NoFirm = NoFirm
  GoneFirm = GoneFirm
  NoBranch = NoBranch
  NoMember = NoMember
  NoTask = NoTask
  Desks = {d1, d2}
  MaxTrouble = 1
  ua = ua
  ub = ub
  e1 = e1
  e2 = e2
  c1 = c1
  c2 = c2
  Users = {ua, ub}
  Addresses = {e1, e2}
  NoAddress = NoAddress
  Calls = {c1, c2}
  NoCall = NoCall
  Cooldown = 0
  TokenLife = 1
  MailLife = 1
  MaxTime = 1
  MaxRequests = 3
  DayLength = 2
  MonthLength = 2
  Names = {"ba"}
  Forms <- MCForms
  Sheets <- MCSheets
  Amounts = {0, 8000, 100000}
  Products = {"latex", "coffee"}
  Rules <- MCRules
  Contracts <- MCContracts
  CashThreshold = 32000
  RECEIPT_LIMITS <- MCLimits
  MAX_SAFE_INTEGER = 10000000
  QUALITY_STEPS = 2
  FreeReceipts = 2
  Saved <- MCSaved
  Instants = {3, 5}
  MaxIds = 4
  Week = 2
  Owners = {"v", "e"}
  Writable <- MCWritable
  PageSize = 1
  Hands = {"mai", "bay"}
  Days = {1, 2}
  Dismissed = {"bay"}
  Clerks = {d1, d2}
  PlaceIds = {"p1", "p2", "p3"}
  PlaceLimit = 1
  MaxLog = 3
  FileIds = {1, 2, 3}
  FilePage = 1
  MaxSweeps = 2
  MaxRemoved = 3
  BookIds = {1, 2}
  FirstIds = {1}
  MaxCommits = 3
  MaxMade = 2
SYMMETRY MCSymmetry
INVARIANTS
  LinkAgreed
  OrderTold
  OrganizationSound
  MailsSound
  BookSound
  FiguresAgree
  SidesAgree
  PlacesSound
  SweptClean
  DeviceSound
PROPERTIES
  DeletedOnlyAlone
  LinkedKeptApart
