SPECIFICATION FairSpec
CONSTANTS
  ann = ann
  ben = ben
  s1 = s1
  s2 = s2
  whole = whole
  north = north
  south = south
  order1 = order1
  noOrder = noOrder
  Devices = {ann}
  Slots = {s1, s2}
  Records = {1, 2, 3}
  EntityOf <- MCEntityOf
  ParentOf <- MCParentOf
  Orders = {order1}
  NoOrder = noOrder
  Branches = {whole, north, south}
  Whole = whole
  SeesOrder <- MCSeesOrder
  Members <- MCMoved
  Bodies <- MCLiveBodies
  Batch = 2
  Dropping = FALSE
  MaxOps = 2
  MaxChanges = 2
  MaxFaults = 1
  NoOp = NoOp
  NoSlot = NoSlot
INVARIANTS
  NothingOvertaken
  FulfilledByReceipt
PROPERTIES
  QueueDrains
CHECK_DEADLOCK FALSE
