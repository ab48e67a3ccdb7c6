SPECIFICATION FairSpec
CONSTANTS
  ann = ann
  ben = ben
  s1 = s1
  s2 = s2
  whole = whole
  north = north
  south = south
  order1 = order1
  noOrder = noOrder
  Devices = {ann}
  Slots = {s1}
  Records = {1, 2}
  EntityOf <- MCEntityOf
  ParentOf <- MCParentOf
  Orders = {}
  NoOrder = noOrder
  Branches = {whole, north, south}
  Whole = whole
  SeesOrder <- MCSeesOrder
  Members <- MCStaff
  Bodies <- MCBranchBodies
  Batch = 2
  Dropping = TRUE
  MaxOps = 2
  MaxChanges = 1
  MaxFaults = 0
  NoOp = NoOp
  NoSlot = NoSlot
PROPERTIES
  QueueDrains
CHECK_DEADLOCK FALSE
