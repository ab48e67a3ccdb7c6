SPECIFICATION Spec
CONSTANTS
  ann = ann
  ben = ben
  s1 = s1
  s2 = s2
  whole = whole
  north = north
  south = south
  order1 = order1
  noOrder = noOrder
  Devices = {ann, ben}
  Slots = {s1, s2}
  Records = {1, 2}
  EntityOf <- MCEntityOf
  ParentOf <- MCParentOf
  Orders = {}
  NoOrder = noOrder
  Branches = {whole, north, south}
  Whole = whole
  SeesOrder <- MCSeesOrder
  Members <- MCOwners
  Bodies <- MCBookBodies
  Batch = 2
  Dropping = TRUE
  MaxOps = 2
  MaxChanges = 0
  MaxFaults = 1
  NoOp = NoOp
  NoSlot = NoSlot
INVARIANTS
  TypeOK
  NoLoss
  RefusedIsNotApplied
  DeletedAuditedOnce
PROPERTIES
  DeleteWins
  IsLedger
SYMMETRY Symmetry2
CHECK_DEADLOCK FALSE
