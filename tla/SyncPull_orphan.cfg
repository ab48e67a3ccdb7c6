SPECIFICATION SpecWithoutTies
CONSTANTS
  w1 = w1
  w2 = w2
  north = north
  south = south
  all = all
  common = common
  Records = {1, 2, 3}
  Payments = {3}
  ParentOf <- MCParentOf
  NTables = 2
  TableOf <- MCTableOf
  Scopes = {all}
  AllBranches = all
  Common = common
  BranchOf <- MCOneBranch
  Writers = {w1, w2}
  TxLife = 3
  Overlap = 4
  Limit = 1
  MaxClock = 5
  MaxVersion <- MCThreeWrites
INVARIANTS
  NoOrphanPayment
SYMMETRY Symmetry
CHECK_DEADLOCK FALSE
