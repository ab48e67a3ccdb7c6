SPECIFICATION FairSpec
CONSTANTS
  w1 = w1
  w2 = w2
  north = north
  south = south
  all = all
  common = common
  Records = {1, 2, 3}
  Payments = {3}
  ParentOf <- MCParentOf
  NTables = 2
  TableOf <- MCTableOf
  Scopes = {north, south, all}
  AllBranches = all
  Common = common
  BranchOf <- MCBranchOf
  Writers = {w1}
  TxLife = 2
  Overlap = 2
  Limit = 1
  MaxClock = 3
  MaxVersion <- MCOneWrite
CHECK_DEADLOCK FALSE
INVARIANTS
  OnlyOwnScope
PROPERTIES
  Converges
