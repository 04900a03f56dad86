\* Three holders, two transfer calls under way at a time.
SPECIFICATION FairSpec
CONSTANTS
  alice = alice
  bob = bob
  app = app
  Failed = Failed
  Idle = Idle
  Holders <- MCHolders
  Amounts <- MCAmounts
  Results <- MCResults
  StorageMinimum = 1
  MaxReserve = 5
  MaxBalance = 2
  Slots = {1, 2}
INVARIANTS
  TypeOK
  SupplyConserved
  Backed
PROPERTIES
  RefundsFair
  CallsResolve
