SPECIFICATION Spec
CONSTANTS
  c1 = c1
  c2 = c2
  Root = Root
  NoWallet = NoWallet
  Children <- MCChildren
  Capacity = 13
  Sizes = {3, 8, 10}
  Batches <- MCBatches
  MaxUint = 15
  MaxAllocs = 4
SYMMETRY Symmetry
CHECK_DEADLOCK FALSE
INVARIANTS
  TypeOK
  Conservation
  WithinCapacity
