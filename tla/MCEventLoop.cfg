CONSTANTS
  c1 = c1
  c2 = c2
  c3 = c3
  none = none
SPECIFICATION Spec
INVARIANT TypeOK
INVARIANT MutualExclusion
INVARIANT GrantsInAcquireOrder
INVARIANT PlotsReadHydratedData
PROPERTY EveryAcquireGranted
PROPERTY FifoLockSpec
PROPERTY HydrationCompletes
