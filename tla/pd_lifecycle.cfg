SPECIFICATION FairSpec
CONSTANTS
  r1 = r1
  r2 = r2
  r3 = r3
  Readers <- MCReaders
  MaxClks = 4
INVARIANT TypeOK
INVARIANT UnboundHoldsNothing
INVARIANT ConnectedHoldsAll
INVARIANT ShowHasMapping
PROPERTY LifecycleEnds
PROPERTY CleanupAdvances
PROPERTY OthersRegionKept
CHECK_DEADLOCK FALSE
