SPECIFICATION FairSpec
CONSTANTS
  TIMEOUT = 2
  Handoff <- MCHandoff
INVARIANT TypeOK
INVARIANT LoadSuccess
INVARIANT FreshConfiguration
INVARIANT BridgesOverFpga
INVARIANT KernelFindsFpga
PROPERTY BootEnds
PROPERTY BootBounded
