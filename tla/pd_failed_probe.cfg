SPECIFICATION Spec
CONSTANTS
  r1 = r1
  r2 = r2
  r3 = r3
  Readers <- MCReaders
  MaxClks = 4
INVARIANT FailedMeansUnbound
