SPECIFICATION Spec
CONSTANTS
  TickScale = 2
  ButtonSets <- MCButtonSets
  BusInputs <- MCBusInputs
INVARIANT TypeOK
INVARIANT SweepLightsOneLed
PROPERTY SweepMovesToNeighbour
PROPERTY PatternPaced
