SPECIFICATION FairSpec
CONSTANTS
  TickScale = 1
  ButtonSets <- LiveButtonSets
  BusInputs <- LiveBusInputs
PROPERTY PatternAdvances
