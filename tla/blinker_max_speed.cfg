SPECIFICATION Spec
CONSTANTS
  TickScale = 2
  ButtonSets <- MCButtonSets
  BusInputs <- MCBusInputs
PROPERTY FifteenIsMaxSpeed
