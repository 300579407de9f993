SPECIFICATION Spec
CONSTANTS
  t1 = t1
  t2 = t2
  t3 = t3
  Threads <- Triple
  Calls <- LimitCalls
  UserWords <- MCUserWords
  ConfigBytes <- NoBytes
  ButtonSets <- SpeedButtons
  CountMod = 4
SYMMETRY TripleSymmetry
INVARIANT SpeedInRange
INVARIANT OpenReleaseBalance
