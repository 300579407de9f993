SPECIFICATION Spec
CONSTANTS
  t1 = t1
  t2 = t2
  t3 = t3
  Threads <- Pair
  Calls <- AllCalls
  UserWords <- MCUserWords
  ConfigBytes <- EnableBytes
  ButtonSets <- OneButton
  CountMod = 1
SYMMETRY PairSymmetry
INVARIANT TypeOK
INVARIANT Ownership
INVARIANT NoLostWakeup
INVARIANT NoStolenInterrupt
INVARIANT NoEventLost
INVARIANT NoStaleConfig
PROPERTY ImplementsChannel
PROPERTY HolderAdvances
PROPERTY IoctlEnables
