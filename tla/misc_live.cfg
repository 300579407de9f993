SPECIFICATION FairSpec
CONSTANTS
  t1 = t1
  t2 = t2
  t3 = t3
  Threads <- Pair
  Calls <- LiveCalls
  UserWords <- EnableWords
  ConfigBytes <- EnableBytes
  ButtonSets <- OneButton
  CountMod = 1
PROPERTY ReaderServed
PROPERTY IrqServed
PROPERTY DownServed
