SPECIFICATION FairSpec
CONSTANTS
  g = g
  h = h
  s = s
  Generator <- MCGenerator
  Async <- MCAsync
  MaxNext = 3
  MaxYields = 2
  MaxAwaits = 2
  Client = {}
INVARIANT EnteredOnce
INVARIANT WakeupsMatchAwaits
PROPERTY KeepsIteratorContract
PROPERTY EveryNextAnswered
