SPECIFICATION Spec
CONSTANTS
  g = g
  h = h
  s = s
  Generator <- MCGenerator
  Async <- MCAsync
  MaxNext = 3
  MaxYields = 2
  MaxAwaits = 2
  Client = {"escape"}
INVARIANT NextSettled
