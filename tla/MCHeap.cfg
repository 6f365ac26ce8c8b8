SPECIFICATION Spec
CONSTANTS
  a = a
  b = b
  c = c
  readA = readA
  writeA = writeA
  Object = {o1, o2}
  Shape = {root, s1, s2}
  Root = root
  Absent = absent
  None = None
  Key = {a, b, c}
  MaxCalls = 6
  Datum = {}
  Site = {readA, writeA}
  Reads = {readA}
  KeyOf <- MCKeyOf
  MaxSlots = 2
  FirstSlots = 2
  Definable = {a}
  Settable = {a}
SYMMETRY Symmetric
INVARIANTS NoDangling CachesTellTruth OneShapePerLayout
PROPERTIES KeepsBags
CHECK_DEADLOCK FALSE
