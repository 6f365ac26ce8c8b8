SPECIFICATION Spec
CONSTANTS
  a = a
  b = b
  c = c
  readA = readA
  writeA = writeA
  Object = {o1, o2}
  Shape = {root, s1, s2, s3}
  Root = root
  Absent = absent
  None = None
  Key = {a, b, c}
  MaxCalls = 7
  Datum = {}
  Site = {readA, writeA}
  Reads = {readA}
  KeyOf <- MCKeyOf
  MaxSlots = 2
  FirstSlots = 2
  Definable = {a}
  Settable = {a}
SYMMETRY Symmetric
PROPERTIES FastPathSparesFrozen
CHECK_DEADLOCK FALSE
