SPECIFICATION Spec
CONSTANTS
  k1 = k1
  k2 = k2
  k3 = k3
  k4 = k4
  s1 = s1
  s2 = s2
  Key <- MCKey
  Hash <- MCHash
  Null = null
  True = true
  Value = {null, true}
  NoKey = NoKey
  Absent = Absent
  Site = {s1, s2}
  Named <- MCNamed
  FirstCapacity = 4
  MaxCapacity = 8
  MaxVersion = 4
  MaxStrings = 4
  Uses <- AllUses
INVARIANTS ProbesEnd PointersGood
PROPERTIES KeepsContract
CHECK_DEADLOCK FALSE
