SPECIFICATION Spec
CONSTANTS
  Key = {k1, k2, k3, k4}
  Value = {v1, v2}
  None = None
  Hashes <- MCHashes
  IndexMin = 4
  EntriesMin = 2
  Kinds <- Both
SYMMETRY Symmetric
INVARIANTS LookupFinds
PROPERTIES KeepsCollection WalkMeetsEach
CHECK_DEADLOCK FALSE
