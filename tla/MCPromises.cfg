SPECIFICATION Spec
CONSTANTS
  MaxPromises = 3
  MaxFibers = 1
  MaxInputs = 2
  MaxCalls = 4
  TimersMax = 2
  Value = {v}
  v = v
  Undefined = Undefined
  Results = Results
  Aggregate = Aggregate
  Api <- MCApi
  Delays <- MCDelays
INVARIANT TasksCarryOutcome
INVARIANT OneSettler
INVARIANT CombinatorOwes
INVARIANT HandlersInOrder
INVARIANT NoSilentRejection
PROPERTY KeepsContract
