SPECIFICATION FairSpec
CONSTANTS
  MaxPromises = 2
  MaxFibers = 2
  MaxInputs = 2
  MaxCalls = 4
  TimersMax = 2
  Value = {v}
  v = v
  Undefined = Undefined
  Results = Results
  Aggregate = Aggregate
  Api <- MCApi
  Delays <- MCDelays
INVARIANT OneWakeup
INVARIANT TimersInOrder
PROPERTY ClearedStaysCleared
PROPERTY EveryListenerAnswered
PROPERTY EveryTimerGetsItsTurn
