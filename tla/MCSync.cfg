SPECIFICATION FairSpec
CONSTANTS
  Worker = {w1, w2, w3}
  Setups <- MCSetups
  MaxSends = 2
INVARIANT PermitsKept
INVARIANT OneWayBack
INVARIANT NobodyWaitsInVain
INVARIANT DeliveredInOrder
PROPERTY ServedInTurn
PROPERTY WaitMeansDone
PROPERTY EveryAskerServed
CHECK_DEADLOCK FALSE
