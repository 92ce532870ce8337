SPECIFICATION FairSpec
CONSTANTS
  Net = {n1, n2}
  Nobody = Nobody
  SerialId = {5}
  Arg = {1}
  Adjust = {9, 10}
  MAX_PDP_CONTEXT = 3
  Length = {2}
  MaxRx = 6
INVARIANT TxOwned
INVARIANT DevicesAlive
INVARIANT InSync
PROPERTY WorkDone
