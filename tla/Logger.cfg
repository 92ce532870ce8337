SPECIFICATION Spec
CONSTANTS
  Writer = {w1, w2}
  Reader = {r1}
  Radix = 2
  Payload = {1}
  HdrLen = 2
  MaxPayload = 2
  Size = 8
  StaleFault = FALSE
INVARIANT WholeEntries
INVARIANT SleeperHasNothing
INVARIANT LogLenExact
PROPERTY ImplementsLog
SYMMETRY Symmetry
