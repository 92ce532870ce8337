SPECIFICATION Spec
CONSTANTS
  Writer = {w1, w2}
  Reader = {r1}
  Radix = 2
  Payload = {1}
  HdrLen = 2
  MaxPayload = 2
  Size = 8
  StaleFault = TRUE
INVARIANT WholeEntries
SYMMETRY Symmetry
