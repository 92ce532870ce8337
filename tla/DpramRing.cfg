CONSTANTS
  Byte = {0, 1}
  OutSize = 4
  InSize = 3
  MaxLen = 3
  Short = {0}
  Segment = 3
SPECIFICATION Spec
PROPERTY RingsAreQueues
