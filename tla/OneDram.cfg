CONSTANTS
  OutRoom = 1
  InRoom = 1
  MaxLen = 1
  MaxRequested = 1
  PhoneMails = {{"COMMAND", "SMP_REQ"}, {"COMMAND", "REQ_ACTIVE"}, {"SEND"}, {"SEND", "REQ_ACK"}, {"RES_ACK"}}
SPECIFICATION Spec
INVARIANTS BankGuarded LockCounts RequestKept
 
