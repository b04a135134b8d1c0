SPECIFICATION ClientSpec
CONSTANTS
  Bytes = {"H", "T", "P", "/", "0", ".", ":", "SP", "CR", "LF"}
  MaxInput = 25
  MaxField = 1
  MaxValue = 2
  MaxHeaders = 1
  MaxHeaderLines = 2
  Requests <- MCRequests
  Anything = Anything
INVARIANTS TypeOK BackNeverOnEmpty ParsedAsWritten AcceptedIsWellFormed WrittenIsAccepted ReadAsWritten
CHECK_DEADLOCK FALSE
