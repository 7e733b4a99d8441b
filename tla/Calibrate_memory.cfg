CONSTANTS
  DQ_PER_DQS = 2
  DELAY_MAX = 4
  IF_DQS_WIDTH = 2
  IO_DQS_IN_RESERVE = 1
  IO_DQS_OUT_RESERVE = 1
  DtapsPerPtap = 3
  MaxLatency = 2
  Boards <- MCBoards
  Latencies = {0, 2, 3}
SPECIFICATION Spec
INVARIANTS
  TypeOK
  LeavesRight
  WideIsCentred
  
PROPERTIES
  Completes
CHECK_DEADLOCK FALSE
