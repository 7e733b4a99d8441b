SPECIFICATION FairSpec
CONSTANTS
  MaxLen = 2
  RowLengths <- ExactLong
  RowIds = 2
  FifoDepth = 1
  DescDepth = 2
  RespDepth = 2
  StatusReads = 2
  FlagSkew = TRUE
  MaxReruns = 1
INVARIANTS
  TypeOK
  TransferOutstanding
  LineIsTransfer
  NoHangingRead
  OneRowPerLine
PROPERTIES
  TransfersConserved
  
