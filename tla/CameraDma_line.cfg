SPECIFICATION Spec
CONSTANTS
  MaxLen = 3
  RowLengths <- ShortLong
  RowIds = 2
  FifoDepth = 3
  DescDepth = 2
  RespDepth = 2
  StatusReads = 1
  FlagSkew = FALSE
  MaxReruns = 0
PROPERTIES
  HandOff
