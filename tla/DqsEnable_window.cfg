SPECIFICATION GateSpec
CONSTANTS
  Froms <- EveryHalfTap
  Widths <- NarrowAndWide
  Jitter = 10
INVARIANTS
  GateTypeOK
  RangeFound
  NearMiddle
  TapsTracked
PROPERTIES
  WideIsFound
\* the search ends
CHECK_DEADLOCK FALSE
