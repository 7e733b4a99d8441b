SPECIFICATION Spec
CONSTANTS
  Wanted = 2
  FrameRows <- SmallFrames
  RowBytes <- SmallRows
  MaxRestarts = 2
  MaxResets = 2
INVARIANTS
  RightRow
  
  OncePerFrame
PROPERTIES
  Framing
  RowsKeepComing
