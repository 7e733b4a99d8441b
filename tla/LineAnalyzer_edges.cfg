SPECIFICATION Spec
CONSTANTS
  Lines <- SomeLines
  LineThreashold = 2
  SampleOffset = 1
  StartOffset = 1
  EndOffset = 1
  PointDiff = 1
  LineHistEnabled = TRUE
INVARIANTS
  SteepestFound
  SecondFound
PROPERTIES
  SideKept
