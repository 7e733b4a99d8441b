SPECIFICATION FairSpec
CONSTANTS
  Period = 8
  DutyLevels = 4
  Percents <- AnyPercent
  Directions = {0, 1}
  WaitCycles = 1
INVARIANTS
  PinsExclusive
  PulseShape
  NoWriteLost
PROPERTIES
  Settles
