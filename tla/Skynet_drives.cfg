SPECIFICATION Spec
CONSTANTS
  Speeds <- SomeSpeeds
  Positions <- TwoPositions
  StartSpeed = 40
  Centre = 7
  MaxRuns = 3
INVARIANTS
  WholeDecision
PROPERTIES
  SwitchObeyed
