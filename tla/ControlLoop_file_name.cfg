SPECIFICATION Spec
CONSTANTS
  Unit = 6
  GainUnit = 2
  LeftErrors <- SmallErrors
  RightErrors <- SmallErrors
  Kp = 2
  Ki = 0
  Kd = 1
  ServoLeft = 430
  ServoCtr = 700
  ServoRight = 863
  StartSpeed = 40
  DefaultSpeed = 35
  FrameStraightDelay = 1
  DiffSteering = FALSE
  DiffSteeringFactor = 1
  AutoSpeedControl = FALSE
  AutoSpeedRange = 5
  NameError = 20
  MaxValue = 90
INVARIANTS
  AimsForCentre
