SPECIFICATION Spec
CONSTANTS
  Unit = 20
  GainUnit = 100
  LeftErrors <- ShippedLeft
  RightErrors <- ShippedRight
  Kp = 120
  Ki = 1
  Kd = 100
  ServoLeft = 430
  ServoCtr = 700
  ServoRight = 863
  StartSpeed = 40
  DefaultSpeed = 35
  FrameStraightDelay = 3
  DiffSteering = TRUE
  DiffSteeringFactor = 80
  AutoSpeedControl = TRUE
  AutoSpeedRange = 5
  NameError = 4
  MaxValue = 8000
INVARIANTS
  OvershootBounded
  ValueExact
  LossForgotten
  HeldThenStraight
  InnerWheelSlower
