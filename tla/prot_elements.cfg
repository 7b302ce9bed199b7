SPECIFICATION Spec
CONSTANTS
  Phase = {"A", "N"}
  Frame <- Frames
  Time <- Tick
  AddDt <- NextTick
  OperateDelay = 3
  OperateCalls = 3
  CallsIn <- TicksIn
  Magnitude <- Hypot
  Angle <- Atan2
  CurveTime <- Curve
  MinTime = 2
  MaxTime = 6
  Duration <- Durations
  One <- Full
  Progress <- Floats
  AddShare <- AddRounded
  SlowCalls = 7
  Slowest <- AtSlowest
  FastCalls = 2
  Fastest <- AtFastest
INVARIANTS TypeOK DirectionalNeverAhead OvercurrentShadowed IdmtWithinClamps
PROPERTIES DirDelaysTrip DistDelaysTrip DiffDelaysTrip
