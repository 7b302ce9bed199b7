SPECIFICATION PipelineSpec
CONSTANTS
  Phase = {"A"}
  Frame <- NoFrames
  Time <- Tick
  AddDt <- NextTick
  OperateDelay = 5
  OperateCalls = 5
  CallsIn <- TicksIn
  Magnitude <- Hypot
  Angle <- Atan2
  CurveTime <- Curve
  MinTime = 2
  MaxTime = 8
  Duration <- Durations
  One = 8
  Progress <- Eighths
  AddShare <- AddEighths
  SlowCalls = 8
  Slowest <- InTurn
  FastCalls = 2
  Fastest <- InTwo
  N = 4
  dft_cos <- Cosine
  dft_sin <- Sine
  Ramp = 2
  Residue <- Residues
  GridState <- States
  Amplitude <- Peak
  GridVoltage = 1000
  Horizon = 18
  MaxLost = 3
  MaxChange = 2
CHECK_DEADLOCK FALSE
INVARIANTS TripTimeAccountsForLoss SteadyFaultTrips DifferentialNeverSettles SenderTrafficIsQuiet
