SPECIFICATION FairSpec
CONSTANTS
  Phase = {"A", "N"}
  Frame <- CaseFrames
  Time <- Ticks
  AddDt <- NextTick
  OperateDelay = 0
  OperateCalls = 0
  CallsIn <- NoDelay
  Magnitude <- Hypot
  Angle <- Atan2
  CurveTime <- Curve
  MinTime = 0
  MaxTime = 4
  Duration <- Durations
  One = 4
  Progress <- Quarters
  AddShare <- AddQuarter
  SlowCalls = 4
  Slowest <- InTurn
  N = 4
  RunsPerCall = 2
  WarmUps = 2
  SampleCount = 3
  Failing = {"mlockall", "malloc", "fopen"}
CHECK_DEADLOCK FALSE
INVARIANTS SamplesComparable DftFromFirstStep EveryCaseReported HeapIsTimers
PROPERTY Exits
