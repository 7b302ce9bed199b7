SPECIFICATION SeriesSpec
CONSTANTS
  r1 = r1
  tester = tester
  broadcast = broadcast
  Replier = {r1}
  Tester = tester
  Broadcast = broadcast
  DestMac = r1
  Iterations = 1
  Expected = 2
  SendPeriod = 1
  Slew = 0
  Time <- FewReadings
  Lateness = 1
  Wrap = 16
  Noise = {}
  Disturbance = {"loss", "copy", "failure", "enter"}
  MaxRestarts = 2
CHECK_DEADLOCK FALSE
INVARIANTS RecordedWasStamped FreshWhenDrained OneStepPerSession CsvOfLastReport
PROPERTY ImplementsLogSeries
