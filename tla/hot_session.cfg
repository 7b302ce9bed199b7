SPECIFICATION AttendedSpec
CONSTANTS
  r1 = r1
  tester = tester
  broadcast = broadcast
  Replier = {r1}
  Tester = tester
  Broadcast = broadcast
  DestMac = r1
  Iterations = 2
  Expected = 2
  SendPeriod = 2
  Slew = 1
  Time <- Readings
  Lateness = 1
  Wrap = 16
  Noise <- OneShortFrame
  Disturbance = {"early", "loss", "failure", "enter"}
CHECK_DEADLOCK FALSE
INVARIANTS TypeOK NeverStopsShort LatencyIsReal Paced ReportFaithful
PROPERTY EnterEndsSession
