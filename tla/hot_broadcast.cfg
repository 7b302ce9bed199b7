SPECIFICATION Spec
CONSTANTS
  r1 = r1
  r2 = r2
  tester = tester
  broadcast = broadcast
  Replier = {r1, r2}
  Tester = tester
  Broadcast = broadcast
  DestMac = broadcast
  Iterations = 2
  Expected = 2
  SendPeriod = 1
  Slew = 0
  Time <- FewReadings
  Lateness = 0
  Wrap = 16
  Noise = {}
  Disturbance = {"flood", "copy"}
CHECK_DEADLOCK FALSE
SYMMETRY RepliersAlike
INVARIANTS CountMatchesLog RecordedWasProtected NoEchoLoop NoneForgotten
PROPERTY ImplementsLatencyLog
