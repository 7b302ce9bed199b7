SPECIFICATION FairSpec
CONSTANTS
  r1 = r1
  r2 = r2
  tester = tester
  broadcast = broadcast
  Replier = {r1, r2}
  Tester = tester
  Broadcast = broadcast
  DestMac = broadcast
  Iterations = 3
  Expected = 2
  SendPeriod = 1
  Slew = 0
  Time <- Readings
  Lateness = 0
  Wrap = 16
  Noise = {}
  Disturbance = {}
CHECK_DEADLOCK FALSE
PROPERTY UndisturbedRunCompletes
