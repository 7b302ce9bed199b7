SPECIFICATION Spec
CONSTANTS
  Phase = {"A", "N"}
  Enabled = {"A", "N"}
  Frame <- Frames
  Time <- Timers
  AddDt <- AddFloat
  OperateDelay <- OperateDelaySeconds
  OperateCalls <- FloatCalls
  CallsIn <- CallsCounted
  PickupCurrent <- Pickup
INVARIANT TripsAfter20ms
