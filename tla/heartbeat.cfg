SPECIFICATION Spec
CONSTANTS
  Period = 5
  Latency = 5
  MaxStart = 1
  MaxLate = 1
  MaxTransit = 1
  MaxHeld = 1
INVARIANTS TypeOK LivingIsKept AbandonedEnds
CHECK_DEADLOCK FALSE
