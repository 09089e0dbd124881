SPECIFICATION Spec
CONSTANTS
  r1 = r1  r2 = r2  d1 = d1  d2 = d2  s1 = s1  s2 = s2
  None = None
  Consumer = Consumer
  Rides = {r1}
  Drivers = {d1, d2}
  Sweepers = {s1}
  BroadcastSize = 2
  MaxAttempts = 2
  MaxFaults = 1
SYMMETRY DriverSymmetry
CHECK_DEADLOCK FALSE
INVARIANTS OneWinner FailsAfterAllRounds NeverUnarmed
