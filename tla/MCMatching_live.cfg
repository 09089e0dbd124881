SPECIFICATION FairSpec
CONSTANTS
  r1 = r1  r2 = r2  d1 = d1  d2 = d2  s1 = s1  s2 = s2
  None = None
  Consumer = Consumer
  Rides = {r1}
  Drivers = {d1}
  Sweepers = {s1}
  BroadcastSize = 1
  MaxAttempts = 2
  MaxFaults = 2
CHECK_DEADLOCK FALSE
PROPERTIES EventuallySettled
