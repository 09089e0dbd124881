SPECIFICATION LiveSpec
CONSTANTS
  r1 = r1  r2 = r2  d1 = d1  c1 = c1  s1 = s1  s2 = s2
  None = None
  Rides = {r1, r2}
  Drivers = {d1}
  Clients = {c1}
  DriverOf <- AllD1
  ClientOf <- AllC1
  StreamCap = 1
  Batch = 1
  MaxPings = 0
  MaxFaults = 0
CHECK_DEADLOCK FALSE
INVARIANT KeysLostToAnotherRide
PROPERTIES EndedWindowCloses DriverReleased AnswerArrives
