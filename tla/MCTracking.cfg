SPECIFICATION Spec
CONSTANTS
  r1 = r1  r2 = r2  d1 = d1  c1 = c1
  None = None
  Rides = {r1}
  Drivers = {d1}
  Clients = {c1}
  DriverOf <- AllD1
  ClientOf <- AllC1
  StreamCap = 1
  Batch = 1
  MaxPings = 2
  MaxFaults = 1
CHECK_DEADLOCK FALSE
INVARIANTS PrivateOutsideRide SummarySound NoArchiveGap FreshIsIndexed
