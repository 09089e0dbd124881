SPECIFICATION FairSpec
CONSTANTS
  r1 = r1  a1 = a1  a2 = a2  b1 = b1
  Rides = {r1}
  Sockets = {a1, a2, b1}
  RideOf <- OneRide
  RoleOf <- TwoRoles
  None = None
CHECK_DEADLOCK FALSE
INVARIANTS NewestSocketKept SubscriptionExplained
PROPERTIES SocketsReleased DrainCompletes
