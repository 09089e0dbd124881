SPECIFICATION FairSpec
CONSTANTS
  w1 = w1  w2 = w2
  Messages = {1, 2}
  Poison = {1}
  Workers = {w1, w2}
  BatchSize = 2
  MaxRetries = 4
  PublishTimeout = 1
  ClaimLease = 6
  ClaimSlack = 1
  MaxFaults = 2
  MaxStops = 1
CHECK_DEADLOCK FALSE
INVARIANTS ExclusiveClaim LostOnlyUnacknowledged DuplicatesExplained
PROPERTIES EventuallySent
