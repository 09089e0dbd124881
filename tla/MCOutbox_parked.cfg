SPECIFICATION FairSpec
CONSTANTS
  w1 = w1  w2 = w2
  Messages = {1, 2}
  Poison = {1}
  Workers = {w1}
  BatchSize = 1
  MaxRetries = 2
  PublishTimeout = 1
  ClaimLease = 4
  ClaimSlack = 1
  MaxFaults = 0
  MaxStops = 0
CHECK_DEADLOCK FALSE
PROPERTIES EventuallySent
