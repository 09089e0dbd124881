SPECIFICATION ServicesSpec
CONSTANTS
  Rides = {r1, r2}
  Drivers = {d1}
  Shifts = {h1}
  None = None
  MaxFaults = 1
  MaxRequests = 1
  PingConfig <- MCPingConfig
  Pings <- MCPings
  MaxBatch = 2
  Uploads = {v1, v2}
  FirstNow = 2
  MaxNow = 3
  Tracks <- MCTracks
  Epsilons = {0, 10}
  Users = {u1, u2}
  Sessions = {s1, s2}
  AccessTTL = 1
  RefreshTTL = 2
  MaxClock = 3
  Services = {"auth", "ride", "driver", "matching", "billing", "location"}
  MaxExits = 1
  Resources = {"user", "ride", "driver", "shift", "invoice"}
  StartRows = 3
  MaxInserts = 1
  MaxUpdates = 1
  PageSizes <- MCPageSizes
  SortDirs = {"", "asc", "up"}
  MatchDrivers = {1, 2, 3}
  Scenes <- MCScenes
  BroadcastSize = 1
  PoolWidthPerAttempt = 1
  LocationOversampleFactor = 2
  BaseRadius = 1
  RadiusStep = 2
  MaxRadius = 2
  MaxRounds = 3
  WalletClients = {ka}
  Strangers = {kb}
  Cards = {x, y}
  Requests = {q1, q2}
  MaxCalls = 4
  MaxOpenings = 1
  MaxTries = 3
CHECK_DEADLOCK FALSE
INVARIANTS IngestKeepsOrder SummaryFaithful SessionsSound HealthHonest PagesComplete TargetsFair WalletSound AnswersHonest EventsAgree CountedOnce
