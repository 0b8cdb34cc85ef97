CONSTANTS
  Registrations = 2
  Sources = {"rdap"}
  ExpiryBy <- Renewed
  Thresholds = {1}
  Window = 2
  CacheTTL = 2
  DegradedAfter = 0
  DegradedWindow = 1
  DayLength = 1
  Recipients = 1
  MaxCopies = 1
  MaxFaults = 1
  MaxAlerts = 1
  MaxTime = 4
SPECIFICATION FairSpec
INVARIANTS TypeOK CacheTruthful
PROPERTIES LookupsSpaced LastOkKept DegradedHonest NeverTwice DegradedFires
