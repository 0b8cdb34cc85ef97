CONSTANTS
  Registrations = 1
  Sources = {"rdap", "whois"}
  ExpiryBy <- DayOnly
  Thresholds = {2}
  Window = 4
  CacheTTL = 1
  DegradedAfter = 1
  DegradedWindow = 1
  DayLength = 2
  Recipients = 1
  MaxCopies = 1
  MaxFaults = 0
  MaxAlerts = 1
  MaxTime = 4
SPECIFICATION Spec
PROPERTIES OncePerRegistration
