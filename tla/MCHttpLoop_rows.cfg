CONSTANTS
  Retries = 2
  Interval = 5
  Timeout = 2
  Backoff = 1
  Margin = 1
  Late = 1
  Jitter = 1
  Delay = 1
  Others = {"other"}
  StoreFaults = TRUE
SPECIFICATION LoopSpec
INVARIANTS LoopTypeOK RowsKeepComing HealthTruthful
PROPERTIES DownIsExhausted
