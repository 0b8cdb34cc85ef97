CONSTANTS
  Retries = 0
  Interval = 4
  Timeout = 2
  Backoff = 1
  Margin = 1
  Late = 0
  Jitter = 1
  Delay = 1
  Others = {}
  StoreFaults = FALSE
SPECIFICATION LoopSpec
INVARIANTS StartupGrace
