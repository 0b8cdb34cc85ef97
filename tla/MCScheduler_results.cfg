CONSTANTS
  j1 = j1
  j2 = j2
  j3 = j3
  Jobs = {j1, j2}
  Cap = 2
  MaxChecks = 3
SPECIFICATION FairSpec
INVARIANTS TypeOK NoneLeft
PROPERTIES ImplementsPipeline Terminates EveryResultProcessed
CHECK_DEADLOCK FALSE
