CONSTANTS
  s1 = s1
  s2 = s2
  slack = slack
  NoNotifier = NoNotifier
  Sites = {s1}
  Slots = {1, 2}
  Notifiers = {slack}
  Smtp = {}
  PerType <- RecoveredOnly
  Default <- ToSlack
  StoreFaults = FALSE
  Crashes = TRUE
  MaxPages = 2
  MaxSlips = 3
  MaxFailures = 1
  MaxTime = 1
SPECIFICATION FairSpec
PROPERTIES OutageReachesSlack ImplementsDispatcher
CHECK_DEADLOCK FALSE
