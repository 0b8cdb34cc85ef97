CONSTANTS
  s1 = s1
  s2 = s2
  slack = slack
  NoNotifier = NoNotifier
  Sites = {s1, s2}
  Slots = {}
  Notifiers = {}
  Smtp = {}
  PerType <- NoPerType
  Default <- NoneRouted
  StoreFaults = TRUE
  Crashes = TRUE
  MaxPages = 3
  MaxSlips = 2
  MaxFailures = 2
  MaxTime = 2
SPECIFICATION Spec
INVARIANTS TypeOK PagesFollowTheRow RepeatsAccounted DowntimeTruthful
PROPERTIES ShutdownIsNotAnOutage
CHECK_DEADLOCK FALSE
