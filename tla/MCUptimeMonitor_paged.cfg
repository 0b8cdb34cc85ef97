CONSTANTS
  s1 = s1
  s2 = s2
  slack = slack
  NoNotifier = NoNotifier
  Sites = {s1}
  Slots = {1}
  Notifiers = {slack}
  Smtp = {}
  PerType <- RecoveredOnly
  Default <- ToSlack
  StoreFaults = FALSE
  Crashes = FALSE
  MaxPages = 2
  MaxSlips = 3
  MaxFailures = 2
  MaxTime = 1
SPECIFICATION FairSpec
PROPERTIES OutagePaged
CHECK_DEADLOCK FALSE
