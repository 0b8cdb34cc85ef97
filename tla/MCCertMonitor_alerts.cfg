CONSTANTS
  c1 = c1
  c2 = c2
  slack = slack
  NoNotifier = NoNotifier
  Certs = {c1, c2}
  NotAfter <- Renewal
  Sound = {c1, c2}
  Thresholds = {1}
  DayLength = 2
  Window = 2
  UntrustedWindow = 1
  Recipients <- ToSlack
  Slots = {1}
  Notifiers = {slack}
  Smtp = {}
  StoreFaults = FALSE
  MaxAlerts = 1
  MaxTime = 5
SPECIFICATION FairSpec
INVARIANTS TypeOK
PROPERTIES NeverTwice UntoldIsDue
