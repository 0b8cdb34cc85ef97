CONSTANTS
  a1 = a1
  slack = slack
  mail = mail
  NoNotifier = NoNotifier
  Alerts = {a1}
  Slots = {1, 2}
  Notifiers = {slack, mail}
  Smtp = {mail}
  Routes <- SlackFirst
  StoreFaults = FALSE
SPECIFICATION FairSpec
PROPERTIES EverySendSettles
