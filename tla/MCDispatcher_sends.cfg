CONSTANTS
  a1 = a1
  slack = slack
  mail = mail
  NoNotifier = NoNotifier
  Alerts = {a1}
  Slots = {1, 2, 3}
  Notifiers = {slack, mail}
  Smtp = {mail}
  Routes <- SlackTwice
  StoreFaults = TRUE
SPECIFICATION FairSpec
INVARIANTS TypeOK AtMostTwoCopies SentMeansDelivered
PROPERTIES LoggedIsLast ImplementsDelivery SlackSettles CancelEndsSends
