CONSTANTS
  Logins = {l1, l2}
  Cancels = {x1}
  Logouts = {o1}
  Refreshes = {f1, f2}
  MaxEvents = 1
  None = None
SPECIFICATION FairSpec
INVARIANTS
  TypeOK
  QuietPageIsRight
  CleanLoginsCanBeCancelled
PROPERTIES
  ClicksDoWhatTheLabelSays
  LabelSettles
CHECK_DEADLOCK FALSE
