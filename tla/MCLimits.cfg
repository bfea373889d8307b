\* The caller's own scope and two others, two positive limits, every fault.
SPECIFICATION LimitsSpec
CONSTANTS
  own = own
  account = account
  project = project
  Scopes = {own, account, project}
  Own = own
  Maxima = {5, 10}
  Faults = {"apiError", "lostReply", "outOfBand", "crash"}
  MaxFaults = 1
  MaxChanges = 3
PROPERTIES OnlyNamed LimitSettles
CHECK_DEADLOCK FALSE
