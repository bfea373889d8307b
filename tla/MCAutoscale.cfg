SPECIFICATION AutoscaleSpec
CONSTANTS
  v = v
  w = w
  a = a
  Wishes <- MCWishes
  Spare <- MCSpare
  Attempts = 2
  Faults = {"apiError", "lostReply", "crash", "outOfBand"}
  MaxFaults = 1
  MaxChanges = 1
  MaxScalings = 1
PROPERTIES MembersChangedWhileDisabled AutoscaleSettles
CHECK_DEADLOCK FALSE
