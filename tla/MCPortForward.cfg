\* Managed or not, with every fault.
SPECIFICATION Spec
CONSTANTS
  ssh = ssh
  web = web
  bad = bad
  Foreign = Foreign
  Forwards <- MCForwards
  Invalid = {bad}
  Configs <- MCConfigs
  Faults = {"apiError", "lostReply", "outOfBand", "foreignForward", "ipReleased", "crash", "race"}
  MaxFaults = 2
  MaxChanges = 2
  MaxUuid = 8
INVARIANTS Tracked OkMeansApplied StateIsReal
PROPERTIES Reconciles Settles
CHECK_DEADLOCK FALSE
