\* Lists that change at their end and at their front, with every fault; fewer faults than
\* a creation has attempts.
SPECIFICATION Spec
CONSTANTS
  Rules <- MCRules
  Invalid <- MCInvalid
  Configs <- MCConfigs
  Parallelism = 2
  Attempts = 2
  Foreign <- MCForeign
  Faults = {"apiError", "createError", "outage", "lostReply", "asyncTimeout", "outOfBand", "foreignRule", "import", "crash"}
  MaxFaults = 1
  MaxChanges = 3
  MaxUuid = 9
INVARIANTS Tracked OkMeansApplied
PROPERTIES KeptRulesSurvive Settles
CHECK_DEADLOCK FALSE
