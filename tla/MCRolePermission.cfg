\* Two resources of one role, one of which may have authority, every fault.
SPECIFICATION MCSpec
CONSTANTS
  main = main
  extra = extra
  list = list
  zones = zones
  hosts = hosts
  any = any
  Resources = {main, extra}
  Rules = {list, zones, hosts, any}
  Configs <- MCConfigs
  Faults = {"apiError", "lostReply", "outOfBand", "crash", "race"}
  MaxFaults = 1
  MaxChanges = 2
  MaxUuid = 8
PROPERTIES OkMeansApplied NoErrorWithoutFault OthersUntouched Settles
CHECK_DEADLOCK FALSE
