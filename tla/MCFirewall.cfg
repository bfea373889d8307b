\* Both firewall resources, with every fault.
SPECIFICATION MCSpec
CONSTANTS
  web = web
  ping = ping
  bad = bad
  http = http
  https = https
  icmp = icmp
  Foreign = Foreign
  Rules <- MCRules
  PortsOf <- MCPortsOf
  Invalid = {bad}
  Configs <- MCConfigs
  Parallelism = 2
  Faults = {"apiError", "lostReply", "outOfBand", "foreignRule", "crash", "race"}
  MaxFaults = 2
  MaxChanges = 2
  MaxUuid = 8
INVARIANTS Tracked OkMeansApplied StateIsReal
PROPERTIES EachSettles
CHECK_DEADLOCK FALSE
