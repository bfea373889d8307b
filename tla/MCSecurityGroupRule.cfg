\* The default parallelism of two; of three rules one leaks its slot, or two; every fault.
SPECIFICATION Spec
CONSTANTS
  web = web
  ping = ping
  ssh = ssh
  bad = bad
  worse = worse
  http = http
  https = https
  icmp = icmp
  lan = lan
  wan = wan
  Rules <- MCRules
  SourcesOf <- MCSourcesOf
  PortsOf <- MCPortsOf
  Invalid = {bad, worse}
  Configs <- MCConfigs
  Parallelism = 2
  Faults = {"apiError", "lostReply", "outOfBand", "crash", "race"}
  MaxFaults = 1
  MaxChanges = 2
  MaxUuid = 12
INVARIANTS Tracked OkMeansApplied
PROPERTIES HandlerReturns Settles
CHECK_DEADLOCK FALSE
