\* Managed or not, with every fault.
SPECIFICATION Spec
CONSTANTS
  tcp = tcp
  udp = udp
  b1 = b1
  b2 = b2
  p80 = p80
  none = none
  bad = bad
  Numbers = {1, 2, 3}
  Protocols = {tcp, udp}
  Bodies = {b1, b2}
  PortValues = {p80, none, bad}
  NoPort = none
  Invalid = {bad}
  Configs <- MCConfigs
  Others <- MCOthers
  Parallelism = 2
  Attempts = 2
  Faults = {"apiError", "lostReply", "asyncTimeout", "crash", "outOfBand", "foreignRule"}
  MaxFaults = 2
  MaxChanges = 3
  MaxUuid = 8
INVARIANTS Tracked OkMeansApplied
PROPERTIES UuidsPreserved Settles
CHECK_DEADLOCK FALSE
