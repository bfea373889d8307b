\* Two disks of a machine that lets no volume go while it runs, every fault.
SPECIFICATION MCSpec
CONSTANTS
  data = data
  logs = logs
  web = web
  db = db
  Disks = {data, logs}
  Machines = {web, db}
  Sticky = {web}
  Devices = {1, 2}
  Configs <- MCConfigs
  Attempts = 2
  Faults = {"apiError", "lostReply", "outOfBand", "crash", "race"}
  MaxFaults = 1
  MaxChanges = 3
INVARIANTS MachinesRunAgain OkMeansApplied
PROPERTIES ResizedDetached Settles
CHECK_DEADLOCK FALSE
