\* The same resources without faults: a block is taken out of the list.
SPECIFICATION MCSpec
CONSTANTS
  main = main
  extra = extra
  list = list
  zones = zones
  hosts = hosts
  any = any
  Resources = {main, extra}
  Rules = {list, zones, hosts, any}
  Configs <- MCConfigs
  Faults = {}
  MaxFaults = 0
  MaxChanges = 2
  MaxUuid = 8
PROPERTIES OrderIsStored
CHECK_DEADLOCK FALSE
