\* Every resource, one fault of any kind, two edits.
SPECIFICATION Spec
CONSTANTS
  Catalogue <- MCCatalogue
  Faults = {"apiError", "lostReply", "crash", "outOfBand", "race", "foreign"}
  MaxFaults = 1
  Twice = {"project_in_domain"}
  MaxChanges = 2
  MaxUuid = 4
INVARIANTS Tracked OkMeansApplied OffOnlyAfterFault
PROPERTIES ForgetsOnlyGone Settles
CHECK_DEADLOCK FALSE
