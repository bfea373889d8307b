SPECIFICATION FanOutSpec
CONSTANTS
  a = a
  b = b
  c = c
  d = d
  e = e
  Jobs <- MCJobs
  Careless <- MCCareless
  Parallelism = 2
INVARIANTS SlotsBounded NeverStuck
CHECK_DEADLOCK FALSE
