SPECIFICATION TimedSpec
CONSTANTS
  t1 = t1
  t2 = t2
  c1 = c1
  c2 = c2
  f1 = f1
  NULL = NULL
  Threads = {t1, t2}
  Conns = {c1, c2}
  Size = 1
  Initial = 1
  Flags = {f1}
  Data = {0, 1}
  MaxChanges = 1
  MayFail = FALSE
  OwnsMaster = TRUE
  TicksPerSecond = 2
  RelativeTime = 3
  MaxTime = 8
SYMMETRY Symmetry
INVARIANTS
  
  EarlyByLessThanASecond
PROPERTIES
  UsedConnsUntouched
