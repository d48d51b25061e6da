SPECIFICATION FairSpec
CONSTANTS
  t1 = t1
  t2 = t2
  c1 = c1
  c2 = c2
  c3 = c3
  f1 = f1
  NULL = NULL
  Threads = {t1, t2}
  Conns = {c1, c2, c3}
  Size = 2
  Initial = 1
  Flags = {f1}
  Data = {0}
  MaxChanges = 1
  MayFail = TRUE
  OwnsMaster = FALSE
INVARIANTS
  NoSharing
  NoLostWakeup
PROPERTIES
  ImplementsResourcePool
  AwakeProgress
