SPECIFICATION Spec
CONSTANTS
  t1 = t1
  t2 = t2
  Timeouts = {t1, t2}
  None = None
  TicksPerWheel = 3
  MsPerTick = 10
  Delays = {0, 5, 40, 50}
  LastAdd = 2
  LastClock = 10
  MaxLost = 2
INVARIANTS LateByLost
PROPERTIES RunsOnceUncancelled NeverEarly PendingEnds
