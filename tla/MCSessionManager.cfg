SPECIFICATION SessionSpec
CONSTANTS
  t1 = t1
  t2 = t2
  t3 = t3
  s1 = s1
  s2 = s2
  s3 = s3
  p1 = p1
  p2 = p2
  u1 = u1
  u2 = u2
  None = None
  Timeouts = {t1, t2, t3}
  Sessions = {s1, s2}
  Logins <- OneEach
  TicksPerWheel = 2
  MsPerTick = 100
  IdleMs = 200
  Delays = {200}
  LastAdd = 2
  LastClock = 5
  MaxLost = 0
INVARIANTS SessionInv
PROPERTIES OnlyIdleRemoved IdleSessionsEnd
