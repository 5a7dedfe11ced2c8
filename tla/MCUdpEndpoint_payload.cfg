SPECIFICATION Spec
CONSTANTS
  c1 = c1
  h1 = h1
  h2 = h2
  Handlers = {h1, h2}
  Cmds = {c1}
  Senders = {s1}
  Looper = lp
  Buffers <- Full
  Datagrams <- One
  Mtu = 2
  RcvMax = 2
  SndMax = 1
  MaxSends = 2
  MaxAnswers = 1
  MaxArrivals = 2
  MaxAttach = 1
  Errors = FALSE
INVARIANTS
  ReadablePartIsSent
CHECK_DEADLOCK FALSE
