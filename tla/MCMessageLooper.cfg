SPECIFICATION Spec
CONSTANTS
  a = a
  b = b
  Posters = {a, b}
  Looper = looper
  None = None
  MaxPosts = 3
INVARIANTS LooperInv StopDrains
PROPERTIES CallsReturn PostedIsHandled
