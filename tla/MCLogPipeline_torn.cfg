SPECIFICATION SafetySpec
CONSTANTS
  Writers = {a, b}
  a = a
  b = b
  None = None
  Capacity = 6
  BufSize = 4
  Prefix = 1
  Texts = {0, 1, 4}
  Opens = {TRUE, FALSE}
  MaxLines = 3
INVARIANTS LinesIntact
SYMMETRY Symmetric
