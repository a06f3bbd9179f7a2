SPECIFICATION Spec
CONSTANTS
  Registries = {r1, r2}
  First = r1
  Handles = {h1, h2}
  Alpns = {a}
  Times = {d1, d2}
  Rests = {i1, i2}
  MaxPools = 3
SYMMETRY MCSymmetry
INVARIANTS OnePoolPerKey LiveNotDown DownAtLast
CHECK_DEADLOCK FALSE
