SPECIFICATION Spec
CONSTANTS
  Sources = {s1, s2}
  Timers = {t1}
  Frames = 2
  Known = {1, 2}
  MaxConnects = 2
  MaxFails = 0
  None = None
INVARIANT ClosedOnUnmount
