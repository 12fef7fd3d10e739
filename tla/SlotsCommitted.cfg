CONSTANTS
  Callers = {p1, p2}
  Cookies = {c1, c2}
  Modes = {m1, m2}
  Monitors = {h1, h2}
  NumSlots = 1
  None = None

SPECIFICATION Spec

INVARIANT
  CommittedIsActive
