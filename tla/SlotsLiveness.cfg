\* No symmetry: the properties are temporal.  No commits: a call never waits
\* for one.
CONSTANTS
  Callers = {p1, p2}
  Cookies = {c1, c2}
  Modes = {m1}
  Monitors = {h1, h2}
  NumSlots = 2
  None = None

SPECIFICATION FairTableSpec

PROPERTIES
  UnlistedMonitorsSettle
  
