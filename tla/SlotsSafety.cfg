\* Two overlapping calls, two slots, two cookies, and handles enough for both
\* slots and one monitor that is being undone or departed.
CONSTANTS
  Callers = {p1, p2}
  Cookies = {c1, c2}
  Modes = {m1}
  Monitors = {h1, h2, h3}
  NumSlots = 2
  None = None

SPECIFICATION Spec
SYMMETRY Symmetry

INVARIANTS
  TypeOK
  NoOrphanMonitor
  SoleHolder
  ListedMonitorResolves
  ActiveWasCommitted
  QuietTableIsExact

PROPERTIES
  OnlyUnplugDelists
