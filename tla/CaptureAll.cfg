\* Two handles and two plugs of one cookie, two channels, and a worker that can
\* outlive its monitor or be joined by its successor.
CONSTANTS
  Files = {f1, f2}
  Workers = {w1, w2}
  Control = Control
  MaxPlugs = 2
  MaxOpens = 2
  MaxEvents = 4
  None = None

SPECIFICATION Spec

INVARIANTS
  TypeOK
  EndIsVisible
  ActiveIsOwned
  ImportedIsServed

PROPERTIES
  RingFreed

\* With every handle closed and every plug used there is nothing left to do.
CHECK_DEADLOCK FALSE
