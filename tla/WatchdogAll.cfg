\* Timeouts: disarm, below the floor, between, and MAXDWORD itself.
CONSTANTS
  Clients = {a, b}
  Floor = 2
  MaxDword = 4
  Timeouts = {0, 1, 3, 4}
  MaxSleeps = 1

SPECIFICATION Spec

INVARIANTS
  TypeOK
  NeverOversleeps
  NoThreadAfterTeardown

PROPERTIES
  FiresOnlyWhenQuiet
  TeardownEnds
  SilenceUnplugs

\* With every client dead and the watchdog disarmed the system may stop.
CHECK_DEADLOCK FALSE
