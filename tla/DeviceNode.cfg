\* Nothing to bound: scripts, startups, disappearances and reboots recur freely.
SPECIFICATION Spec

INVARIANTS
  UninstalledStaysGone
  InstalledStays

PROPERTIES
  RestoreWorks
