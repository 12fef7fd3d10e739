CONSTANTS
  Requests <- MCRequests
  None = None
  MaxAdds = 2
  MaxSleeps = 1

SPECIFICATION Spec

INVARIANTS
  RangeEnclosesDtd
