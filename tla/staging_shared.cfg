\* manager.go, finaliseDownload: a file is visible only when it is done.
SPECIFICATION Spec
CONSTANTS
  d1 = d1
  d2 = d2
  n1 = n1
  n2 = n2
  Nobody = Nobody
  Download <- Both
  Name <- Names
  Requested <- MCRequested
  Actual <- MCActual
INVARIANTS
  NothingPartialVisible
CHECK_DEADLOCK FALSE
