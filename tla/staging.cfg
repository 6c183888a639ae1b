\* One download, requested at one quality and delivered at another.
SPECIFICATION Spec
CONSTANTS
  d1 = d1
  d2 = d2
  n1 = n1
  n2 = n2
  Nobody = Nobody
  Download <- One
  Name <- Names
  Requested <- MCRequested
  Actual <- MCActual
INVARIANTS
  NothingPartialVisible
  CompletedIsWhole
PROPERTIES
  FinishedFilesStayOnRename
CHECK_DEADLOCK FALSE
