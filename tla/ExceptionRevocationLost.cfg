SPECIFICATION Spec
CONSTANTS
  x1 = x1
  x2 = x2
  c1 = c1
  c2 = c2
  c3 = c3
  Ids = {x1, x2}
  Findings = {"f1"}
  Covers <- MCCovers
  Commands = {c1, c2, c3}
  MaxRunning = 2
  Reviewers = {"r1"}
  Owner = "r1"
  Assigned = {"r1"}
  Evidence = {}
  Registered = {}
  RenewalLimit = 1
  MaxRenewals = 2
  MaxExceptionDays = 1
  LastDay = 2
PROPERTY
  RevocationIsFinal
SYMMETRY MCSymmetry
CHECK_DEADLOCK FALSE
