\* Requests that fit, one after the other or with a stray line behind, and any CGI.
SPECIFICATION Spec
CONSTANTS
  MaxHead = 24
  MaxPost = 2
  Requests <- Fitting
  Follow = 2
  MaxGiven = 3
INVARIANTS
  LookedUpOnce
  BodyArrives
  CalledAgainOnlyAnew
CHECK_DEADLOCK FALSE
