CONSTANTS
  Units = {u1, u2, u3}
  NFUNCS = 3
  NoUnit = NoUnit
SPECIFICATION Spec
INVARIANTS
  SuccessReleases
  FailureLeaksOne
  StartsFresh
