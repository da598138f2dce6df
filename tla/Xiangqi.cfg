CHECK_DEADLOCK FALSE
CONSTANTS
  Openings <- MCOpenings
SPECIFICATION Spec
INVARIANTS
  NoMoveMissing
  IncrementalStateExact
  PerpetualCheckLoses
PROPERTIES
  FollowsTheRules
