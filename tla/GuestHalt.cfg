\* halt_guest() against main(): three requests before the deadline.
SPECIFICATION Spec
CONSTANTS
  MaxTries = 3
  Prompt = TRUE
INVARIANTS
  GrantedMeansQuiet
PROPERTY
  RefusedOnlyWhileBooting
CHECK_DEADLOCK TRUE
