SPECIFICATION Spec
CONSTANTS
  MaxTries = 2
  Prompt = TRUE
INVARIANT
  GrantedMeansNoPromiscuous
