SPECIFICATION Spec
CONSTANTS
  MaxTries = 2
  Prompt = TRUE
PROPERTY
  ReportIsTrue
