SPECIFICATION Spec
CONSTANTS
  Workers = {w1}
  Hooks = {h1}
  MaxActions = 1
  MaxFailures = 0
INVARIANT SentIsSubmitted
CHECK_DEADLOCK FALSE
