CONSTANTS
  Templates = {}
  OrTriples <- MCOrTriples
  N_OR_COST = 3
SPECIFICATION Spec
INVARIANT OrSetKeepsBest
CHECK_DEADLOCK FALSE
