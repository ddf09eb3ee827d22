CONSTANTS
  Templates <- MCTemplates
  OrTriples <- MCOrTriples
  N_OR_COST = 3
SPECIFICATION Spec
INVARIANTS TypeOK PrereqCoverage OrCoverageWhileNotFull
PROPERTIES NoDominatedAppend
CHECK_DEADLOCK FALSE
