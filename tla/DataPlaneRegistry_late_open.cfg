SPECIFICATION Spec
CONSTANTS
  sts2 = sts2
  native = native
  c1 = c1
  c2 = c2
  Kinds <- OneKind
  Tunable <- OneKind
  Configs = {1, 2}
  Callers <- TwoCallers
  MaxFlights = 2
INVARIANTS
  OpenSessionsHaveABackend
SYMMETRY CallerSymmetry
CHECK_DEADLOCK FALSE
