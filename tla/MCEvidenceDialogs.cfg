SPECIFICATION Spec
CONSTANTS
  Attempts = {a1, a2}
  Previews = {p1, p2}
  Callers = {c1, c2}
  MaxFaults = 0
  Nothing = Nothing
SYMMETRY MCSymmetry
INVARIANTS
  QuarantineRestored
CHECK_DEADLOCK FALSE
