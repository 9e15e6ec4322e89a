SPECIFICATION Spec
CONSTANTS
  Attempts = {a1, a2}
  Previews = {p1, p2}
  Callers = {c1, c2}
  MaxFaults = 2
  Nothing = Nothing
SYMMETRY MCSymmetry
CONSTRAINT MCBounds
INVARIANTS
  EvidenceTypeOK
  EvidenceKept
  UnrecordedIsTraceable
PROPERTIES
  PreviewRestores
  ImplementsArchive
CHECK_DEADLOCK FALSE
