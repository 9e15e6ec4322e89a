SPECIFICATION StoreSpec
CONSTANTS
  s1 = s1
  s2 = s2
  o1 = o1
  o2 = o2
  p1 = p1
  p2 = p2
  Sessions = {s1}
  Objects = {o1, o2}
  Products = {p1, p2}
  MaxAttempts = 2
  MaxQuantity = 2
  RetryLimit = 1
  Results <- MCResults
  Unknown = Unknown
  Absent = Absent
  NoAttempt = NoAttempt
  Staged = Staged
  Unresolved = Unresolved
  NoOrder = NoOrder
INVARIANTS StoreTypeOK PaidIffCompleted PaidOrderJustified EvidenceSupported
PROPERTIES TerminalIsFrozen EvidenceAppendOnly ImplementsLedger
