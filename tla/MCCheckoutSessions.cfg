SPECIFICATION HistorySpec
CONSTANTS
  s1 = s1
  s2 = s2
  o1 = o1
  o2 = o2
  p1 = p1
  p2 = p2
  t1 = t1
  t2 = t2
  Sessions = {s1, s2}
  Objects = {o1}
  Products = {p1}
  Slots = {t1}
  MaxAttempts = 1
  MaxQuantity = 2
  MaxManual = 1
  MaxFaults = 2
  RetryLimit = 0
  Results <- MCResults
  Unknown = Unknown
  Absent = Absent
  NoAttempt = NoAttempt
  Staged = Staged
  Unresolved = Unresolved
  NoOrder = NoOrder
  Nothing = Nothing
SYMMETRY MCSymmetry
INVARIANTS CheckoutTypeOK ReviewIsPersisted MemoryIsShown ManualCartAgrees OneOpenSession CompletionIsTrue
CHECK_DEADLOCK FALSE
