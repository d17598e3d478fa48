\* Handlers run to their end: where do the winners of two batches go?
SPECIFICATION FairSpec
CONSTANTS
  None = None
  p1 = p1  p2 = p2  p3 = p3  z1 = z1  z2 = z2
  k1 = k1  k2 = k2  d1 = d1  d2 = d2
  Participants = {p1, p2}
  Latecomers = {}
  Deletable = {}
  Registered = {p2}
  Prizes = {z1}
  Stock <- StockTwo
  PerRound <- StockTwo
  IsAll <- MixedRepeats
  Covers <- KeysOverlap
  Keys = {k1, k2}
  Drawers = {d1}
  Undoers = {u1}
  Editors = {e1}
  Faults = {"nobump", "insert", "ack"}
  MaxVer = 1
INVARIANTS Accounted
PROPERTIES Settled
CHECK_DEADLOCK TRUE
