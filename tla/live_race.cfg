\* Two draw requests at once, an undo, the worker, every kind of failure.
SPECIFICATION Spec
CONSTANTS
  None = None
  p1 = p1  p2 = p2  p3 = p3  z1 = z1  z2 = z2
  k1 = k1  k2 = k2  d1 = d1  d2 = d2
  Participants = {p1, p2}
  Latecomers = {}
  Deletable = {}
  Registered = {}
  Prizes = {z1}
  Stock <- StockTwo
  PerRound <- StockOne
  IsAll <- NoneRepeats
  Covers <- KeysOverlap
  Keys = {k1, k2}
  Drawers = {d1, d2}
  Undoers = {u1}
  Editors = {}
  Faults = {"abort", "nobump", "insert", "ack", "compensate"}
  MaxVer = 1
INVARIANTS OneOwner RowsOfBatch AnswersBatch
PROPERTIES KeyDrawsOnce UndoneRowsStay
CHECK_DEADLOCK TRUE
SYMMETRY RaceSymmetry
