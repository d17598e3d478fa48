\* One draw request at a time beside an undo, roster edits and the worker.
SPECIFICATION Spec
CONSTANTS
  None = None
  p1 = p1  p2 = p2  p3 = p3  z1 = z1  z2 = z2
  k1 = k1  k2 = k2  d1 = d1  d2 = d2
  Participants = {p1, p2, p3}
  Latecomers = {p3}
  Deletable = {p3}
  Registered = {}
  Prizes = {z1}
  Stock <- StockMixed
  PerRound <- StockMixed
  IsAll <- MixedRepeats
  Covers <- KeysOverlap
  Keys = {k1, k2}
  Drawers = {d1}
  Undoers = {u1}
  Editors = {e1}
  Faults = {"abort", "ack", "compensate"}
  MaxVer = 2
INVARIANTS TypeOK NoRepeat NoOversell PoolFollowsRoster
PROPERTIES RefinesPrizeBook
CHECK_DEADLOCK TRUE
SYMMETRY PairSymmetry
