\* Two draw requests at once for a prize with one place left.
SPECIFICATION Spec
CONSTANTS
  None = None
  p1 = p1  p2 = p2  p3 = p3  z1 = z1  z2 = z2
  k1 = k1  k2 = k2  d1 = d1  d2 = d2
  Participants = {p1, p2}
  Latecomers = {}
  Deletable = {}
  Registered = {}
  Prizes = {z1}
  Stock <- StockOne
  PerRound <- StockOne
  IsAll <- MixedRepeats
  Covers <- KeysApart
  Keys = {k1, k2}
  Drawers = {d1, d2}
  Undoers = {}
  Editors = {}
  Faults = {}
  MaxVer = 1
INVARIANTS NoOversell
CHECK_DEADLOCK TRUE
