\* Two drawers over a roster that an enrollment and an admin change.
SPECIFICATION Spec
CONSTANTS
    None = None
    u1 = u1  x1 = x1  z1 = z1  z2 = z2  h1 = h1  d1 = d1  d2 = d2
    Users = {u1}
    Externals = {x1}
    Enrollers = {h1}
    MaxEnrollments = 0
    MaxRow = 2
    Drawers = {d1, d2}
    Prizes <- MCPrizes
    TokenSpace = 65536
    MaxVersion = 2
CHECK_DEADLOCK FALSE
VIEW WithoutHistory
SYMMETRY Symmetry
INVARIANTS
    TypeOK
    FullyDrawn
    AuditTrue
    CodesMatch
PROPERTIES
    DrawnForGood
