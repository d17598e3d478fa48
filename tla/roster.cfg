\* Two requests at a time to enroll, three users, one place, and an admin who edits.
SPECIFICATION RosterSpec
CONSTANTS
    None = None
    u1 = u1  u2 = u2  u3 = u3  h1 = h1  h2 = h2
    Users = {u1, u2, u3}
    Externals = {}
    Enrollers = {h1, h2}
    MaxEnrollments = 1
    MaxRow = 2
SYMMETRY Symmetry
INVARIANTS
    OneHead
    OnRoster
    Linked
    Overshoot
