\* Two tenants, two accounts, two prizes: registration, both ways to settle.
SPECIFICATION Spec
CONSTANTS
    None = None
    t1 = t1  t2 = t2  a1 = a1  a2 = a2  a3 = a3  r1 = r1  r2 = r2
    TenantNames = {t1, t2}
    AccountNames = {a1, a2, a3}
    Registrars = {r1, r2}
    Tokens = {p1, p2}
    AllDigits = {p1}
    Addresses = {home, work}
CHECK_DEADLOCK FALSE
SYMMETRY Symmetry
INVARIANTS
    OneAdmin
    WithinTenant
PROPERTIES
    RefinesAward
    SettledForGood
