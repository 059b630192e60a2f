SPECIFICATION Spec
CONSTANTS
    Requests = {r1, r2, r3}
    Names = {customers, orders}
    None = None
    MaxVersions = 3
SYMMETRY Symmetry
INVARIANTS TypeOK PersistedIsWhole ReadTablesBelongTogether
