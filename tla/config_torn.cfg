SPECIFICATION Spec
CONSTANTS
    Requests = {r1, r2}
    Names = {customers, orders}
    None = None
    MaxVersions = 3
SYMMETRY Symmetry
INVARIANT ReadsOneAggregate
