SPECIFICATION Spec
CONSTANTS
    s1 = s1
    s2 = s2
    d1 = d1
    c1 = c1
    c2 = c2
    w1 = w1
    w2 = w2
    n1 = n1
    n2 = n2
    r1 = r1
    r2 = r2
    Sources = {s1, s2}
    Destinations = {d1}
    Configs = {c1, c2}
    WorkerIds = {w1, w2}
    Names = {n1, n2}
    Requests = {r1, r2}
    None = None
    Gone = Gone
    MaxWrites = 2
    MaxDelayed = 1
SYMMETRY Symmetry
VIEW WithoutAnswers
INVARIANTS
    TypeOK
    SecretsOwned
    ChainResolves
    ConnectorsSettle
PROPERTIES
    UndisturbedAnswers
