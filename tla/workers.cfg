SPECIFICATION Spec
CONSTANTS
    crm = crm
    sales = sales
    crmGroup = crmGroup
    salesGroup = salesGroup
    ownGroup = ownGroup
    None = None
    Ids = {a, b, c}
    WorkerIds = {crm, sales}
    GroupIds = {crmGroup, salesGroup, ownGroup}
    DerivedGroup <- WorkerIdsAndGroups
    Requests = {r1, r2}
SYMMETRY Symmetry
INVARIANTS TypeOK CollisionsMixExplicitAndDerived
PROPERTY CollisionsNeedOverlap
