SPECIFICATION Spec
CONSTANTS
    Ids = {a, b}
    Fields = {f, g}
    New = New
    NoRow = NoRow
    Deleted = Deleted
    MaxWrites = 2
SYMMETRY Symmetry
INVARIANTS
    TypeOK
    ListShowsAnnounced
    SavesComeFromOwnForm
PROPERTY SavesKeepTheRest
