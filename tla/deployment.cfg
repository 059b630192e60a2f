\* A configuration may be stored, and so replaced, three times in all.
SPECIFICATION Spec
CONSTANTS
    Strip <- MCStrip
    Parts <- MCParts
    CommaParts <- MCCommaParts
    Workers <- MCWorkers
    Requests <- MCRequests
    NewTables <- MCNewTables
    Connections <- MCConnections
    SourceTables <- MCSourceTables
    MaxWrites = 3
INVARIANTS
    TypeOK
    PublishedContractsAccepted
    WorkersAreFed
    RecordsArrive
    ShownConfigsSaveUnchanged
    AddedTablesFit
