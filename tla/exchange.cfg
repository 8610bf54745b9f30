SPECIFICATION Spec
CONSTANTS
    Texts <- AllTexts
    TextLen <- Lens
    Int16Max = 2
    Names <- SomeNames
    ParamTexts <- SomeTexts
    MaxParams = 3
    Queries <- SomeQueries
    Types <- MixedTypes
    NameOf <- ColumnNames
    MaxCols = 3
    MaxRows = 2
    Lengths = {0, 3}
    server_status <- Status
    MaxRequests = 4
INVARIANTS
    TypeOK
    ServerUnderstands
    ReadsWithinBody
    RowsMatchDescription
    CountIsRows
    ClientReadsAll
CHECK_DEADLOCK FALSE
