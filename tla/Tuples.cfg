CONSTANTS
    Columns <- MCColumns
    PK <- MCPK
    Index <- MCIndex
    Toast <- MCToast
    Values = {v1, v2}
    Null = Null
SPECIFICATION Spec
INVARIANTS
    DataMirrored
    FullNeverStops
