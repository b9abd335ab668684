SPECIFICATION FlowSpec
CONSTANTS
    x = x
    y = y
    cur = cur
    Styles <- TheStyles
    CursorNames <- TheCursorNames
    ValueOf <- TheYields
    Holdings <- TheHoldings
    Anything <- Opaque
    MaxTurns = 6
    Schema <- TheSchema
    Root = "Song"
INVARIANTS
    DefinitionsAreTheOnesSeen
    ReportsReachTheSink
    RequestDataIsReported
    QueryReportsAreReal
    QueriesRunAreReported
CHECK_DEADLOCK FALSE
