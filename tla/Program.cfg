SPECIFICATION RunSpec
CONSTANTS
    Messages = {"k", "c"}
    MaxEntries = 2
    MaxResults = 3
    ArgumentLists <- MCArgumentLists
    Dashed <- MCDashed
    Inline <- MCInline
    NumberOf <- MCNumberOf
    DefaultLimit = 5
    MaximumLimit = 100
    Starts <- MCStarts
    Places <- MCPlaces
    MaxMoves = 1
CHECK_DEADLOCK FALSE
INVARIANTS
    MeaningIsPositional
    ExitTwoIsMalformed
    JsonOnRequest
    ExitCodeMatchesOutput
    ValidateVerdictMatchesExit
    NothingSwallowed
    NamedBaseOrNone
PROPERTIES
    RunsEnd
