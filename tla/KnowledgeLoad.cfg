SPECIFICATION Spec
CONSTANTS
    Dirs <- MCDirs
    Root <- MCRoot
    Parent <- MCParent
    DirName <- MCDirName
    Ids <- MCIds
    Trees <- MCTrees
    Edits <- MCEdits
    MaxEdits = 2
    MaxLoads = 2
CHECK_DEADLOCK FALSE
INVARIANTS
    TypeOK
    ReportIsHonest
    SkipsAreDiagnosed
    LookupExact
    AvailabilityIsErrorFree
    RelatedJudgedOnWholeBase
    GoodEntriesSurvive
    CleanReportIsComplete
PROPERTIES
    LoadReturns
