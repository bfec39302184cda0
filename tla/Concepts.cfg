SPECIFICATION Spec
CONSTANTS
    Words <- MCWords
    PhraseIds <- MCPhraseIds
    Spelling <- MCSpelling
    Contents <- MCContents
    Texts <- MCTexts
    MaxLoads = 2
CHECK_DEADLOCK FALSE
INVARIANTS
    ReportIsHonest
    AcceptsWellFormed
    CyclesAreCollisions
    DetectionIsMaximal
    RejectedFileIsEmpty
PROPERTIES
    CallsReturn
