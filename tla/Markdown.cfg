SPECIFICATION Spec
CONSTANTS
    Documents <- MCDocuments
CHECK_DEADLOCK FALSE
INVARIANTS
    AnswerIsPreserved
    ScannersAgree
