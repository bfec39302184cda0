SPECIFICATION EscapeSpec
CONSTANT Values <- MCValues
INVARIANTS
    MeaningIsPreserved
    LinesStayWhole
