SPECIFICATION Spec
CONSTANTS
    Alphabet <- MCLetters
    Words <- MCWords
    Maxima <- MCMaxima
    FirstQuestions <- MCFirstQuestions
    MaxCalls = 2
    Alignment <- MCAlignment
    Nothing = Nothing
CHECK_DEADLOCK FALSE
INVARIANTS
    NearWordsAreNear
    OneEditIsNear
PROPERTIES
    IsBoundedDistance
