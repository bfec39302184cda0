SPECIFICATION Spec
CONSTANTS
    Words <- MCWords
    WordRank <- MCWordRank
    Length <- MCLength
    Distance <- MCDistance
    Unfuzzy <- MCUnfuzzy
    Dictionary <- MCDictionary
    Idf <- MCIdf
    Catalogs <- MCCatalogs
    Queries <- MCQueries
    Limits = {1, 3}
    FuzzyMatchLimit = 1
CHECK_DEADLOCK FALSE
INVARIANTS
    IndexIsExhaustive
    AnswerIsJustified
    ResultsAreTheBest
