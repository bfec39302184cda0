SPECIFICATION Spec
CONSTANTS
    Words <- MCWords
    WordRank <- MCWordRank
    Length <- MCLength
    Distance <- MCDistance
    Unfuzzy <- MCUnfuzzy
    Dictionary <- MCDictionary
    Idf <- MCIdf
    Catalogs <- MCGrownCatalogs
    Queries <- MCOneWordQueries
    Limits = {1, 3}
    FuzzyMatchLimit = 32
CHECK_DEADLOCK FALSE
INVARIANT
    IsolatedWordIsNoAnswer
