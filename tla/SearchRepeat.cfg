SPECIFICATION Spec
CONSTANTS
    Words <- MCWords
    WordRank <- MCWordRank
    Length <- MCLength
    Distance <- MCDistance
    Unfuzzy <- MCUnfuzzy
    Dictionary <- MCDictionary
    Idf <- MCIdf
    Catalogs <- MCSmallCatalogs
    Queries <- MCRepeatQueries
    Limits = {1, 3}
    FuzzyMatchLimit = 32
CHECK_DEADLOCK FALSE
INVARIANT
    SpelledPhraseIsFound
