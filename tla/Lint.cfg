SPECIFICATION Spec
CONSTANTS
    Words <- MCWords
    Stopwords = {"the"}
    Length <- MCLength
    OneEdit <- MCOneEdit
    BroadKeywords = {"help", "folder"}
    Dictionary <- MCDictionary
    Catalogs <- MCCatalogs
INVARIANTS
    FindingsAreExact
    UnusedMeansUnindexed
    CleanMeansUnambiguous
