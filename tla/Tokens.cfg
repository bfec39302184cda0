SPECIFICATION QuerySpec
CONSTANTS
    Letters <- MCLetters
    Digits <- MCDigits
    LowerCase <- MCLowerCase
    Texts <- MCTexts
    CommandTexts <- MCCommandTexts
    Stopwords <- MCStopwords
    Why <- MCWhy
    How <- MCHow
    ExplainWords <- MCExplainWords
    ExplainPairs <- MCExplainPairs
    HowPairs <- MCHowPairs
    ActionVerbs <- MCActionVerbs
INVARIANTS
    TokensAreStable
    NothingIsLost
    SpaceSeparates
    CommandsAreRecognized
