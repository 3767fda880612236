SPECIFICATION Spec
CONSTANTS
    Lower <- MCLower
    Upper <- MCUpper
    MAXRHS = 3
    strhash <- MCstrhash
    InitialSize = 2
    Files <- MCFiles
    Growth = 20
    YYSTACKDEPTH = 5
    MaxTokens = 4
    MaxSide = 2
    Lookaheads <- MCLookaheads
    ActionSets <- MCActionSets
CHECK_DEADLOCK FALSE
INVARIANTS
    GrammarAsWritten
    SymbolsAreFound
    TablesKeepActions
    TakesOnlySentences
    RefusesNoSentence
    LookupsFindActions
PROPERTY
    ParseReturns
