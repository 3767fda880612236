\* Sliding and tumbling windows on either side; one redo.
SPECIFICATION FairSpec
CONSTANTS
    Windows <- MCWindows
    Matching <- MCMatching
    NumTuples = 4
    MaxRedos = 1
    NoTuple = NoTuple
    EndOfStream = EndOfStream
INVARIANTS
    PairsWindows
    NoMutualWait
    ResultsComeFromWindows
    EndFollowsResults
PROPERTY EveryPairIsJoined
