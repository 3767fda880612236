\* The queries of MCConfigurations; one update of each relation.
SPECIFICATION FairSpec
CONSTANTS
    R = R
    S = S
    Relations = {R, S}
    Configurations <- MCConfigurations
    NumTuples = 6
    Selected = {1, 2, 4, 5, 6}
    Matches <- MCMatches
    MaxVersion = 1
    Query = Query
    Updater = Updater
    NoThread = NoThread
    NoTuple = NoTuple
    NoTag = NoTag
    EndOfStream = EndOfStream
INVARIANTS
    WindowsReadOneVersion
    ResultsFollowStream
    EndsComplete
    RedoCovers
PROPERTIES
    StreamIsConsumed
    UpdatesGetThrough
