\* The optimistic control, combines that are not next to the mean.
SPECIFICATION Spec
CONSTANTS
    R = R
    S = S
    Relations = {R, S}
    Configurations <- MCMadeAnew
    NumTuples = 6
    Selected = {1, 2, 4, 5, 6}
    Matches <- MCMatches
    MaxVersion = 1
    Query = Query
    Updater = Updater
    NoThread = NoThread
    NoTuple = NoTuple
    NoTag = NoTag
    EndOfStream = EndOfStream
INVARIANT AllWindowsReadOneVersion
