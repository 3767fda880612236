\* Tumbling windows of two tuples, no redo.
SPECIFICATION Spec
CONSTANTS
    Windows <- MCWindows
    Matching <- MCMatching
    NumTuples = 2
    MaxRedos = 0
    NoTuple = NoTuple
    EndOfStream = EndOfStream
INVARIANT JoinsEveryPair
