\* Every plan of up to six operators over two names; a plan, once scheduled, is final.
SPECIFICATION Spec
CONSTANTS
    StreamNames = {A, B}
    Operations <- MCOperations
    MaxOperators = 6
    MaxJoins = 2
SYMMETRY Symmetry
INVARIANTS
    CommitIsLast
    RedoAreaIsTransaction
    RedoStreamsEnterArea
    TurnsFollowInputs
CHECK_DEADLOCK FALSE
