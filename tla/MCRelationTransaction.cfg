\* Two operators on R and one on S; every mode; two updates of each relation.
SPECIFICATION Spec
CONSTANTS
    R = R
    S = S
    updateR = updateR
    updateS = updateS
    Query = Query
    NoThread = NoThread
    Relations = {R, S}
    NumOps = 3
    RelationOf <- MCRelationOf
    Updaters = {updateR, updateS}
    UpdatedBy <- MCUpdatedBy
    MaxVersion = 2
INVARIANTS
    LockAccounting
    OperatorReadsOneVersion
    TransactionReadsOneVersion
PROPERTY NoUpdateOfReadRelation
