SPECIFICATION RowSpec
CONSTANTS
    AttributeLists <- MCAttributeLists
    ValuesOf <- MCValuesOf
    Terms <- MCTerms
    NameLists <- MCNameLists
    CheckCondition <- Check
    ObeyCondition <- ObeySchema
    NormalForm <- ToCNF
    Width = 2
    MaxTerms = 3
    MaxTermsUsed = 1
    MaxChain = 3
    MaxRows = 1
    MaxTuples = 2
CHECK_DEADLOCK FALSE
INVARIANTS
    RowsObeySchemas
    NamesKeepTheirMeaning
    OnlyUncheckedPartsFail
    NormalFormLosesNoRow
