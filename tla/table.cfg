SPECIFICATION Spec
CONSTANTS
    Keys = {1, 2, 3, 4}
    Values = {v1, v2}
    NULL = NULL
    NLists = 2
    CharSum <- MCCharSum
INVARIANTS
    TableInv
    TransferKeepsContent
PROPERTY
    ImplementsMap
