SPECIFICATION Spec
CONSTANTS
    None = None
    Queries <- TheQueries
    ATable <- TheATable
    AAAATable <- TheAAAATable
    CnameTable <- TheCnameTable
    Names <- SomeNames
    MaxDepth = 10
INVARIANTS
    TypeOK
    UnreadableIsRefused
    AnswersFollowTables
PROPERTIES
    WorkIsBounded
    Returns
CHECK_DEADLOCK FALSE
