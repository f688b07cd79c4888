SPECIFICATION Spec
CONSTANTS
    None = None
    Dpid = {1, 2, 3, 4, 5}
    Orders <- Ascending
INVARIANTS
    TypeOK
    ResultIsShortest
    PredecessorsLeadBack
PROPERTIES
    EveryTurnCounts
    Returns
CHECK_DEADLOCK FALSE
