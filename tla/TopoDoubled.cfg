SPECIFICATION Spec
CONSTANTS
    None = None
    h1 = h1
    h2 = h2
    ip1 = ip1
    Dpid = {1, 2, 3}
    Port = {1, 2, 3, 4}
    Mac = {h1, h2}
    Ip = {ip1}
    Cable <- DoubledTriangle
    Heard <- HeardOnTriangle
    Home <- HomeOfHosts
    InitialArp <- EmptyArp
    TableSurvives = FALSE
INVARIANTS
    TypeOK
    GraphIsSound
    NoHostOnSwitchPort
    FlowsFollowTopology
    FlowsAreLoopFree
    FlowsHaveNoDeadEnd
PROPERTY
    PacketsMoveHostsHome
