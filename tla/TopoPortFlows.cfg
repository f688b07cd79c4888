SPECIFICATION Spec
CONSTANTS
    None = None
    h1 = h1
    h2 = h2
    ip1 = ip1
    Dpid = {1, 2}
    Port = {1, 2, 3}
    Mac = {h1, h2}
    Ip = {ip1}
    Cable <- Parallel
    Heard <- HeardAnywhere
    Home <- HomeOfHosts
    InitialArp <- EmptyArp
    TableSurvives = FALSE
PROPERTY
    PortModifyDropsFlows
