SPECIFICATION Spec
CONSTANTS
    None = None
    a = a
    b = b
    x = x
    Dpid = {1, 2, 3}
    Graph <- Ring
    Host = {a, b, x}
    Home <- HomeOf
    External = {x}
    Wants <- SomeWants
    Window = 2
    MaxTrouble = 1
INVARIANTS
    TypeOK
    GatewayStandsInForExternals
PROPERTIES
    FloodsRunDown
    FloodsDieOut
    NeighbourIsTold
    KnownHostIsTold
