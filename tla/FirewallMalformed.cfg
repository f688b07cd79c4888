SPECIFICATION Spec
CONSTANTS
    Dpid = {1, 2}
    a = a
    b = b
    Addr = {a, b}
    Any = Any
    Malformed = Malformed
    RuleFiles <- Lists
    PacketPort <- SomePorts
INVARIANT
    ValidRulesAreInstalled
