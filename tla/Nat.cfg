SPECIFICATION Spec
CONSTANTS
    None = None
    Host = {h1, h2}
    Remote = {x1}
    Id = {i1, i2}
    Timeout = 2
INVARIANTS
    TypeOK
PROPERTY
    ImplementsSessions
