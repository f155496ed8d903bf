CONSTANTS
    Id = {p, q, r}
    Address = {a, b}
    Settings = settings
    Nobody = nobody
SPECIFICATION Spec
INVARIANTS
    TypeOK
    UniqueAddresses
    AckedIsListed
PROPERTY
    ImplementsStore
