CONSTANTS
    Id = {p, settings}
    Address = {a, b}
    Settings = settings
    Nobody = nobody
SPECIFICATION Spec
INVARIANT
    AckedIsListed
