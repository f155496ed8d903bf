CONSTANTS
    Id = {p}
    Address = {a}
    Client = {x}
    Nobody = nobody
SPECIFICATION Spec
PROPERTY
    RemovedIsNotCurrent
