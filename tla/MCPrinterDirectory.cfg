CONSTANTS
    Id = {p, q}
    Address = {a, b}
    Client = {x, y}
    Nobody = nobody
SPECIFICATION FairSpec
INVARIANTS
    TypeOK
    FeedShowsKnown
    PageShowsKnown
PROPERTIES
    FeedCatchesUp
    PageCatchesUp
    UsesStore
