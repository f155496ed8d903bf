CONSTANTS
    Asks <- AsksMany
    MaxKeys = 4
    MaxRes = 600
    Printers <- SomePrinters
SPECIFICATION Spec
INVARIANTS
    TypeOK
    AcceptedIsSent
    PageFits
    AreaIsRight
    OfferIsUsable
    OfferIsHonoured
PROPERTY
    WhatIfComesTrue
