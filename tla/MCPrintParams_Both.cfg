CONSTANTS
    Asks <- AsksFew
    MaxKeys = 2
    MaxRes = 600
    Printers <- SomePrinters
SPECIFICATION Spec
INVARIANT
    NeverBothSent
