SPECIFICATION Spec
CONSTANTS
    Width = 8
    MaxCalls = 3
    Address <- MCAddress
    Declared <- MCDeclared
    Objects <- MCObjects
    Globals <- MCGlobals
    Sources <- MCSources
INVARIANTS
    ParsesBack
    MeansSame
    FibersDeliver
    TypeOK
    ReadsDefined
    WithinStack
    CacheTransparent
    TailCallsBounded
PROPERTY Terminates
