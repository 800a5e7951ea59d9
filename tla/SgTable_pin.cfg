SPECIFICATION Spec
CONSTANTS
    PageSize = 4
    UInt = 32
    ULong = 256
    VmallocMax = 9
    KmallocMax = 7
    Bufs <- AllBufs
    Lens <- AllLens
INVARIANT
    PinFailureNoticed
