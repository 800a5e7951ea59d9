SPECIFICATION FairSpec
CONSTANTS
    HalfWord = 2
    AddrMin = 4
    AddrMax = 16
    DevTop = 17
    Tasks = {t1, t2}
    IoctlRequests <- FewRequests
    Lists <- FewLists
    MaxNum = 4
    WinSize = 4
    Word = 8
    ConfigBar = 2
    None = None
INVARIANTS
    TypeOK
    WindowAgrees
PROPERTIES
    ImplementsRegFile
    AccessReturns
