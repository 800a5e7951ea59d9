SPECIFICATION Spec
CONSTANTS
    NumHdma = 2
    Callers = {c1, c2}
    Requests <- FewRequests
    Windows <- FewWindows
    Messages <- FewMessages
    Statuses = {1}
    Word = 33554432
    None = None
SYMMETRY CallerSymmetry
INVARIANTS
    TypeOK
    Programmed
    MsiReaches
    RegionsApart
