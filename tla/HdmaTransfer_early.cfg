SPECIFICATION Spec
CONSTANTS
    c1 = c1
    c2 = c2
    None = None
    Callers = {c1, c2}
    NumHdma = 1
    NumCpus = 2
    FifoSize = 1
    LoopLimit = 1
    DescAddrs = {c1, c2}
    DescOf <- OwnArea
    Ops = {"in"}
    Reported = {"stop"}
    Env = {"timeout", "signal"}
SYMMETRY CallerSymmetry
INVARIANTS
    IdleWhenTaken
    InStep
    LockOwner
    NoLostCompletion
