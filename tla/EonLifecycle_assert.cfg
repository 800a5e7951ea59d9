SPECIFICATION Spec
CONSTANTS
    Users = {u1, u2}
    NumCtx = 3
    FifoSize = 2
    Failing = {}
    Ways = {"rmmod"}
    MaxProbes = 2
INVARIANTS
    ReleaseAssertion
