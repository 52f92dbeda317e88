\* Two hosts driven by two streams: safety.
SPECIFICATION Spec
CONSTANTS
    Hosts = {h1, h2}
    Pids = {p1, p2}
    Requests = {r1, r2}
    Parent = parent
    NoPid = nopid
    Capacity = 2
SYMMETRY Interchangeable
INVARIANTS
    AnswerMatchesCall
    HostInv
    OnlyLeaksHideCrashes
