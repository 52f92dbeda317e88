SPECIFICATION Spec
CONSTANTS
    Hosts = {h1, h2}
    Pids = {p1, p2}
    Requests = {r1}
    Parent = parent
    NoPid = nopid
    Capacity = 1
INVARIANT
    CrashIsVisible
