\* One session at a time, packets and numbers the host records itself: the
\* replay window at its edges and at the largest counter.
CONSTANTS
    a = a
    b = b
    Endpoints = {a, b}
    s1 = s1
    Salts = {s1}
    Window = 2
    MaxCounter = 4
    HostCommits = {1, 4}
    MaxDraws = 2
    MaxNonces = 3
    None = None
SPECIFICATION Spec
INVARIANTS
    WindowExact
SYMMETRY Symmetric
