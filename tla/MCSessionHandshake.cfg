\* Two complete handshakes of either version between two endpoints: stale and
\* repeated messages, differing salts, failing steps, nonces assigned in both sessions.
CONSTANTS
    a = a
    b = b
    Endpoints = {a, b}
    s1 = s1
    s2 = s2
    Salts = {s1, s2}
    Window = 2
    MaxCounter = 2
    HostCommits = {}
    MaxDraws = 4
    MaxNonces = 2
    None = None
SPECIFICATION Spec
INVARIANTS
    OneSecretAtATime
    Agreement
    SilentUntilProved
    NonceUnique
    NoReflection
SYMMETRY Symmetric
