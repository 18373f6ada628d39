\* Three concurrent callers, up to four transitions.
CONSTANTS
    t1 = t1
    t2 = t2
    t3 = t3
    Callers = {t1, t2, t3}
    MaxAdvances = 4
SPECIFICATION MachineSpec
INVARIANT
    ReportedTransitionsChain
