SPECIFICATION Spec
CONSTANTS
    Threads = {t1, t2}
    Users = {alice, bob}
    Services = {wiki}
    CounterSize = 4
    Milliseconds = {m0}
    MaxIssues = 2
    MaxRestarts = 0
    Null = Null
SYMMETRY Symmetry
INVARIANT SingleUse
