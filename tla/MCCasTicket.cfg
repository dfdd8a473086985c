SPECIFICATION Spec
CONSTANTS
    Threads = {t1, t2, t3}
    Users = {alice, bob}
    Services = {wiki}
    CounterSize = 2
    Milliseconds = {m0}
    MaxIssues = 3
    MaxRestarts = 1
    Null = Null
SYMMETRY Symmetry
INVARIANTS
    TypeOK
    PunchedTicketIsGone
    StringsAreUnique
