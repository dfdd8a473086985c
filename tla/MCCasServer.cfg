SPECIFICATION ServerSpec
CONSTANTS
    Threads = {l1, l2, v1, v2}
    LoginThreads = {l1, l2}
    ValidateThreads = {v1, v2}
    Users = {alice, bob}
    Browsers = {b1}
    Services = {wiki, evil}
    ClientList = {wiki}
    Extended = {alice}
    NoService = NoService
    CurrentDomain = CurrentDomain
    CounterSize = 2
    Milliseconds = {m0}
    Requested <- MCRequested
    MaxIssues = 2
    MaxRestarts = 1
    Null = Null
SYMMETRY Symmetry
INVARIANTS
    ServerTypeOK
    AnswersAreGranted
    OwnRedirectIsHonoured
PROPERTIES
    ImplementsPunchedTicket
