SPECIFICATION Spec
CONSTANTS
    Threads = {t1, t2}
    Cleaner = Cleaner
    Users = {alice}
    Proxies = {proxy}
    Services = {app, bank}
    Enabled = {app, bank}
    SsoEnabled = {app}
    AllowedToProxy = {app}
    NumberOfUses = 1
    MaxTgts = 2
    MaxSts = 2
    MaxTimeouts = 0
    None = None
SYMMETRY Symmetry
INVARIANTS
    TypeOK
    UsesBounded
    AssertionsAreTrue
    SsoIsVisible
PROPERTY SingleLogoutIsComplete
