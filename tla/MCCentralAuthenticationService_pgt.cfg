SPECIFICATION Spec
CONSTANTS
    Threads = {t1,t2}
    Cleaner = Cleaner
    Users = {alice}
    Proxies = {proxy}
    Services = {app}
    Enabled = {app}
    SsoEnabled = {app}
    AllowedToProxy = {app}
    NumberOfUses = 1
    MaxTgts = 3
    MaxSts = 1
    MaxTimeouts = 0
    None = None
INVARIANT OnePgtPerSt
