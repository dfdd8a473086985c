SPECIFICATION Spec
CONSTANTS
    Threads = {t1}
    Cleaner = Cleaner
    Users = {alice}
    Proxies = {proxy}
    Services = {app}
    Enabled = {app}
    SsoEnabled = {app}
    AllowedToProxy = {app}
    NumberOfUses = 1
    MaxTgts = 1
    MaxSts = 1
    MaxTimeouts = 0
    None = None
INVARIANT DestroyInvalidates
