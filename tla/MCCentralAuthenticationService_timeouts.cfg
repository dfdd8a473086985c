SPECIFICATION FairSpec
CONSTANTS
    Threads = {t1}
    Cleaner = Cleaner
    Users = {alice}
    Proxies = {proxy}
    Services = {app}
    Enabled = {app}
    SsoEnabled = {app}
    AllowedToProxy = {app}
    NumberOfUses = 1
    MaxTgts = 2
    MaxSts = 2
    MaxTimeouts = 1
    None = None
INVARIANT HardTimeoutIsFinal
PROPERTIES
    SingleLogoutIsComplete
    OldTgtIsRemoved
