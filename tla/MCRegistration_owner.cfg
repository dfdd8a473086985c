SPECIFICATION Spec
CONSTANTS
    Browsers = {b1, b2}
    Names = {alice, bob}
    Nicks = {}
    ExternalAccounts = {google}
    MaxUsers = 2
    Null = Null
PROPERTY OwnersDisassociate
CHECK_DEADLOCK FALSE
