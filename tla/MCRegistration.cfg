SPECIFICATION Spec
CONSTANTS
    Browsers = {b1, b2}
    Names = {alice, bob}
    Nicks = {ann}
    ExternalAccounts = {google}
    MaxUsers = 2
    Null = Null
SYMMETRY Symmetry
INVARIANTS
    TypeOK
    NamesAreUnique
    UsersAreComplete
    ActivatedUsersHaveUid
    
PROPERTY LoginIsKept
