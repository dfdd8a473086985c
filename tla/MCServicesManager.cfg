SPECIFICATION Spec
CONSTANTS
    Threads = {t1, t2}
    Configured = 1
    MaxObjects = 5
    None = None
SYMMETRY Symmetry
INVARIANTS
    TypeOK
    IdsAreUnique
    
    StoredServicesAreFound
