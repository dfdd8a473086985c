SPECIFICATION Spec
CONSTANTS
    Threads = {t1, t2}
    Users = {alice}
    Phones = {alice}
    ResendLimit = 2
    MaxCodes = 3
    MaxTokens = 2
    Null = Null
SYMMETRY Symmetry
INVARIANTS
    TypeOK
    MessagesAreSpaced
    MessagesAreLimited
    LastMessageWorks
    ResetFailsOnlyWhenOvertaken
