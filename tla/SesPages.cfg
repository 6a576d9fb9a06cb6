SPECIFICATION FairSpec
CONSTANTS
    Users = {u1, u2}
    Admins = {u2}
    None = None
    MaxSessions = 3
    MaxCalls = 4
    MaxOpens = 1
    MaxChanges = 1
INVARIANTS TypeOK ShownIsCookie EndedStaysEnded HandlerArmed WriteActsForItsUser
PROPERTIES BootstrapResolves
CHECK_DEADLOCK FALSE
