SPECIFICATION Spec
CONSTANTS
    Users = {u1}
    Admins = {}
    None = None
    MaxSessions = 2
    MaxCalls = 3
    MaxOpens = 1
    MaxChanges = 0
INVARIANTS RenewalTransparent
CHECK_DEADLOCK FALSE
