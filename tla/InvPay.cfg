SPECIFICATION Spec
CONSTANTS
    d1 = d1
    d2 = d2
    d3 = d3
    a1 = a1
    a2 = a2
    s1 = s1
    s2 = s2
    Docs = {d1, d2, d3}
    Accounts = {a1, a2}
    Owner <- TwoAndOne
    Schedules = {s1, s2}
    MaxReads = 3
    None = None
INVARIANTS TypeOK PaidAsPressed PaidAreDescheduled PaidByOwner
SYMMETRY Alike
