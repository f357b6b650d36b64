SPECIFICATION Spec
CONSTANTS
    r1 = r1
    r2 = r2
    r3 = r3
    r4 = r4
    p1 = p1
    p2 = p2
    t1 = t1
    t2 = t2
    Empty = Empty
    NoPersona = NoPersona
    NoJob = NoJob
    Requests = {r1, r2, r3, r4}
    Profiles = {p1, p2}
    Texts = {t1, t2}
    MaxPersonas = 1
    Workload <- MCWorkload
SYMMETRY Symmetry
INVARIANTS
    TypeOK
    PersonasWithinCap
    FactsBelongToTheirPersona
    AnsweredMeansGone
    LogBalances
    NoPredecessorShown
