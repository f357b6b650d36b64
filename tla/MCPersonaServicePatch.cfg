SPECIFICATION Spec
CONSTANTS
    r1 = r1
    r2 = r2
    r3 = r3
    p1 = p1
    t1 = t1
    t2 = t2
    Empty = Empty
    NoPersona = NoPersona
    NoJob = NoJob
    Requests = {r1, r2, r3}
    Profiles = {p1}
    Texts = {t1, t2}
    MaxPersonas = 1
    Workload <- MCPatchWorkload
PROPERTIES
    OmittedPartsAreLeftAlone
