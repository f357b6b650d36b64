SPECIFICATION Spec
CONSTANTS
    p1 = p1
    k1 = k1
    k2 = k2
    v1 = v1
    d1 = d1
    NoValue = NoValue
    NoRow = NoRow
    Never = Never
    Personas = {p1}
    Keys = {k1, k2}
    Values = {v1}
    Descriptions = {d1}
    GracePeriods = {1}
    PinCaps = {1}
    MaxEntries = 3
    MaxTime = 1
    MaxWrites = 4
    MaxFields = 2
    MaxPinned = 1
    FieldBatch = 1
    n1 = n1
    b1 = b1
    NoteEvents <- MCNoteEvents
INVARIANTS
    PinnedWithinCap
