SPECIFICATION Spec
CONSTANTS
    p1 = p1
    k1 = k1
    v1 = v1
    d1 = d1
    c1 = c1
    NoValue = NoValue
    NoRow = NoRow
    NoNote = NoNote
    Never = Never
    Personas = {p1}
    Keys = {k1}
    Values = {v1}
    Descriptions = {d1}
    NoteIds = {k1}
    Bodies = {v1}
    Kinds = {c1}
    GracePeriods = {1}
    FieldPinCaps = {0}
    NotePinCaps = {0}
    MaxEntries = 2
    MaxTime = 1
    MaxWrites = 2
    MaxFields = 2
    MaxNotes = 1
    MaxPinnedFields = 0
    MaxPinnedNotes = 0
    SweepBatch = 1
    MaxOwing = 1
    MaxMishaps = 1
PROPERTY
    SweptMeansGone
