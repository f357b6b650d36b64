SPECIFICATION Spec
CONSTANTS
    p1 = p1
    p2 = p2
    k1 = k1
    k2 = k2
    k3 = k3
    v1 = v1
    v2 = v2
    d1 = d1
    NoValue = NoValue
    NoRow = NoRow
    Never = Never
    Personas = {p1, p2}
    Keys = {k1, k2, k3}
    Values = {v1, v2}
    Descriptions = {d1}
    GracePeriods = {0, 1}
    PinCaps = {0, 1}
    MaxEntries = 2
    MaxTime = 1
    MaxWrites = 4
    MaxFields = 1
    MaxPinned = 1
    FieldBatch = 1
    n1 = n1
    b1 = b1
    NoteEvents <- MCNoteEvents
SYMMETRY Symmetry
INVARIANTS
    TypeOK
    IndexAgrees
    DocidsAreUnique
    WordsBelongToRows
    KeptValuesBelongToRows
    LogAgreesWithRows
    FieldsWithinCap
    LogIsTheNewest
PROPERTIES
    ImplementsLifecycle
    DestroyedWhenDue
    PastDueNeverReturns
