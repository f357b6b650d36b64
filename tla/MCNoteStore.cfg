SPECIFICATION Spec
CONSTANTS
    p1 = p1
    p2 = p2
    n1 = n1
    n2 = n2
    n3 = n3
    b1 = b1
    b2 = b2
    c1 = c1
    NoValue = NoValue
    NoNote = NoNote
    Never = Never
    Personas = {p1, p2}
    NoteIds = {n1, n2, n3}
    Bodies = {b1, b2}
    Kinds = {c1}
    GracePeriods = {0, 1}
    PinCaps = {0, 1}
    MaxEntries = 3
    MaxTime = 1
    MaxWrites = 4
    MaxNotes = 2
    MaxPinned = 1
    NoteBatch = 1
    k1 = k1
    v1 = v1
    FieldEvents <- MCFieldEvents
SYMMETRY Symmetry
INVARIANTS
    TypeOK
    IndexAgrees
    NotesWithinCaps
    LogAgreesWithRows
PROPERTIES
    ImplementsLifecycle
    ForgottenForGood
