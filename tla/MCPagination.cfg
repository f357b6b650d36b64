SPECIFICATION Spec
CONSTANTS
    NoRow = NoRow
    Spent = Spent
    NoCursor = NoCursor
    Ids = {1, 2, 3, 4}
    PageSizes = {1, 2}
    MaxEntries = 3
    MaxTime = 2
    MaxWrites = 6
INVARIANTS
    ShownOnce
    WalkIsComplete
PROPERTIES
    CursorsLeadOn
CHECK_DEADLOCK FALSE
