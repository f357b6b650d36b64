SPECIFICATION Spec
CONSTANTS
    r1 = r1
    Sweep = Sweep
    Stop = Stop
    Nothing = Nothing
    Nobody = Nobody
    Requests = {r1}
    Releases <- MCReleases
    Statements <- MCStatements
    MaxMishaps = 2
INVARIANTS
    SchemaIsWhole
    NothingRunsAfterTheClose
    StopLeavesNothing
PROPERTIES
    StartSucceeds
    StopEnds
