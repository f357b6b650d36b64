SPECIFICATION Spec
CONSTANTS
    home = home
    work = work
    Work = Work
    slashed = slashed
    AtDefault = AtDefault
    NoProfile = NoProfile
    Malformed = Malformed
    Unchosen = Unchosen
    Nothing = Nothing
    Unavailable = Unavailable
    Rejected = Rejected
    Profiles = {home, work}
    Spellings <- MCSpellings
    Folded <- MCFolded
    Catalogue <- MCCatalogue
    CatalogueRecall = 4
    AccountChoices <- MCAccountChoices
    RecallChoices = {9, Unchosen}
    DeployedRecall = 5
    RecallMax = 6
    DeployedPins = 3
    DefaultGraceDays = 2
    MaxGraceDays = 3
    Requests = {r1}
    Jobs <- MCJobs
    MaxChanges = 1
INVARIANTS
    NothingUnchosenIsDone
