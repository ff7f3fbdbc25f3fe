SPECIFICATION CatalogueSpec
CONSTANTS
    Null = Null
    Scale = 1000
    Covers <- MCCovers
    Births <- MCBirths
    FirstDay <- MCFirstDay
    LastYear = 2100
    MinAge = 18
    MaxAge = 100
CHECK_DEADLOCK FALSE
INVARIANTS
    AgeCountsBirthdays
    CleanWindow
    EveryAgePriced
    NearestCent
