CONSTANTS
    Runs = {"live", "dry"}
    Live = {"live"}
    Spreads <- MCSameExpiry
    ProfitPct = 50
    LossPct <- MCLossPct
    DteFloor = 1
    Scenarios <- MCScenarios
SPECIFICATION FairSpec
INVARIANTS SparedSpreadsInBand OrphansExplained
PROPERTIES FloorIsServed ImplementsAtomicExits
