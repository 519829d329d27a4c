CONSTANTS
    Runs = {"live", "dry"}
    Live = {"live"}
    Spreads <- MCSpreads
    ProfitPct = 50
    LossPct <- MCLossPct
    DteFloor = 1
    Scenarios <- MCApart
SPECIFICATION Spec
INVARIANT LegsClosedTogether
