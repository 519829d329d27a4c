CONSTANTS
    Runs = {r1, r2}
    Tickers <- MCTickers
    r1 = r1
    r2 = r2
    Installed <- Base
    Configs <- MCConfigs
    MaxTurns = 2
    MaxNew = 1
    Observations <- MCObservations
    Nav = 10000
    Faults <- MCFaults
    MaxEdits = 1
    MaxEvents = 7
    Missing = Missing
SPECIFICATION Spec
INVARIANT LatestIsShown
CHECK_DEADLOCK FALSE
