CONSTANTS
    MaxAbsDelta = 20
    MaxLossPct = 2
    MaxDeltaPct = 11
    MinCredit = 25
    MinDte = 7
    MaxDte = 14
    KillSwitchPct = 5
    ReservePct = 20
    Missing = Missing
    MaxNew = 1
    Nav = 10000
    LegDelta <- MCLegDelta
    Runs = {r1, r2}
    Live = {r1, r2}
    Forced = {}
    Tickers <- MCTickers
    Offers <- MCStacking
    Requests = {1}
    Accounts <- MCCalm
    SpotOf <- MCSpot
    Faults <- MCQuiet
    MaxCrashes = 1
    LastDay = 1
SPECIFICATION Spec
INVARIANTS OrdersWithinCap EveryOrderExplained EveryTickerAnalysed
PROPERTIES OutcomesAreFinal ImplementsDesk SafeUnlessOutgrown
CHECK_DEADLOCK FALSE
