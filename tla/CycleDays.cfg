CONSTANTS
    MaxAbsDelta = 20
    MaxLossPct = 2
    MaxDeltaPct = 10
    MinCredit = 25
    MinDte = 7
    MaxDte = 14
    KillSwitchPct = 5
    ReservePct = 20
    Missing = Missing
    MaxNew = 1
    Nav = 10000
    LegDelta <- MCLegDelta
    Runs = {r1, r2}
    Live = {r1}
    Forced = {r1}
    Tickers <- MCOneTicker
    Offers <- MCOffers
    Requests = {1}
    Accounts <- MCAccounts
    SpotOf <- MCSpot
    Faults <- MCSerial
    MaxCrashes = 1
    LastDay = 2
SPECIFICATION FairSpec
INVARIANT EveryOrderExplained
PROPERTY RunsEnd
CHECK_DEADLOCK FALSE
