CONSTANTS
    MaxAbsDelta = 20
    MaxLossPct = 2
    MaxDeltaPct = 20
    MinCredit = 25
    MinDte = 7
    MaxDte = 14
    KillSwitchPct = 5
    ReservePct = 20
    Missing = Missing
    Offers <- MCOffers
    Requests <- MCRequests
    SpotPrice = 100
    Nav = 10000
    StartingBp = 390
    Pnls <- MCPnls
    Shifts <- MCShifts
    MaxShift = 2700
SPECIFICATION Spec
INVARIANTS TypeOK OneShortPerStrike CapitalKept BlamesTheRightBudget
PROPERTIES LargestFit ImplementsSafeBook
