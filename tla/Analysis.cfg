CONSTANTS
    MaxAbsDelta = 20
    MaxLossPct = 2
    MaxDeltaPct = 50
    MinCredit = 25
    MinDte = 7
    MaxDte = 14
    KillSwitchPct = 5
    ReservePct = 20
    Missing = Missing
    DeltaLow <- MCDeltaLow
    DeltaHigh <- MCDeltaHigh
    MaxWidthPct = 35
    BracketPct = 15
    MinWidth = 5
    MaxWidth = 10
    Limit = 5
    ShownLimit = 2
    Ticker = "SPY"
    SpotPrice = 100
    Boards <- MCBoards
    Past <- MCPast
    HighMin = 60
    LowMax = 30
    MinSamples = 3
    Window = 2
    Lookback = 3
    Unranked = Missing
    Arguments <- MCArguments
    Portfolios <- MCPortfolios
    LimitMode = "mid"
    Slippage = 2
SPECIFICATION Spec
INVARIANTS NothingIsLostInSilence JudgedOnFreshQuotes FiltersAgreeWithGate OrderWithinJudgement
PROPERTY RanksAreFounded
