CONSTANTS
    Callers = {agent, page}
    Agents = {agent}
    Levels = {0, 1}
    Contracts = {"spy", "spxw"}
    Shares = {"shares"}
    Root <- MCRoot
    Prefix <- MCPrefix
    Underlyings = {"SPY"}
    MaxTrades = 1
SPECIFICATION SnapshotSpec
INVARIANTS BaselineIsFixed FloorIsAnchored BookIsSeen FailuresAreReported
PROPERTY RaceEndsAtFirstBaseline
