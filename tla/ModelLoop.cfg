CONSTANTS
    Chain <- MCChain
    Keys <- MCKeys
    MaxTurns = 2
    MaxAttempts = 3
    MaxAnalyses = 2
    MaxCalls = 2
    MaxBackoff = 75
    Failures <- MCFailures
    Allowlists <- MCAllowlists
    ServerTools <- MCServer
    WriteTools <- MCWrites
    Invented <- MCInvented
SPECIFICATION FairLoopSpec
INVARIANTS RequestsWellFormed OnlyReadsServed FailoverIsEarned
PROPERTY AnalysisEnds
CHECK_DEADLOCK FALSE
