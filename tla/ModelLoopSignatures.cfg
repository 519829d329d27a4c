CONSTANTS
    Chain <- MCChain
    Keys <- MCGeminiKey
    MaxTurns = 3
    MaxAttempts = 3
    MaxAnalyses = 1
    MaxCalls = 2
    MaxBackoff = 75
    Failures <- MCFailures
    Allowlists <- MCAllowlists
    ServerTools <- MCServer
    WriteTools <- MCWrites
    Invented <- MCInvented
SPECIFICATION LoopSpec
INVARIANT SignaturesComeBack
CHECK_DEADLOCK FALSE
