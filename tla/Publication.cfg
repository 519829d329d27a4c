CONSTANTS
    Writers = {w1, w2}
    MaxRecords = 1
    MaxKills = 1
    Pushers = {p1, p2}
    ByHand = {p2}
    MaxAborts = 1
SPECIFICATION PublicationSpec
INVARIANTS CompletedAreRead ViewsAreOfTheJournal
PROPERTIES HistoryIsKept PublishingCatchesUp
CHECK_DEADLOCK FALSE
