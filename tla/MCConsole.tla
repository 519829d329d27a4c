----------------------------- MODULE MCConsole -----------------------------
(***************************************************************************)
(* Two runs, live or dry, one over two underlyings and one over the first  *)
(* of them; configurations that are tuned, lack a key that is asked for,   *)
(* and lack one that is not.                                               *)
(***************************************************************************)
EXTENDS Console, TLC

Base ==
    [files |-> AllFiles,
     keys |-> RequiredKeys \cup {"chain.limit", "cycle_interval_seconds"},
     environment |-> {"ALPACA_API_KEY", "ALPACA_SECRET_KEY"},
     minDays |-> 7, maxDays |-> 14, maxLossPct |-> 2, killSwitchPct |-> 5,
     deltaLow |-> -20, deltaHigh |-> -15, timeout |-> 600, interval |-> 900,
     minCredit |-> 25, maxDeltaPct |-> 50]

Tuned == [Base EXCEPT !.minCredit = 40, !.maxLossPct = 1]
NoLimit == [Base EXCEPT !.keys = @ \ {"chain.limit"}]
NoFeed == [Base EXCEPT !.keys = @ \ {"chain.feed"}]
MCConfigs == {Tuned, NoLimit, NoFeed}

CONSTANTS r1, r2

MCTickers == r1 :> <<"SPY", "QQQ">> @@ r2 :> <<"SPY">>
\* A spread of which one contract fits, and one that the book's delta leaves none of.
Fits == [credit |-> 30, loss |-> 150, delta |-> 800, book |-> 1000, wanted |-> 2]
MCObservations == "SPY" :> {Fits} @@ "QQQ" :> {[Fits EXCEPT !.book = 4900]}
MCFaults == AllFaults
=============================================================================
