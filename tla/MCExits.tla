------------------------------ MODULE MCExits ------------------------------
(***************************************************************************)
(* Two SPY spreads of one expiry that share their long leg, and one QQQ    *)
(* spread.  The wide ones bring 4 a contract in the calm market, the       *)
(* narrow one 2.                                                           *)
(***************************************************************************)
EXTENDS Exits

MCWide == [ticker |-> "SPY", expiry |-> 2, sell |-> 100, buy |-> 90]
MCNarrow == [ticker |-> "SPY", expiry |-> 2, sell |-> 95, buy |-> 90]
MCOther == [ticker |-> "QQQ", expiry |-> 2, sell |-> 100, buy |-> 90]

MCSameExpiry == {MCWide, MCNarrow}
MCSpreads == {MCWide, MCOther}

Prices(k90, k95, k100) ==
    [c \in Contracts |-> CASE c.strike = 90 -> k90 [] c.strike = 95 -> k95
                          [] c.strike = 100 -> k100]

MCMarkets ==
    { Prices(2, 4, 6),    \* calm: credits 4 and 2
      Prices(0, 1, 2),    \* half of either credit is earned
      Prices(2, 5, 10),   \* the wide spread is down its credit, the narrow one is not
      Prices(4, 7, 13) }  \* both are down more than their credit

\* One spread, and everything that can go wrong with closing it.
MCFaulty ==
    [runs |-> {"live"}, spreads |-> {MCNarrow}, crashes |-> 1,
     markets |-> {Prices(2, 4, 6), Prices(2, 6, 10)},
     faults |-> {"refuse", "reply", "resting"}]

\* Two spreads of one group, closed without a fault, and a dry run in between.
MCCalm ==
    [runs |-> {"live", "dry"}, spreads |-> {MCWide, MCNarrow}, crashes |-> 0,
     markets |-> {Prices(2, 4, 6), Prices(0, 1, 2)}, faults |-> {}]

\* Entries fill while a spread with the same long leg is being closed.
MCShared ==
    [runs |-> {"live"}, spreads |-> {MCWide, MCNarrow}, crashes |-> 0,
     markets |-> {Prices(2, 4, 6), Prices(2, 5, 10)}, faults |-> {"resting", "overlap"}]

MCRefusing ==
    [runs |-> {"live"}, spreads |-> {MCWide, MCOther}, crashes |-> 0,
     markets |-> MCMarkets, faults |-> {"refuse"}]

MCScenarios == {MCFaulty, MCCalm, MCShared}
MCApart == {MCRefusing}
MCLossPct == -100
=============================================================================
