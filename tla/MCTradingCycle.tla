--------------------------- MODULE MCTradingCycle ---------------------------
(***************************************************************************)
(* Two underlyings, spreads that share strikes, and a $10,000 account.     *)
(* Under the delta limit of $1,100 the wide spread still fits behind the   *)
(* narrow one and is left to Rule 5; valued at the spot price, it is over  *)
(* that limit by itself.  The limit of $1,000 lets in one of two.          *)
(***************************************************************************)
EXTENDS TradingCycle

Put(ticker, sell, buy, delta, maxLoss) ==
    [ticker |-> ticker, expiry |-> 30, sell |-> sell, buy |-> buy,
     sellDelta |-> -18, netDelta |-> delta, netCredit |-> 40, maxLoss |-> maxLoss, dte |-> 10]

SpyWide   == Put("SPY", 100, 90, 9, 160)
SpyNarrow == Put("SPY", 100, 99, 1, 60)
QqqNarrow == Put("QQQ", 100, 95, 5, 90)

LegOf(ticker, strike) == [ticker |-> ticker, expiry |-> 30, strike |-> strike]

\* Per share, in hundredths.
MCLegDelta ==
    [leg \in {LegOf(t, k) : t \in {"SPY", "QQQ"}, k \in {90, 95, 99, 100}} |->
        CASE leg.strike = 100 -> -18 [] leg.strike = 99 -> -17
          [] leg.strike = 95 -> -13 [] leg.strike = 90 -> -9]

MCTickers == <<"SPY", "QQQ">>
MCOneTicker == <<"SPY">>
MCOffers == {SpyWide, QqqNarrow}
MCStacking == {SpyWide, SpyNarrow}
MCSpot == [SPY |-> 125, QQQ |-> 100]
MCCalm == {[dailyPnl |-> 0, buyingPower |-> 1000, startingBp |-> 1000]}
MCAccounts ==
    {[dailyPnl |-> 0, buyingPower |-> 1000, startingBp |-> 1000],
     [dailyPnl |-> -6, buyingPower |-> 1000, startingBp |-> 1000]}
MCQuiet == {"read", "reply", "timeout", "overlap"}
MCSerial == {"read", "reply", "timeout", "greeks", "resting", "bell"}
=============================================================================
