----------------------------- MODULE MCAnalysis -----------------------------
(***************************************************************************)
(* SPY at 100, puts of two expiries, a $100,000 account with the           *)
(* thresholds of src/config.  86 to 98 lie in the bracket, 84 does not.    *)
(***************************************************************************)
EXTENDS Analysis, TLC

Spy(expiry, strike) == [ticker |-> "SPY", expiry |-> expiry, strike |-> strike]
\* The nearer the money, the higher the volatility here; none without Greeks.
Q(bid, ask, delta) ==
    [bid |-> bid, ask |-> ask, delta |-> delta,
     iv |-> IF delta = Missing THEN Missing ELSE 20 - delta]

Far == Spy(13, 90) :> Q(16, 18, -15) @@ Spy(13, 95) :> Q(60, 62, -23)

\* The window holds 95 and, in the far expiry, 90.  84 comes without Greeks.
Calm ==
    Spy(10, 84) :> Q(0, 2, Missing) @@ Spy(10, 86) :> Q(4, 5, -4) @@ Spy(10, 90) :> Q(9, 10, -10)
    @@ Spy(10, 95) :> Q(110, 112, -20) @@ Spy(10, 98) :> Q(150, 154, -33)

\* The window has moved out of the money, and partly out of the bracket.
Volatile ==
    Spy(10, 84) :> Q(70, 75, -16) @@ Spy(10, 86) :> Q(90, 95, -18) @@ Spy(10, 90) :> Q(120, 130, -26)
    @@ Spy(10, 95) :> Q(200, 210, -38) @@ Spy(10, 98) :> Q(260, 270, -45)

\* What is in the window does not quote well enough.
Thin ==
    Spy(10, 86) :> Q(1, 4, -9) @@ Spy(10, 90) :> Q(10, 80, -15) @@ Spy(10, 95) :> Q(0, 90, -18)
    @@ Spy(10, 98) :> Q(120, 121, Missing)

\* A crossed market, whose volatilities are not given.
CrossedQuotes ==
    Spy(10, 86) :> Q(6, 5, -4) @@ Spy(10, 90) :> Q(12, 9, -10) @@ Spy(10, 95) :> Q(60, 20, -17)
Crossed == [c \in DOMAIN CrossedQuotes |-> [CrossedQuotes[c] EXCEPT !.iv = 0]]

\* More strikes than the limit lets through: the one that quotes well is cut off.
Deep ==
    Spy(10, 86) :> Q(0, 1, Missing) @@ Spy(10, 87) :> Q(0, 2, Missing) @@ Spy(10, 88) :> Q(1, 3, -5)
    @@ Spy(10, 89) :> Q(2, 4, -9) @@ Spy(10, 90) :> Q(0, 5, -15) @@ Spy(10, 95) :> Q(60, 62, -18)

Samples(ticker, ivs) == [i \in DOMAIN ivs |-> [ticker |-> ticker, iv |-> ivs[i]]]

\* Enough samples, below (Calm) and above (Deep) today's volatility; too few for
\* SPY, or none, with closes for the proxy; neither.
MCPast ==
    Calm :> [closes |-> <<30, 31>>, history |-> Samples("SPY", <<25, 30, 60>>)]
    @@ (Calm @@ Far) :> [closes |-> <<10, 20, 90, 40, 50>>,
                       history |-> Samples("SPY", <<25, 0, 30>>) \o Samples("QQQ", <<25, 30>>)]
    @@ Volatile :> [closes |-> <<10, 10, 80, 90, 85, 95>>, history |-> <<>>]
    @@ Thin :> [closes |-> <<30, 31, 32>>, history |-> Samples("SPY", <<25>>)]
    @@ Crossed :> [closes |-> <<30, 31, 32, 33, 34>>, history |-> Samples("SPY", <<25, 30, 60>>)]
    @@ Deep :> [closes |-> <<>>, history |-> Samples("SPY", <<50, 55, 60, 70>>)]

MCBoards == {Calm, Calm @@ Far, Volatile, Thin, Crossed, Deep}

Call(expiry, short, long, contracts) ==
    [ticker |-> "SPY", expiry |-> expiry, short |-> short, long |-> long, contracts |-> contracts]

MCArguments ==
    {Call(10, 95, 90, 10), Call(10, 95, 86, 1), Call(10, 98, 90, 3), Call(10, 90, 86, 3),
     Call(13, 90, 86, 1), Call(13, 95, 90, 10),
     Call(10, 90, 95, 1), Call(10, 95, 90, 0), Call(Missing, 95, 90, 1)}

EmptyBook ==
    [nav |-> 100000, spot |-> Missing, netDelta |-> 0, dailyPnl |-> 0,
     buyingPower |-> 100000, startingBp |-> 100000, positions |-> {}]

\* A smaller account, which cannot afford the wider spreads: all but $600 of its
\* delta budget is used, and the near 98 is held.
FullBook == [EmptyBook EXCEPT !.nav = 30000, !.netDelta = 14400, !.positions = {Spy(10, 98), Spy(10, 90)}]

MCPortfolios == {EmptyBook, FullBook}

MCDeltaLow == -20
MCDeltaHigh == -15
=============================================================================
