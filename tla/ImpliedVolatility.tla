------------------------- MODULE ImpliedVolatility -------------------------
(***************************************************************************)
(* agent/iv.py: the IV rank of one underlying, as market_context and the   *)
(* dashboard's market panel compute it from a chain, a year of closes and  *)
(* the file of recorded samples.  Volatilities are whole points.  A close   *)
(* stands for the realized volatility of the window that ends with it.     *)
(* What a rank is taken in is a function: from the days, or the lines of   *)
(* the file, to their volatilities.                                        *)
(***************************************************************************)
EXTENDS Integers, Sequences, FiniteSets

CONSTANTS
    HighMin, LowMax,  \* high_regime_min and low_regime_max
    MinSamples,       \* min_history_samples
    Window,           \* realized_vol_window
    Lookback,         \* lookback_days
    Unranked          \* None and NaN

ASSUME VolatilityAssumption ==
    /\ LowMax \in 0 .. 100 /\ HighMin \in 0 .. 100 /\ LowMax < HighMin
    /\ MinSamples \in Nat \ {0} /\ Window \in Nat \ {0} /\ Lookback \in Nat \ {0}
    /\ Unranked \notin Int /\ Unranked \notin [below : Nat, of : Nat]

Away(contract, spot) ==
    IF contract.strike < spot THEN spot - contract.strike ELSE contract.strike - spot

Nearest(contracts, spot) ==
    {c \in contracts : \A d \in contracts : Away(c, spot) <= Away(d, spot)}

\* atm_implied_volatility: the mean of the two nearest contracts with a
\* volatility, which may be one strike of two expiries or two strikes on one side;
\* which of two equally near ones counts depends on the response's order.
AtmImpliedVolatilities(chain, spot) ==
    LET quoted == {c \in DOMAIN chain : chain[c].iv # Unranked /\ chain[c].iv > 0}
        pairs == {p \in quoted \X quoted :
            p[1] \in Nearest(quoted, spot) /\ p[2] \in Nearest(quoted \ {p[1]}, spot)}
    IN  IF quoted = {} THEN {Unranked}
        ELSE IF pairs = {} THEN {chain[c].iv : c \in quoted}
        ELSE {(chain[p[1]].iv + chain[p[2]].iv) \div 2 : p \in pairs}

\* realized_volatility_series: one value for every full window of the returns,
\* and none at all below Window + 2 closes.
RealizedVolatilitySeries(closes) ==
    [day \in {i \in DOMAIN closes : Len(closes) >= Window + 2 /\ i > Window} |-> closes[day]]

Size(population) == Cardinality(DOMAIN population)

\* percentile_rank, as the number at or below the value, of how many.
\* Mutant: the number at or above it.
RankFromTop(value, population) ==
    [below |-> Cardinality({i \in DOMAIN population : population[i] >= value}),
     of |-> Size(population)]

PercentileRank(value, population) ==
    [below |-> Cardinality({i \in DOMAIN population : population[i] <= value}),
     of |-> Size(population)]

\* load_iv_history, and the samples that are neither None nor zero.
LoadIvHistory(file, ticker) ==
    [line \in {i \in DOMAIN file : file[i].ticker = ticker /\ file[i].iv # 0} |-> file[line].iv]

AtLeast(rank, pct) == 100 * rank.below >= pct * rank.of
AtMost(rank, pct) == 100 * rank.below <= pct * rank.of

ClassifyRegime(rank) ==
    IF rank = Unranked THEN "UNKNOWN"
    ELSE IF AtLeast(rank, HighMin) THEN "HIGH_IV"
    ELSE IF AtMost(rank, LowMax) THEN "LOW_IV" ELSE "MID_IV"

Ranked(atmIv, source, rank) ==
    [atm |-> atmIv, source |-> source, rank |-> rank, regime |-> ClassifyRegime(rank)]

\* Mutant: the few samples there are, are enough.
AnySamples(ivs) == Size(ivs) > 0

EnoughSamples(ivs) == Size(ivs) >= MinSamples

\* The newest of the realized volatilities, a year of them at most.
LastOf(series) ==
    [day \in {i \in DOMAIN series : Cardinality({j \in DOMAIN series : j >= i}) <= Lookback}
        |-> series[day]]

ComputeIvRank(ticker, atmIv, closes, history) ==
    LET ivs == LoadIvHistory(history, ticker)
        realized == LastOf(RealizedVolatilitySeries(closes))
    IN  IF atmIv = Unranked THEN Ranked(Unranked, "unavailable", Unranked)
        ELSE IF EnoughSamples(ivs) THEN Ranked(atmIv, "iv_history", PercentileRank(atmIv, ivs))
        ELSE IF Size(realized) > 0 THEN Ranked(atmIv, "rv_proxy", PercentileRank(atmIv, realized))
        ELSE Ranked(atmIv, "unavailable", Unranked)
=============================================================================
