------------------------------ MODULE RiskGate ------------------------------
(***************************************************************************)
(* The nine-rule risk gate, agent/risk_gate.py: a pure function from a     *)
(* priced spread, a portfolio snapshot and the thresholds to a decision.   *)
(*                                                                         *)
(* Units.  Money is whole dollars; a delta is in hundredths per share, so  *)
(* netDelta * contracts * spot is delta-dollars (100 shares a contract);   *)
(* percentages are whole percents, and a limit "pct of x" is compared      *)
(* after multiplying the other side by 100, so nothing is rounded.  The    *)
(* code's 1e-9 and 1e-6 tolerances absorb float noise and have no          *)
(* counterpart here.                                                       *)
(***************************************************************************)
EXTENDS Integers

CONSTANTS
    MaxAbsDelta,    \* R1: cap on the short leg's |delta|
    MaxLossPct,     \* R2: loss budget of one position, percent of NAV
    MaxDeltaPct,    \* R3: delta-dollars of the book, percent of NAV
    MinCredit,      \* R4: dollars per contract
    MinDte, MaxDte, \* R6, R7
    KillSwitchPct,  \* R8: loss on the day, percent
    ReservePct,     \* R9: percent of the starting buying power
    Missing         \* a portfolio key that is absent or None

\* load_config only lets a configuration through with min_days <= max_days and
\* with the two percentages strictly between 0 and 1; the others are read as
\* non-negative numbers.
ASSUME GateAssumption ==
    /\ MaxAbsDelta \in Nat /\ MaxDeltaPct \in Nat /\ MinCredit \in Nat
    /\ MaxLossPct \in 1..99 /\ KillSwitchPct \in 1..99
    /\ ReservePct \in Nat
    /\ MinDte \in Nat /\ MaxDte \in Nat /\ MinDte <= MaxDte
    /\ Missing \notin Int

Abs(x) == IF x < 0 THEN -x ELSE x
AtLeastZero(x) == IF x < 0 THEN 0 ELSE x
Lesser(x, y) == IF x <= y THEN x ELSE y

\* Python's `value or default`: a missing key and a zero both give the default.
Or(value, default) == IF value \in {Missing, 0} THEN default ELSE value

Amount == Int \cup {Missing}

\* What validate_legs hands to the gate.
SpreadType ==
    [ticker: STRING, expiry: Int, sell: Nat \ {0}, buy: Nat \ {0},
     sellDelta: Int, netDelta: Int, netCredit: Int, maxLoss: Int, dte: Int]

\* An open position, one row per leg.
PositionType == [ticker: STRING, expiry: Int, strike: Nat \ {0}]

PortfolioType ==
    [nav: Amount, spot: Amount, netDelta: Amount, dailyPnl: Amount,
     buyingPower: Amount, startingBp: Amount, positions: SUBSET PositionType]

-----------------------------------------------------------------------------
(***************************************************************************)
(* Sizing: the largest position both the loss budget and what is left of   *)
(* the delta budget allow, never more than the model asked for.            *)
(***************************************************************************)

\* The orchestrator's portfolio has no `spot` key, so the short strike stands in.
Spot(s, p) == Or(p.spot, s.sell)

TradeDelta(s, p, n) == s.netDelta * Spot(s, p) * n

Affordable(s, p) ==
    IF s.maxLoss > 0 THEN (Or(p.nav, 0) * MaxLossPct) \div (100 * s.maxLoss) ELSE 0

Headroom(p) == AtLeastZero(Or(p.nav, 0) * MaxDeltaPct - 100 * Abs(Or(p.netDelta, 0)))

DeltaAffordable(s, p) ==
    LET perContract == Abs(TradeDelta(s, p, 1))
    IN  IF perContract > 0 THEN Headroom(p) \div (100 * perContract) ELSE Affordable(s, p)

\* Mutant: one contract, instead of the largest size that fits.
SizedToOne(s, p, requested) ==
    IF Lesser(Affordable(s, p), DeltaAffordable(s, p)) >= requested THEN requested
    ELSE Lesser(1, Lesser(Affordable(s, p), DeltaAffordable(s, p)))

Sized(s, p, requested) ==
    LET fits == Lesser(Affordable(s, p), DeltaAffordable(s, p))
    IN  AtLeastZero(IF requested = Missing THEN fits ELSE Lesser(requested, fits))

-----------------------------------------------------------------------------
(***************************************************************************)
(* The rules.  All of them are evaluated even after one has failed.        *)
(***************************************************************************)

\* Mutant: the cap itself is refused.
R1_below(s) == Abs(s.sellDelta) < MaxAbsDelta

R1_delta(s) == Abs(s.sellDelta) <= MaxAbsDelta

\* Mutant: Rule 2 takes the blame for the delta budget as well.
R2_any_budget(s, p) == Lesser(Affordable(s, p), DeltaAffordable(s, p)) >= 1

R2_notional(s, p) ==
    /\ Affordable(s, p) >= 1
    /\ 100 * (s.maxLoss * Affordable(s, p)) <= Or(p.nav, 0) * MaxLossPct

\* Mutant: a size of zero has no delta, so it passes.
R3_of_nothing(s, p, n) ==
    100 * Abs(Or(p.netDelta, 0) + TradeDelta(s, p, n)) <= Or(p.nav, 0) * MaxDeltaPct

R3_portfolio_delta(s, p, n) ==
    /\ n >= 1
    /\ 100 * Abs(Or(p.netDelta, 0) + TradeDelta(s, p, n)) <= Or(p.nav, 0) * MaxDeltaPct

R4_min_premium(s) == s.netCredit >= MinCredit

\* Mutant: the long strike is looked up instead of the short one.
R5_long_strike(s, p) ==
    ~ \E q \in p.positions :
        q.ticker = s.ticker /\ q.expiry = s.expiry /\ q.strike = s.buy

\* Mutant: spreads are compared whole, so one new short leg is enough to pass.
R5_both_strikes(s, p) ==
    ~ \E q, m \in p.positions :
        /\ q.ticker = s.ticker /\ q.expiry = s.expiry /\ q.strike = s.sell
        /\ m.ticker = s.ticker /\ m.expiry = s.expiry /\ m.strike = s.buy

\* Only the short strike is looked up, but against every leg that is held.
R5_duplicate(s, p) ==
    ~ \E q \in p.positions :
        q.ticker = s.ticker /\ q.expiry = s.expiry /\ q.strike = s.sell

R6_min_dte(s) == s.dte >= MinDte
R7_max_dte(s) == s.dte <= MaxDte

R8_kill_switch(p) == AtLeastZero(-Or(p.dailyPnl, 0)) <= KillSwitchPct

\* Mutant: the reserve is a share of what is left, not of the baseline.
R9_of_current(s, p, n) ==
    LET bp == Or(p.buyingPower, 0)
    IN  100 * (bp - s.maxLoss * n) >= bp * ReservePct

R9_buying_power(s, p, n) ==
    LET bp == Or(p.buyingPower, 0)
    IN  100 * (bp - s.maxLoss * n) >= Or(p.startingBp, bp) * ReservePct

Checks(s, p, n) ==
    [R1_delta           |-> R1_delta(s),
     R2_notional        |-> R2_notional(s, p),
     R3_portfolio_delta |-> R3_portfolio_delta(s, p, n),
     R4_min_premium     |-> R4_min_premium(s),
     R5_duplicate       |-> R5_duplicate(s, p),
     R6_min_dte         |-> R6_min_dte(s),
     R7_max_dte         |-> R7_max_dte(s),
     R8_kill_switch     |-> R8_kill_switch(p),
     R9_buying_power    |-> R9_buying_power(s, p, n)]

FailingRules(s, p, requested) ==
    LET checks == Checks(s, p, Sized(s, p, requested))
    IN  {rule \in DOMAIN checks : ~ checks[rule]}

\* risk_gate_check: the contracts of a rejection are 0, and an account without
\* a positive NAV is rejected before any rule is looked at.
RiskGateCheck(s, p, requested) ==
    LET failing == IF Or(p.nav, 0) <= 0 THEN {"R0_preconditions"}
                   ELSE FailingRules(s, p, requested)
    IN  [approved  |-> failing = {},
         contracts |-> IF failing = {} THEN Sized(s, p, requested) ELSE 0,
         failing   |-> failing]
=============================================================================
