---------------------------- MODULE GateSession ----------------------------
(***************************************************************************)
(* The gate over a trading session in which every call sees the account    *)
(* as it is: the snapshot is fresh, and an approved spread is filled       *)
(* before the next call.  This is the setting the nine rules are written   *)
(* for; module TradingCycle is the setting they run in.  Spreads are kept  *)
(* apart here; the broker's netting of a contract that one spread is long  *)
(* and another is short is in TradingCycle.                                *)
(***************************************************************************)
EXTENDS RiskGate, FiniteSets

CONSTANTS
    Offers,         \* the priced spreads the model may propose
    Requests,       \* the contract counts it may ask for
    SpotPrice,      \* the underlying's price, or Missing
    Nav,            \* net liquidation value at the start of the session
    StartingBp,     \* the persisted buying-power baseline
    Pnls, Shifts,   \* what the market may do to the day's P&L and the delta
    MaxShift        \* bound on the book delta the market may reach

ASSUME SessionAssumption ==
    /\ Offers \subseteq SpreadType
    /\ Requests \subseteq Nat \ {0}
    /\ SpotPrice \in (Nat \ {0}) \cup {Missing}
    /\ Nav \in Int /\ StartingBp \in Nat
    /\ Pnls \subseteq Int /\ 0 \in Pnls
    /\ Shifts \subseteq Int /\ MaxShift \in Nat

VARIABLES
    lots,        \* the open spreads
    netDelta,    \* delta-dollars of the book
    buyingPower,
    dailyPnl,    \* percent on the day
    verdict      \* the last decision, with what it was made from

vars == <<lots, netDelta, buyingPower, dailyPnl, verdict>>

SellLeg(s) == [ticker |-> s.ticker, expiry |-> s.expiry, strike |-> s.sell]
BuyLeg(s)  == [ticker |-> s.ticker, expiry |-> s.expiry, strike |-> s.buy]

Rows == {SellLeg(l.spread) : l \in lots} \cup {BuyLeg(l.spread) : l \in lots}

\* The snapshot the gate reads.
Snapshot ==
    [nav |-> Nav, spot |-> SpotPrice, netDelta |-> netDelta, dailyPnl |-> dailyPnl,
     buyingPower |-> buyingPower, startingBp |-> StartingBp, positions |-> Rows]

NoVerdict == [approved |-> FALSE, contracts |-> 0, failing |-> {}]

Init ==
    /\ lots = {}
    /\ netDelta = 0
    /\ buyingPower = StartingBp
    /\ dailyPnl = 0
    /\ verdict = [decision |-> NoVerdict, spread |-> Missing, requested |-> 1]

\* One gate call, and the fill that follows an approval.
Judge(s, requested) ==
    LET decision == RiskGateCheck(s, Snapshot, requested)
        n == decision.contracts
    IN  /\ verdict' = [decision |-> decision, spread |-> s, requested |-> requested]
        /\ IF decision.approved
           THEN /\ lots' = lots \cup {[spread |-> s, contracts |-> n]}
                /\ netDelta' = netDelta + TradeDelta(s, Snapshot, n)
                /\ buyingPower' = buyingPower - s.maxLoss * n
           ELSE UNCHANGED <<lots, netDelta, buyingPower>>
        /\ UNCHANGED dailyPnl

\* A position is closed: its delta and its collateral go with it.
CloseLot(l) ==
    /\ lots' = lots \ {l}
    /\ netDelta' = netDelta - TradeDelta(l.spread, Snapshot, l.contracts)
    /\ buyingPower' = buyingPower + l.spread.maxLoss * l.contracts
    /\ UNCHANGED <<dailyPnl, verdict>>

\* The market moves: P&L on the day, and the delta of what is held.
Drift(pnl, shift) ==
    /\ dailyPnl' = pnl
    /\ lots # {} \/ shift = 0
    /\ Abs(netDelta + shift) <= MaxShift
    /\ netDelta' = netDelta + shift
    /\ UNCHANGED <<lots, buyingPower, verdict>>

NextSession ==
    /\ dailyPnl' = 0
    /\ UNCHANGED <<lots, netDelta, buyingPower, verdict>>

Next ==
    \/ \E s \in Offers, requested \in Requests : Judge(s, requested)
    \/ \E l \in lots : CloseLot(l)
    \/ \E pnl \in Pnls, shift \in Shifts : Drift(pnl, shift)
    \/ NextSession

Spec == Init /\ [][Next]_vars

-----------------------------------------------------------------------------
(***************************************************************************)
(* Properties.                                                             *)
(***************************************************************************)

\* Values keep their kinds: sizes are positive once approved, the account's
\* numbers stay integers, and every open lot came from an offer.
TypeOK ==
    /\ lots \subseteq [spread : Offers, contracts : Nat \ {0}]
    /\ netDelta \in Int /\ buyingPower \in Int /\ dailyPnl \in Int
    /\ verdict.decision.contracts \in Nat
    /\ verdict.decision.approved \in BOOLEAN
    /\ verdict.spread \in Offers \cup {Missing}
    /\ verdict.requested \in Nat \ {0}

\* Rule 5 over a whole session: two open spreads never share a short contract,
\* however opens and closes alternate (_find_duplicate matches the new spread's
\* short strike, against every leg that is held).
OneShortPerStrike ==
    \A l, m \in lots : SellLeg(l.spread) = SellLeg(m.spread) => l = m

\* Rules 2 and 9 over a whole session: collateral never eats into the reserve,
\* and no open spread can lose more than its share of NAV.
CapitalKept ==
    /\ lots # {} => 100 * buyingPower >= StartingBp * ReservePct
    /\ \A l \in lots : 100 * (l.spread.maxLoss * l.contracts) <= Nav * MaxLossPct

\* Sizing down is to the largest size that fits, and the size is never the
\* model's to enlarge: an approval below the request means one more contract
\* would not have fitted the loss budget or the delta headroom.
LargestFit ==
    [][ \A l \in lots' \ lots :
          LET n == l.contracts
              s == l.spread
              p == Snapshot
          IN  /\ n <= verdict'.requested
              /\ n < verdict'.requested =>
                    \/ 100 * (s.maxLoss * (n + 1)) > Nav * MaxLossPct
                    \/ 100 * (Abs(Or(p.netDelta, 0)) + Abs(TradeDelta(s, p, n + 1)))
                          > Nav * MaxDeltaPct
      ]_vars

\* A rejection names the budget that bound it: R2 is blamed exactly when not
\* even one contract fits the loss budget, so a spread that the delta budget
\* sized to zero is R3's to report (the comment at risk_gate.py:179-182).
BlamesTheRightBudget ==
    LET s == verdict.spread
        failing == verdict.decision.failing
        tooRisky == s.maxLoss <= 0 \/ 100 * s.maxLoss > Nav * MaxLossPct
    IN  s # Missing /\ Nav > 0 => ("R2_notional" \in failing <=> tooRisky)

\* With fresh snapshots the session implements SafeBook.
Book == INSTANCE SafeBook WITH
    shorts <- {[leg |-> SellLeg(l.spread), contracts |-> l.contracts] : l \in lots},
    delta <- netDelta,
    deltaBudget <- Nav * MaxDeltaPct

ImplementsSafeBook == Book!Spec
=============================================================================
