------------------------- MODULE GateSessionProofs -------------------------
(***************************************************************************)
(* The gate keeps its promises over any session, for every set of offers   *)
(* and every choice of thresholds.                                         *)
(***************************************************************************)
EXTENDS GateSession, RiskGateProofs

\* Every open lot puts its max loss at risk; this is what makes the buying
\* power grow when a lot is closed.
LotsCollateralised == \A l \in lots : l.spread.maxLoss > 0

\* Without a baseline no position is ever affordable: Rule 9's `or` falls back
\* to the buying power of the moment, which is then zero.
NoBaselineNoLots == StartingBp = 0 => lots = {} /\ buyingPower = 0

IInv == TypeOK /\ OneShortPerStrike /\ CapitalKept /\ LotsCollateralised /\ NoBaselineNoLots

\* A snapshot of a typed session is a portfolio the gate accepts.
LEMMA SnapshotType ==
    ASSUME TypeOK
    PROVE  Snapshot \in PortfolioType
  <1>1. Rows \subseteq PositionType
    BY SessionAssumption DEF Rows, SellLeg, BuyLeg, TypeOK, SpreadType, PositionType
  <1>2. /\ Nav \in Int /\ SpotPrice \in Amount /\ StartingBp \in Int
        /\ netDelta \in Int /\ dailyPnl \in Int /\ buyingPower \in Int
    BY SessionAssumption DEF TypeOK, Amount
  <1> QED
    BY <1>1, <1>2 DEF Snapshot, PortfolioType, Amount

\* What an approval means for the session: the facts
\* of ApprovalIsSafe, in terms of the session's variables.
LEMMA ApprovalOnFreshSnapshot ==
    ASSUME TypeOK, NoBaselineNoLots, NEW s \in Offers, NEW requested \in Requests,
           RiskGateCheck(s, Snapshot, requested).approved
    PROVE  LET n == RiskGateCheck(s, Snapshot, requested).contracts
           IN  /\ n \in Nat \ {0}
               /\ s.maxLoss \in Int /\ s.maxLoss > 0
               /\ 100 * (s.maxLoss * n) <= Nav * MaxLossPct
               /\ 100 * Abs(netDelta + TradeDelta(s, Snapshot, n))
                    <= Nav * MaxDeltaPct
               /\ SellLeg(s) \notin Rows
               /\ 100 * (buyingPower - s.maxLoss * n) >= StartingBp * ReservePct
               /\ StartingBp # 0
  <1> DEFINE p == Snapshot
             n == RiskGateCheck(s, p, requested).contracts
  <1>1. s \in SpreadType /\ requested \in Nat \ {0} /\ p \in PortfolioType
    BY SessionAssumption, SnapshotType
  <1>2. /\ n \in Nat \ {0} /\ s.maxLoss > 0
        /\ 100 * (s.maxLoss * n) <= Or(p.nav, 0) * MaxLossPct
        /\ R3_portfolio_delta(s, p, n)
        /\ R5_duplicate(s, p)
        /\ R9_buying_power(s, p, n)
    BY <1>1, ApprovalIsSafe
  <1>3. /\ p.nav = Nav /\ p.netDelta = netDelta /\ p.buyingPower = buyingPower
        /\ p.startingBp = StartingBp /\ p.positions = Rows
    BY DEF Snapshot
  <1>4. Or(Nav, 0) = Nav /\ Or(netDelta, 0) = netDelta /\ Or(buyingPower, 0) = buyingPower
    BY SessionAssumption, GateAssumption DEF Or, TypeOK
  <1>5. s.maxLoss \in Int
    BY <1>1 DEF SpreadType
  <1>6. 100 * Abs(netDelta + TradeDelta(s, p, n)) <= Nav * MaxDeltaPct
    BY <1>2, <1>3, <1>4 DEF R3_portfolio_delta
  <1>7. SellLeg(s) \notin Rows
    BY <1>2, <1>3 DEF R5_duplicate, SellLeg
  <1>8. StartingBp # 0 /\ 100 * (buyingPower - s.maxLoss * n) >= StartingBp * ReservePct
    <2>1. s.maxLoss * n \in Nat \ {0}
      BY <1>2, <1>5
    <2>2. 100 * (buyingPower - s.maxLoss * n)
            >= Or(StartingBp, buyingPower) * ReservePct
      BY <1>2, <1>3, <1>4 DEF R9_buying_power
    <2>3. StartingBp # 0
      <3> SUFFICES ASSUME StartingBp = 0 PROVE FALSE
        OBVIOUS
      <3>1. buyingPower = 0
        BY DEF NoBaselineNoLots
      <3>2. 100 * (0 - s.maxLoss * n) >= 0 * ReservePct
        BY <2>2, <3>1 DEF Or
      <3> QED
        BY <2>1, <3>2, GateAssumption
    <2> QED
      BY <2>2, <2>3, SessionAssumption, GateAssumption DEF Or
  <1> QED
    BY <1>2, <1>3, <1>4, <1>5, <1>6, <1>7, <1>8

-----------------------------------------------------------------------------

LEMMA InitIInv == Init => IInv
  <1> SUFFICES ASSUME Init PROVE IInv
    OBVIOUS
  <1>1. TypeOK
    <2>1. lots = {} /\ dailyPnl \in Int /\ netDelta \in Int /\ buyingPower \in Int
      BY SessionAssumption DEF Init
    <2>2. /\ verdict.decision.contracts \in Nat
          /\ verdict.spread \in Offers \cup {Missing}
          /\ verdict.requested \in Nat \ {0}
      BY DEF Init, NoVerdict
    <2>3. verdict.decision.approved \in BOOLEAN
      BY DEF Init, NoVerdict
    <2> QED
      BY <2>1, <2>2, <2>3 DEF TypeOK
  <1>2. OneShortPerStrike /\ LotsCollateralised /\ NoBaselineNoLots
    BY DEF Init, OneShortPerStrike, LotsCollateralised, NoBaselineNoLots
  <1>3. CapitalKept
    BY DEF Init, CapitalKept
  <1> QED
    BY <1>1, <1>2, <1>3 DEF IInv

\* A gate call that opens a lot, seen from the session.
LEMMA JudgeIInv ==
    ASSUME IInv, NEW s \in Offers, NEW requested \in Requests, Judge(s, requested)
    PROVE  IInv'
  <1> DEFINE decision == RiskGateCheck(s, Snapshot, requested)
             n == decision.contracts
             lot == [spread |-> s, contracts |-> n]
  <1>1. TypeOK /\ OneShortPerStrike /\ CapitalKept /\ LotsCollateralised /\ NoBaselineNoLots
    BY DEF IInv
  <1>2. /\ s \in SpreadType /\ requested \in Nat \ {0}
        /\ Snapshot \in PortfolioType /\ StartingBp \in Nat /\ Nav \in Int
    BY <1>1, SessionAssumption, SnapshotType
  <1>3. /\ decision.approved \in BOOLEAN
        /\ n \in Nat
    <2>1. Sized(s, Snapshot, requested) \in Nat
      BY <1>2, SizedType
    <2> QED
      BY <2>1 DEF RiskGateCheck
  <1>4. /\ verdict' = [decision |-> decision, spread |-> s, requested |-> requested]
        /\ dailyPnl' = dailyPnl
    BY DEF Judge
  <1>5. CASE ~ decision.approved
    <2>1. lots' = lots /\ netDelta' = netDelta /\ buyingPower' = buyingPower
      BY <1>5 DEF Judge
    <2>2. TypeOK'
      BY <1>1, <1>2, <1>3, <1>4, <2>1 DEF TypeOK
    <2>3. OneShortPerStrike' /\ CapitalKept' /\ LotsCollateralised' /\ NoBaselineNoLots'
      BY <1>1, <2>1 DEF OneShortPerStrike, CapitalKept, LotsCollateralised, NoBaselineNoLots
    <2> QED
      BY <2>2, <2>3 DEF IInv
  <1>6. CASE decision.approved
    <2>1. /\ lots' = lots \cup {lot}
          /\ netDelta' = netDelta + TradeDelta(s, Snapshot, n)
          /\ buyingPower' = buyingPower - s.maxLoss * n
      BY <1>6 DEF Judge
    <2>2. /\ n \in Nat \ {0}
          /\ s.maxLoss \in Int /\ s.maxLoss > 0
          /\ 100 * (s.maxLoss * n) <= Nav * MaxLossPct
          /\ SellLeg(s) \notin Rows
          /\ 100 * (buyingPower - s.maxLoss * n) >= StartingBp * ReservePct
          /\ StartingBp # 0
      BY <1>1, <1>6, ApprovalOnFreshSnapshot
    <2>3. TradeDelta(s, Snapshot, n) \in Int
      BY <1>2, <2>2, TradeDeltaType
    <2>4. TypeOK'
      <3>1. lots' \subseteq [spread : Offers, contracts : Nat \ {0}]
        BY <1>1, <2>1, <2>2 DEF TypeOK
      <3>2. netDelta' \in Int /\ buyingPower' \in Int
        BY <1>1, <2>1, <2>2, <2>3 DEF TypeOK
      <3>3. /\ verdict'.decision.contracts \in Nat
            /\ verdict'.decision.approved \in BOOLEAN
            /\ verdict'.spread \in Offers \cup {Missing}
            /\ verdict'.requested \in Nat \ {0}
        BY <1>2, <1>3, <1>4
      <3>4. dailyPnl' \in Int
        BY <1>1, <1>4 DEF TypeOK
      <3> QED
        BY <3>1, <3>2, <3>3, <3>4 DEF TypeOK
    <2>5. OneShortPerStrike'
      <3>1. \A l \in lots : SellLeg(l.spread) # SellLeg(s)
        BY <2>2 DEF Rows
      <3> QED
        BY <1>1, <2>1, <3>1 DEF OneShortPerStrike
    <2>6. CapitalKept'
      BY <1>1, <2>1, <2>2 DEF CapitalKept
    <2>7. LotsCollateralised' /\ NoBaselineNoLots'
      BY <1>1, <2>1, <2>2 DEF LotsCollateralised, NoBaselineNoLots
    <2> QED
      BY <2>4, <2>5, <2>6, <2>7 DEF IInv
  <1> QED
    BY <1>3, <1>5, <1>6

LEMMA CloseLotIInv ==
    ASSUME IInv, NEW l \in lots, CloseLot(l)
    PROVE  IInv'
  <1>1. TypeOK /\ OneShortPerStrike /\ CapitalKept /\ LotsCollateralised /\ NoBaselineNoLots
    BY DEF IInv
  <1>2. /\ lots' = lots \ {l}
        /\ netDelta' = netDelta - TradeDelta(l.spread, Snapshot, l.contracts)
        /\ buyingPower' = buyingPower + l.spread.maxLoss * l.contracts
        /\ dailyPnl' = dailyPnl /\ verdict' = verdict
    BY DEF CloseLot
  <1>3. /\ l.spread \in SpreadType /\ l.contracts \in Nat \ {0}
        /\ l.spread.maxLoss \in Nat /\ StartingBp \in Nat
    BY <1>1, SessionAssumption DEF TypeOK, LotsCollateralised, SpreadType
  <1>4. TradeDelta(l.spread, Snapshot, l.contracts) \in Int
    BY <1>1, <1>3, SnapshotType, TradeDeltaType
  <1>5. l.spread.maxLoss * l.contracts \in Nat
    BY <1>3
  <1>6. TypeOK'
    BY <1>1, <1>2, <1>4, <1>5 DEF TypeOK
  <1>7. OneShortPerStrike' /\ LotsCollateralised'
    BY <1>1, <1>2 DEF OneShortPerStrike, LotsCollateralised
  <1>8. CapitalKept'
    <2>1. 100 * buyingPower >= StartingBp * ReservePct
      BY <1>1 DEF CapitalKept
    <2>2. StartingBp * ReservePct \in Int
      BY <1>3, GateAssumption
    <2>3. 100 * buyingPower' >= StartingBp * ReservePct
      BY <1>1, <1>2, <1>5, <2>1, <2>2 DEF TypeOK
    <2> QED
      BY <1>1, <1>2, <2>3 DEF CapitalKept
  <1>9. NoBaselineNoLots'
    BY <1>1 DEF NoBaselineNoLots
  <1> QED
    BY <1>6, <1>7, <1>8, <1>9 DEF IInv

\* A step that leaves lots and buying power alone only has types to keep.
LEMMA SameLotsIInv ==
    ASSUME IInv, TypeOK', lots' = lots, buyingPower' = buyingPower
    PROVE  IInv'
  <1>1. OneShortPerStrike' /\ LotsCollateralised' /\ NoBaselineNoLots'
    BY DEF IInv, OneShortPerStrike, LotsCollateralised, NoBaselineNoLots
  <1>2. CapitalKept'
    BY DEF IInv, CapitalKept
  <1> QED
    BY <1>1, <1>2 DEF IInv

LEMMA NextIInv ==
    ASSUME IInv, [Next]_vars
    PROVE  IInv'
  <1>1. ASSUME NEW s \in Offers, NEW requested \in Requests, Judge(s, requested)
        PROVE  IInv'
    BY <1>1, JudgeIInv
  <1>2. ASSUME NEW l \in lots, CloseLot(l)
        PROVE  IInv'
    BY <1>2, CloseLotIInv
  <1>3. ASSUME NEW pnl \in Pnls, NEW shift \in Shifts, Drift(pnl, shift)
        PROVE  IInv'
    <2>1. TypeOK'
      BY <1>3, SessionAssumption DEF IInv, Drift, TypeOK
    <2> QED
      BY <1>3, <2>1, SameLotsIInv DEF Drift
  <1>4. CASE NextSession
    <2>1. TypeOK'
      <3>1. dailyPnl' = 0 /\ UNCHANGED <<lots, netDelta, buyingPower, verdict>>
        BY <1>4 DEF NextSession
      <3>2. dailyPnl' \in Int
        BY <3>1
      <3> QED
        BY <3>1, <3>2 DEF IInv, TypeOK
    <2> QED
      BY <1>4, <2>1, SameLotsIInv DEF NextSession
  <1>5. CASE UNCHANGED vars
    <2>1. TypeOK'
      BY <1>5 DEF IInv, vars, TypeOK
    <2> QED
      BY <1>5, <2>1, SameLotsIInv DEF vars
  <1> QED
    BY <1>1, <1>2, <1>3, <1>4, <1>5 DEF Next

LEMMA IInvHolds == Spec => []IInv
  <1>1. Init => IInv
    BY InitIInv
  <1>2. IInv /\ [Next]_vars => IInv'
    BY NextIInv
  <1> QED
    BY <1>1, <1>2, PTL DEF Spec

-----------------------------------------------------------------------------

\* Type correctness of the gate's session.
THEOREM TypeCorrect == Spec => []TypeOK
  BY IInvHolds, PTL DEF IInv

\* Rule 5 keeps short strikes distinct over any sequence of gate calls, opens
\* and closes (risk_gate_check, _find_duplicate).
THEOREM ShortStrikesDistinct == Spec => []OneShortPerStrike
  BY IInvHolds, PTL DEF IInv

\* Rules 2 and 9 keep the reserve and the per-position loss budget over any
\* sequence of gate calls.
THEOREM CapitalIsKept == Spec => []CapitalKept
  BY IInvHolds, PTL DEF IInv

LEMMA JudgeBlames ==
    ASSUME TypeOK, NEW s \in Offers, NEW requested \in Requests, Judge(s, requested)
    PROVE  BlamesTheRightBudget'
  <1> DEFINE decision == RiskGateCheck(s, Snapshot, requested)
  <1>1. s \in SpreadType /\ Snapshot \in PortfolioType
    BY SessionAssumption, SnapshotType
  <1>2. verdict'.spread = s /\ verdict'.decision = decision
    BY DEF Judge
  <1>3. Snapshot.nav = Nav /\ Nav \in Int
    BY SessionAssumption DEF Snapshot
  <1>4. ASSUME Nav > 0
        PROVE  Or(Snapshot.nav, 0) = Nav /\ Or(Snapshot.nav, 0) > 0
    BY <1>3, <1>4, GateAssumption DEF Or
  <1>5. Nav > 0 => ("R2_notional" \in decision.failing
                      <=> s.maxLoss <= 0 \/ 100 * s.maxLoss > Nav * MaxLossPct)
    BY <1>1, <1>4, Rule2TakesItsOwnBlame
  <1> QED
    BY <1>2, <1>5 DEF BlamesTheRightBudget

\* A rejection blames Rule 2 exactly for what the loss budget cannot carry (the
\* comment at risk_gate.py:179-182), over any session.
THEOREM RightBudgetBlamed == Spec => []BlamesTheRightBudget
  <1>1. Init => BlamesTheRightBudget
    BY DEF Init, BlamesTheRightBudget
  <1>2. ASSUME IInv, BlamesTheRightBudget, [Next]_vars
        PROVE  BlamesTheRightBudget'
    <2>1. ASSUME NEW s \in Offers, NEW requested \in Requests, Judge(s, requested)
          PROVE  BlamesTheRightBudget'
      BY <1>2, <2>1, JudgeBlames DEF IInv
    <2>2. ASSUME verdict' = verdict PROVE BlamesTheRightBudget'
      BY <1>2, <2>2 DEF BlamesTheRightBudget
    <2> QED
      BY <1>2, <2>1, <2>2 DEF Next, CloseLot, Drift, NextSession, vars
  <1> QED
    BY IInvHolds, <1>1, <1>2, PTL DEF Spec

\* An approval is for the largest size that fits, up to the request, over any
\* session (the sizing of risk_gate_check).
THEOREM SizedToTheLargest == Spec => LargestFit
  <1> DEFINE LargestNow ==
               \A l \in lots' \ lots :
                  LET n == l.contracts
                      s == l.spread
                      p == Snapshot
                  IN  /\ n <= verdict'.requested
                      /\ n < verdict'.requested =>
                            \/ 100 * (s.maxLoss * (n + 1)) > Nav * MaxLossPct
                            \/ 100 * (Abs(Or(p.netDelta, 0)) + Abs(TradeDelta(s, p, n + 1)))
                                  > Nav * MaxDeltaPct
  <1>1. ASSUME IInv, [Next]_vars PROVE LargestNow
    <2>1. ASSUME NEW s \in Offers, NEW requested \in Requests, Judge(s, requested)
          PROVE  LargestNow
      <3> DEFINE p == Snapshot
                 decision == RiskGateCheck(s, p, requested)
                 n == decision.contracts
                 lot == [spread |-> s, contracts |-> n]
      <3>1. verdict'.requested = requested
        BY <2>1 DEF Judge
      <3>2. CASE ~ decision.approved
        BY <2>1, <3>2 DEF Judge
      <3>3. CASE decision.approved
        <4>1. s \in SpreadType /\ requested \in Nat \ {0} /\ p \in PortfolioType
          BY <1>1, SessionAssumption, SnapshotType DEF IInv
        <4>2. /\ n \in Nat \ {0} /\ n <= requested /\ n = Sized(s, p, requested)
              /\ s.maxLoss > 0
          BY <3>3, <4>1, ApprovalIsSafe
        <4>3. Or(p.nav, 0) = Nav
          BY SessionAssumption, GateAssumption DEF Snapshot, Or
        <4>4. n < requested =>
                 \/ 100 * (s.maxLoss * (n + 1)) > Nav * MaxLossPct
                 \/ 100 * (Abs(Or(p.netDelta, 0)) + Abs(TradeDelta(s, p, n + 1)))
                       > Nav * MaxDeltaPct
          BY <4>1, <4>2, <4>3, SizedIsLargest
        <4>5. lots' = lots \cup {lot} /\ lot.spread = s /\ lot.contracts = n
          BY <2>1, <3>3 DEF Judge
        <4>6. \A l \in lots' \ lots : l.spread = s /\ l.contracts = n
          BY <4>5
        <4> HIDE DEF decision, n, p
        <4> QED
          BY <3>1, <4>2, <4>4, <4>6 DEF p
      <3> QED
        BY <3>2, <3>3
    <2>2. ASSUME lots' \subseteq lots PROVE LargestNow
      BY <2>2
    <2> HIDE DEF LargestNow
    <2> QED
      BY <1>1, <2>1, <2>2 DEF Next, CloseLot, Drift, NextSession, vars
  <1> QED
    BY IInvHolds, <1>1, PTL DEF Spec, LargestFit

\* The session implements the abstract book: a step either opens one position
\* at a strike the book is not short, inside the delta budget, or only closes.
THEOREM SessionImplementsSafeBook == Spec => ImplementsSafeBook
  <1> DEFINE shorts == {[leg |-> SellLeg(l.spread), contracts |-> l.contracts] : l \in lots}
  <1>1. Init => Book!Init
    BY DEF Init, Book!Init
  <1>2. ASSUME IInv, NEW short \in shorts
        PROVE  short.contracts <= short.contracts
    BY <1>2 DEF IInv, TypeOK
  <1>3. ASSUME IInv, [Next]_vars
        PROVE  [Book!Next]_shorts
    <2>1. ASSUME NEW s \in Offers, NEW requested \in Requests, Judge(s, requested)
          PROVE  [Book!Next]_shorts
      <3> DEFINE decision == RiskGateCheck(s, Snapshot, requested)
                 n == decision.contracts
                 lot == [spread |-> s, contracts |-> n]
                 new == [leg |-> SellLeg(s), contracts |-> n]
      <3>2. CASE ~ decision.approved
        BY <2>1, <3>2 DEF Judge
      <3>3. CASE decision.approved
        <4>1. /\ lots' = lots \cup {lot}
              /\ netDelta' = netDelta + TradeDelta(s, Snapshot, n)
          BY <2>1, <3>3 DEF Judge
        <4>2. /\ 100 * Abs(netDelta + TradeDelta(s, Snapshot, n)) <= Nav * MaxDeltaPct
              /\ SellLeg(s) \notin Rows
          BY <1>3, <3>3, ApprovalOnFreshSnapshot DEF IInv
        <4>3. shorts' = shorts \cup {new} /\ new \in shorts'
          <5>1. shorts' = {[leg |-> SellLeg(l.spread), contracts |-> l.contracts] : l \in lots'}
            OBVIOUS
          <5>2. lot.spread = s /\ lot.contracts = n
            OBVIOUS
          <5> QED
            BY <4>1, <5>1, <5>2
        <4>4. \A old \in shorts : old.leg # new.leg
          BY <4>2 DEF Rows
        <4>5. 100 * Book!Magnitude(netDelta') <= Nav * MaxDeltaPct
          BY <4>1, <4>2 DEF Abs, Book!Magnitude
        <4>6. \A other \in shorts' \ {new} : Book!NotEnlarged(other)
          BY <1>2, <1>3, <4>3 DEF Book!NotEnlarged
        <4>7. Book!Open
          BY <4>3, <4>4, <4>5, <4>6 DEF Book!Open
        <4> QED
          BY <4>7 DEF Book!Next
      <3> QED
        BY <3>2, <3>3
    <2>2. ASSUME NEW l \in lots, CloseLot(l)
          PROVE  [Book!Next]_shorts
      <3>1. lots' \subseteq lots
        BY <2>2 DEF CloseLot
      <3>2. \A short \in shorts' : short \in shorts
        BY <3>1
      <3> QED
        BY <1>3, <1>2, <3>2 DEF Book!Next, Book!Close, Book!NotEnlarged
    <2>3. ASSUME NEW pnl \in Pnls, NEW shift \in Shifts, Drift(pnl, shift)
          PROVE  [Book!Next]_shorts
      BY <2>3 DEF Drift
    <2>4. CASE NextSession
      BY <2>4 DEF NextSession
    <2>5. CASE UNCHANGED vars
      BY <2>5 DEF vars
    <2> QED
      BY <1>3, <2>1, <2>2, <2>3, <2>4, <2>5 DEF Next
  <1> QED
    BY <1>1, <1>3, IInvHolds, PTL DEF Spec, ImplementsSafeBook, Book!Spec
=============================================================================
