--------------------------- MODULE RiskGateProofs ---------------------------
(***************************************************************************)
(* What an approval of the gate guarantees, for every spread, every        *)
(* portfolio (keys missing or not) and every choice of the thresholds.     *)
(***************************************************************************)
EXTENDS RiskGate, TLAPS

\* Integer division by a positive divisor is the floor of the quotient.
LEMMA DivisionFloor ==
    ASSUME NEW b \in Int, NEW d \in Nat \ {0}
    PROVE  /\ b \div d \in Int
           /\ d * (b \div d) <= b
           /\ b < d * ((b \div d) + 1)
  OBVIOUS

\* Multiplying by a natural number keeps an order.
LEMMA ProductMonotone ==
    ASSUME NEW a \in Nat, NEW m \in Int, NEW n \in Int, m <= n
    PROVE  a * m <= a * n
  OBVIOUS

\* A missing or zero key is replaced by the default, so the result is a number.
LEMMA OrIsInt ==
    ASSUME NEW v \in Amount, NEW d \in Int
    PROVE  Or(v, d) \in Int
  BY DEF Or, Amount

\* The sizes are integers, and Affordable is the floor of the loss budget.
LEMMA AffordableType ==
    ASSUME NEW s \in SpreadType, NEW p \in PortfolioType
    PROVE  /\ Affordable(s, p) \in Int
           /\ Or(p.nav, 0) * MaxLossPct \in Int
           /\ s.maxLoss \in Int
           /\ Affordable(s, p) >= 1 => s.maxLoss > 0
           /\ s.maxLoss > 0 =>
                Or(p.nav, 0) * MaxLossPct
                    < 100 * (s.maxLoss * (Affordable(s, p) + 1))
  <1>1. Or(p.nav, 0) \in Int
    BY OrIsInt DEF PortfolioType
  <1>2. MaxLossPct \in Int /\ s.maxLoss \in Int
    BY GateAssumption DEF SpreadType
  <1>3. Or(p.nav, 0) * MaxLossPct \in Int
    BY <1>1, <1>2
  <1>4. CASE s.maxLoss > 0
    <2> DEFINE b == Or(p.nav, 0) * MaxLossPct
               d == 100 * s.maxLoss
    <2>1. b \in Int /\ d \in Nat \ {0}
      BY <1>2, <1>3, <1>4
    <2>2. b \div d \in Int /\ b < d * ((b \div d) + 1)
      BY <2>1, DivisionFloor
    <2>3. Affordable(s, p) = b \div d
      BY <1>4 DEF Affordable
    <2>4. d * ((b \div d) + 1) = 100 * (s.maxLoss * ((b \div d) + 1))
      BY <1>2, <2>2
    <2> QED
      BY <1>2, <1>3, <1>4, <2>2, <2>3, <2>4
  <1>5. CASE ~ (s.maxLoss > 0)
    BY <1>2, <1>3, <1>5 DEF Affordable
  <1> QED
    BY <1>4, <1>5

\* Delta-dollars of a size are an integer.
LEMMA TradeDeltaType ==
    ASSUME NEW s \in SpreadType, NEW p \in PortfolioType, NEW n \in Int
    PROVE  TradeDelta(s, p, n) \in Int
  <1>1. Spot(s, p) \in Int
    BY OrIsInt DEF Spot, SpreadType, PortfolioType
  <1>2. s.netDelta \in Int
    BY DEF SpreadType
  <1> QED
    BY <1>1, <1>2 DEF TradeDelta

\* Sizing yields a natural number, within the request and the loss budget.
LEMMA SizedType ==
    ASSUME NEW s \in SpreadType, NEW p \in PortfolioType, NEW requested \in Nat \ {0}
    PROVE  /\ Sized(s, p, requested) \in Nat
           /\ Sized(s, p, requested) <= requested
           /\ Sized(s, p, requested) >= 1 =>
                Sized(s, p, requested) <= Affordable(s, p)
  <1>1. Affordable(s, p) \in Int
    BY AffordableType
  <1>2. DeltaAffordable(s, p) \in Int
    <2> DEFINE one == Abs(TradeDelta(s, p, 1))
    <2>1. one \in Nat
      BY TradeDeltaType DEF Abs
    <2>2. CASE one > 0
      <3>1. Or(p.nav, 0) \in Int /\ Or(p.netDelta, 0) \in Int
        BY OrIsInt DEF PortfolioType
      <3>2. Headroom(p) \in Int
        BY <3>1, GateAssumption DEF Headroom, AtLeastZero, Abs
      <3>3. 100 * one \in Nat \ {0}
        BY <2>1, <2>2
      <3>4. Headroom(p) \div (100 * one) \in Int
        BY <3>2, <3>3, DivisionFloor
      <3> QED
        BY <2>2, <3>4 DEF DeltaAffordable
    <2>3. CASE ~ (one > 0)
      BY <1>1, <2>3 DEF DeltaAffordable
    <2> QED
      BY <2>2, <2>3
  <1>3. requested # Missing
    BY GateAssumption
  <1> QED
    BY <1>1, <1>2, <1>3 DEF Sized, Lesser, AtLeastZero

\* risk_gate_check approves only when all nine rules hold at the size it
\* returns, and then that size is at least one contract, at most the request,
\* inside the loss budget of Rule 2, and it leaves the delta of the book
\* (Rule 3) and the buying-power reserve (Rule 9) inside their limits.
THEOREM ApprovalIsSafe ==
    ASSUME NEW s \in SpreadType, NEW p \in PortfolioType,
           NEW requested \in Nat \ {0},
           RiskGateCheck(s, p, requested).approved
    PROVE  LET n == RiskGateCheck(s, p, requested).contracts
           IN  /\ n \in Nat \ {0} /\ n <= requested
               /\ n = Sized(s, p, requested)
               /\ s.maxLoss > 0
               /\ 100 * (s.maxLoss * n) <= Or(p.nav, 0) * MaxLossPct
               /\ R3_portfolio_delta(s, p, n)
               /\ R5_duplicate(s, p)
               /\ R8_kill_switch(p)
               /\ R9_buying_power(s, p, n)
  <1> DEFINE n == Sized(s, p, requested)
             checks == Checks(s, p, n)
  <1>1. FailingRules(s, p, requested) = {}
    BY DEF RiskGateCheck
  <1>2. \A rule \in DOMAIN checks : checks[rule]
    BY <1>1 DEF FailingRules
  <1>3. /\ R2_notional(s, p) /\ R3_portfolio_delta(s, p, n) /\ R5_duplicate(s, p)
        /\ R8_kill_switch(p) /\ R9_buying_power(s, p, n)
    <2>1. DOMAIN checks = {"R1_delta", "R2_notional", "R3_portfolio_delta",
            "R4_min_premium", "R5_duplicate", "R6_min_dte", "R7_max_dte",
            "R8_kill_switch", "R9_buying_power"}
      BY DEF Checks
    <2>2. /\ checks["R2_notional"] /\ checks["R3_portfolio_delta"]
          /\ checks["R5_duplicate"] /\ checks["R8_kill_switch"]
          /\ checks["R9_buying_power"]
      BY <1>2, <2>1
    <2> QED
      BY <2>2 DEF Checks
  <1>4. RiskGateCheck(s, p, requested).contracts = n
    BY <1>1 DEF RiskGateCheck
  <1>5. n \in Nat /\ n >= 1 /\ n <= requested /\ n <= Affordable(s, p)
    BY <1>3, SizedType DEF R3_portfolio_delta
  <1>6. s.maxLoss > 0 /\ s.maxLoss \in Int /\ Affordable(s, p) \in Int
    BY <1>3, AffordableType DEF R2_notional
  <1>7. s.maxLoss * n <= s.maxLoss * Affordable(s, p)
    BY <1>5, <1>6, ProductMonotone
  <1>8. 100 * (s.maxLoss * n) <= Or(p.nav, 0) * MaxLossPct
    <2>1. 100 * (s.maxLoss * Affordable(s, p)) <= Or(p.nav, 0) * MaxLossPct
      BY <1>3 DEF R2_notional
    <2>2. s.maxLoss * n \in Int /\ s.maxLoss * Affordable(s, p) \in Int
      BY <1>5, <1>6
    <2>3. Or(p.nav, 0) * MaxLossPct \in Int
      BY AffordableType
    <2> QED
      BY <1>7, <2>1, <2>2, <2>3
  <1> QED
    BY <1>3, <1>4, <1>5, <1>6, <1>8

-----------------------------------------------------------------------------
\* A rule is named among those that failed exactly when it fails at the size found.
LEMMA FailingRuleFails ==
    ASSUME NEW s, NEW p, NEW requested
    PROVE  LET failing == FailingRules(s, p, requested)
           IN  /\ "R1_delta" \in failing <=> ~ R1_delta(s)
               /\ "R2_notional" \in failing <=> ~ R2_notional(s, p)
               /\ "R4_min_premium" \in failing <=> ~ R4_min_premium(s)
               /\ "R6_min_dte" \in failing <=> ~ R6_min_dte(s)
               /\ "R7_max_dte" \in failing <=> ~ R7_max_dte(s)
  <1> DEFINE checks == Checks(s, p, Sized(s, p, requested))
  <1>1. {"R1_delta", "R2_notional", "R4_min_premium", "R6_min_dte", "R7_max_dte"} \subseteq DOMAIN checks
    BY DEF Checks
  <1>2. /\ checks["R1_delta"] = R1_delta(s) /\ checks["R2_notional"] = R2_notional(s, p)
        /\ checks["R4_min_premium"] = R4_min_premium(s)
        /\ checks["R6_min_dte"] = R6_min_dte(s) /\ checks["R7_max_dte"] = R7_max_dte(s)
    BY DEF Checks
  <1> HIDE DEF checks
  <1>3. FailingRules(s, p, requested) = {rule \in DOMAIN checks : ~ checks[rule]}
    BY DEF FailingRules, checks
  <1> QED
    BY <1>1, <1>2, <1>3

\* Rule 2 fails exactly for a spread that risks nothing, or whose single contract
\* risks more than the loss budget.
LEMMA Rule2IsExact ==
    ASSUME NEW s \in SpreadType, NEW p \in PortfolioType
    PROVE  R2_notional(s, p)
             <=> s.maxLoss > 0 /\ 100 * s.maxLoss <= Or(p.nav, 0) * MaxLossPct
  <1> DEFINE budget == Or(p.nav, 0) * MaxLossPct
             d == 100 * s.maxLoss
             n == Affordable(s, p)
  <1>1. budget \in Int /\ s.maxLoss \in Int /\ n \in Int
    BY AffordableType
  <1>2. CASE ~ (s.maxLoss > 0)
    BY <1>1, <1>2 DEF R2_notional, Affordable
  <1>3. CASE s.maxLoss > 0
    <2>1. d \in Nat \ {0} /\ n = budget \div d
      BY <1>1, <1>3 DEF Affordable
    <2>2. d * n <= budget /\ budget < d * (n + 1)
      BY <1>1, <2>1, DivisionFloor
    <2>3. d * n = 100 * (s.maxLoss * n)
      BY <1>1
    <2>4. ASSUME n >= 1 PROVE d <= budget
      <3>1. d * 1 <= d * n
        BY <1>1, <2>1, <2>4, ProductMonotone
      <3> QED
        BY <1>1, <2>1, <2>2, <3>1
    <2>5. ASSUME ~ n >= 1 PROVE ~ d <= budget
      <3>1. d * (n + 1) <= d * 1
        BY <1>1, <2>1, <2>5, ProductMonotone
      <3> QED
        BY <1>1, <2>1, <2>2, <3>1
    <2> QED
      BY <1>1, <1>3, <2>1, <2>2, <2>3, <2>4, <2>5 DEF R2_notional
  <1> QED
    BY <1>2, <1>3

\* Rule 2 answers for the loss budget only, whatever size the delta budget leaves.
LEMMA Rule2TakesItsOwnBlame ==
    ASSUME NEW s \in SpreadType, NEW p \in PortfolioType, NEW requested, Or(p.nav, 0) > 0
    PROVE  "R2_notional" \in RiskGateCheck(s, p, requested).failing
             <=> s.maxLoss <= 0 \/ 100 * s.maxLoss > Or(p.nav, 0) * MaxLossPct
  <1>1. Or(p.nav, 0) \in Int /\ s.maxLoss \in Int /\ Or(p.nav, 0) * MaxLossPct \in Int
    BY OrIsInt, AffordableType DEF PortfolioType
  <1>2. RiskGateCheck(s, p, requested).failing = FailingRules(s, p, requested)
    BY <1>1 DEF RiskGateCheck
  <1>3. "R2_notional" \in FailingRules(s, p, requested) <=> ~ R2_notional(s, p)
    BY FailingRuleFails
  <1> QED
    BY <1>1, <1>2, <1>3, Rule2IsExact

\* |x * n| for a size n.
LEMMA SizeScales ==
    ASSUME NEW x \in Int, NEW n \in Nat
    PROVE  Abs(x * n) = Abs(x) * n /\ Abs(x) \in Nat
  <1>1. CASE x < 0
    <2>1. Abs(x) = -x /\ (-x) * n = -(x * n) /\ x * n <= 0
      BY <1>1 DEF Abs
    <2> QED
      BY <1>1, <2>1 DEF Abs
  <1>2. CASE x >= 0
    <2>1. Abs(x) = x /\ x * n >= 0
      BY <1>2 DEF Abs
    <2> QED
      BY <1>2, <2>1 DEF Abs
  <1> QED
    BY <1>1, <1>2

\* The size is the largest that fits: one more contract, where the model asked for
\* it, is more than the loss budget or than what is left of the delta budget.
LEMMA SizedIsLargest ==
    ASSUME NEW s \in SpreadType, NEW p \in PortfolioType, NEW requested \in Nat \ {0},
           s.maxLoss > 0, Sized(s, p, requested) \in Nat \ {0},
           Sized(s, p, requested) < requested
    PROVE  LET n == Sized(s, p, requested)
           IN  \/ 100 * (s.maxLoss * (n + 1)) > Or(p.nav, 0) * MaxLossPct
               \/ 100 * (Abs(Or(p.netDelta, 0)) + Abs(TradeDelta(s, p, n + 1)))
                     > Or(p.nav, 0) * MaxDeltaPct
  <1> DEFINE n == Sized(s, p, requested)
             perContract == Abs(TradeDelta(s, p, 1))
             d == 100 * perContract
             left == Headroom(p)
             held == Abs(Or(p.netDelta, 0))
             budget == Or(p.nav, 0) * MaxDeltaPct
  <1>1. /\ Affordable(s, p) \in Int /\ s.maxLoss \in Int /\ n \in Nat
        /\ Or(p.nav, 0) * MaxLossPct < 100 * (s.maxLoss * (Affordable(s, p) + 1))
        /\ requested # Missing
    BY AffordableType, GateAssumption
  <1>2. /\ held \in Nat /\ budget \in Int /\ left \in Nat /\ left >= budget - 100 * held
    <2>1. Or(p.nav, 0) \in Int /\ Or(p.netDelta, 0) \in Int /\ MaxDeltaPct \in Nat
      BY OrIsInt, GateAssumption DEF PortfolioType
    <2>2. held \in Nat /\ budget \in Int
      BY <2>1 DEF Abs
    <2> QED
      BY <2>2 DEF Headroom, AtLeastZero
  <1>3. CASE n = Affordable(s, p)
    BY <1>1, <1>3
  <1>4. CASE n # Affordable(s, p)
    <2>1. perContract \in Nat
      BY TradeDeltaType DEF Abs
    <2>2. perContract > 0 /\ n = DeltaAffordable(s, p)
      <3>1. CASE perContract > 0
        <4>1. DeltaAffordable(s, p) = left \div d /\ d \in Nat \ {0}
          BY <2>1, <3>1 DEF DeltaAffordable
        <4>2. DeltaAffordable(s, p) \in Int
          BY <1>2, <4>1, DivisionFloor
        <4> QED
          BY <1>1, <1>4, <3>1, <4>2 DEF Sized, Lesser, AtLeastZero
      <3>2. CASE ~ perContract > 0
        <4>1. DeltaAffordable(s, p) = Affordable(s, p)
          BY <3>2 DEF DeltaAffordable
        <4> QED
          BY <1>1, <1>4, <4>1 DEF Sized, Lesser, AtLeastZero
      <3> QED
        BY <3>1, <3>2
    <2>3. d \in Nat \ {0} /\ n = left \div d
      BY <2>1, <2>2 DEF DeltaAffordable
    <2>4. left < d * (n + 1)
      <3>1. PICK b \in Nat, c \in Nat \ {0} : b = left /\ c = d
        BY <1>2, <2>3
      <3>2. n = b \div c
        BY <2>3, <3>1
      <3>3. b < c * (n + 1)
        BY <3>2, DivisionFloor
      <3> QED
        BY <3>1, <3>3
    <2>5. Abs(TradeDelta(s, p, n + 1)) = perContract * (n + 1)
      <3>1. Spot(s, p) \in Int /\ s.netDelta \in Int
        BY OrIsInt DEF Spot, SpreadType, PortfolioType
      <3>2. PICK x \in Int : x = s.netDelta * Spot(s, p)
        BY <3>1
      <3>3. TradeDelta(s, p, n + 1) = x * (n + 1) /\ TradeDelta(s, p, 1) = x
        BY <3>2 DEF TradeDelta
      <3>4. n + 1 \in Nat
        BY <1>1
      <3> QED
        BY <3>3, <3>4, SizeScales
    <2>6. perContract * (n + 1) \in Int /\ d * (n + 1) = 100 * (perContract * (n + 1))
      BY <1>1, <2>1
    <2> QED
      BY <1>2, <2>4, <2>5, <2>6
  <1> QED
    BY <1>3, <1>4
=============================================================================
