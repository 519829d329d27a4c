---------------------------- MODULE ExitsProofs ----------------------------
(***************************************************************************)
(* Exit management, for any runs, spreads, markets and faults.  What a     *)
(* live cycle spares is inside its band; a leg that has lost its spread is *)
(* on record; and without faults and crashes the leg-by-leg loop           *)
(* implements the atomic one of AtomicExits.                               *)
(***************************************************************************)
EXTENDS Exits, SumTheorems

RowType ==
    [symbol : Contracts, contracts : Int, costBasis : Int, unrealizedPl : Int, dte : Int]

ExitsType ==
    /\ stage \in [Runs -> {"idle", "closing", "done"}]
    /\ view \in [Runs -> SUBSET RowType]
    /\ due \in [Runs -> SUBSET Groups]
    /\ left \in [Runs -> SUBSET Contracts]
    /\ lots \subseteq [spread : Spreads, credit : Nat \ {0}]
    /\ qty \in [Contracts -> Int]
    /\ basis \in [Contracts -> Int]
    /\ mark \in [Contracts -> Nat]
    /\ resting \in [Contracts -> Int]
    /\ today \in Nat /\ crashes \in Nat
    /\ scenario \in Scenarios
    \* Whoever is idle has nothing to close.
    /\ \A r \in Runs : Idle(r) => due[r] = {} /\ left[r] = {}
    \* A close waits for no more than there is.
    /\ \A c \in Contracts : resting[c] # 0 =>
          qty[c] = resting[c] \/ (0 < resting[c] /\ resting[c] < qty[c])

-----------------------------------------------------------------------------
(***************************************************************************)
(* Contracts, rows and types.                                              *)
(***************************************************************************)

LEMMA LegFacts ==
    ASSUME NEW s \in Spreads
    PROVE  /\ Leg(s, "sell") \in Contracts /\ Leg(s, "buy") \in Contracts
           /\ Leg(s, "sell") # Leg(s, "buy")
           /\ Group(Leg(s, "sell")) = Group(Leg(s, "buy"))
           /\ Leg(s, "sell").expiry = s.expiry /\ Leg(s, "buy").expiry = s.expiry
<1>1. s.sell \in Nat /\ s.buy \in Nat /\ s.sell > s.buy
  BY ExitsAssumption
<1>2. Leg(s, "sell").strike = s.sell /\ Leg(s, "buy").strike = s.buy
  BY DEF Leg
<1> QED
  BY <1>1, <1>2 DEF Leg, Group, Contracts

LEMMA ContractFacts ==
    ASSUME NEW c \in Contracts
    PROVE  c.expiry \in Nat /\ Group(c) \in Groups /\ Group(c)[2] = c.expiry
  BY ExitsAssumption DEF Contracts, Leg, Group, Groups

LEMMA ScenarioFacts ==
    ASSUME ExitsType
    PROVE  /\ scenario.runs \subseteq Runs /\ scenario.spreads \subseteq Spreads
           /\ scenario.markets \subseteq [Contracts -> Nat]
           /\ scenario.faults \subseteq AllFaults /\ scenario.crashes \in Nat
  BY ExitsAssumption DEF ExitsType

LEMMA RowHasType ==
    ASSUME ExitsType, NEW c \in Contracts
    PROVE  Row(c) \in RowType
<1>1. PICK q \in Int : q = qty[c]
  BY DEF ExitsType
<1>2. PICK m \in Int : m = mark[c]
  BY DEF ExitsType
<1>3. q * m \in Int
  OBVIOUS
<1>4. qty[c] * mark[c] \in Int
  BY <1>1, <1>2, <1>3
<1> QED
  BY <1>4, ContractFacts DEF Row, RowType, ExitsType

LEMMA RowFields ==
    ASSUME NEW c
    PROVE  /\ Row(c).symbol = c /\ Row(c).contracts = qty[c] /\ Row(c).costBasis = basis[c]
           /\ Row(c).unrealizedPl = qty[c] * mark[c] - basis[c] /\ Row(c).dte = c.expiry - today
  BY DEF Row

LEMMA PositionRows ==
    /\ \A c \in Contracts : qty[c] # 0 => Row(c) \in Positions
    /\ \A p \in Positions : /\ p.symbol \in Contracts /\ qty[p.symbol] # 0
                            /\ p = Row(p.symbol)
<1>1. ASSUME NEW p \in Positions
      PROVE  p.symbol \in Contracts /\ qty[p.symbol] # 0 /\ p = Row(p.symbol)
  <2>1. PICK c \in Contracts : qty[c] # 0 /\ p = Row(c)
    BY DEF Positions
  <2> QED
    BY <2>1, RowFields
<1> QED
  BY <1>1 DEF Positions

LEMMA PositionsHaveType == ExitsType => Positions \subseteq RowType
  BY RowHasType DEF Positions

LEMMA ExitsAreGroups ==
    ASSUME NEW rows \in SUBSET RowType
    PROVE  DecideExits(rows) \subseteq Groups
  BY DEF DecideExits, GroupIntoSpreads, RowType, Groups

LEMMA UpcomingFacts ==
    ASSUME ExitsType, NEW r \in Runs, NEW symbols \in Upcoming(r)
    PROVE  /\ symbols \subseteq Contracts
           /\ left[r] # {} => symbols = left[r]
           /\ left[r] = {} => \E g \in due[r] :
                symbols = {p.symbol : p \in {q \in view[r] : Group(q.symbol) = g}}
  BY DEF Upcoming, ExitsType, RowType

\* One pass of the loop, for a contract c of the group with the contracts symbols.
Pass(r, symbols, c) ==
    /\ ClosePosition(r, c)
    /\ left' = [left EXCEPT ![r] = symbols \ {c}]
    /\ due' = [due EXCEPT ![r] = due[r] \ {Group(c)}]
    /\ stage' = [stage EXCEPT ![r] =
          IF symbols = {c} /\ due[r] \ {Group(c)} = {} THEN "done" ELSE @]

LEMMA ManageExitsPasses ==
    ASSUME NEW r \in Runs, ManageExits(r)
    PROVE  /\ stage[r] = "closing"
           /\ \E symbols \in Upcoming(r) : \E c \in symbols : Pass(r, symbols, c)
           /\ UNCHANGED <<view, lots, mark, today, crashes, scenario>>
  BY DEF ManageExits, Pass

LEMMA KeepsType ==
    ASSUME ExitsType, NEW c \in Contracts, NEW n \in Int, n = 0 \/ qty[c] > 0, Keeps(c, n)
    PROVE  qty' \in [Contracts -> Int] /\ basis' \in [Contracts -> Int]
<1>1. PICK q \in Int : q = qty[c]
  BY DEF ExitsType
<1>2. PICK b \in Int : b = basis[c]
  BY DEF ExitsType
<1>3. PICK p \in Int : p = b * n
  OBVIOUS
<1>4. q > 0 => p \div q \in Int
  BY <1>1, <1>3
<1>5. n # 0 => (b * n) \div q \in Int
  BY <1>1, <1>3, <1>4
<1>6. basis' = [basis EXCEPT ![c] = IF n = 0 THEN 0 ELSE (b * n) \div q]
  BY <1>1, <1>2 DEF Keeps
<1>7. basis \in [Contracts -> Int] /\ qty \in [Contracts -> Int]
  BY DEF ExitsType
<1>8. qty' \in [Contracts -> Int]
  BY <1>7 DEF Keeps
<1>9. CASE n = 0
  BY <1>6, <1>7, <1>8, <1>9
<1>10. CASE n # 0
  BY <1>5, <1>6, <1>7, <1>8, <1>10
<1> QED
  BY <1>9, <1>10

LEMMA GivesUpType ==
    ASSUME ExitsType, NEW c \in Contracts, GivesUp(c)
    PROVE  /\ qty' \in [Contracts -> Int] /\ basis' \in [Contracts -> Int]
           /\ qty' = [qty EXCEPT ![c] = 0]
<1>1. Keeps(c, 0)
  BY DEF GivesUp
<1>2. qty' = [qty EXCEPT ![c] = 0]
  BY <1>1 DEF Keeps
<1> QED
  BY <1>1, <1>2, KeepsType

\* What one close does to the account.
LEMMA CloseFacts ==
    ASSUME ExitsType, NEW r \in Runs, NEW c \in Contracts, ClosePosition(r, c)
    PROVE  /\ qty' \in [Contracts -> Int] /\ basis' \in [Contracts -> Int]
           /\ \/ qty' = qty /\ resting' = resting
              \/ qty' = [qty EXCEPT ![c] = 0] /\ resting[c] = 0 /\ resting' = resting
              \/ qty' = qty /\ resting' = [resting EXCEPT ![c] = qty[c]]
  BY GivesUpType DEF ClosePosition, Closable, ExitsType

LEMMA InitType == Init => ExitsType
<1> SUFFICES ASSUME Init PROVE ExitsType
  OBVIOUS
<1>1. scenario \in Scenarios /\ mark \in [Contracts -> Nat]
  BY ExitsAssumption DEF Init
<1> QED
  BY <1>1 DEF Init, ExitsType, Idle

LEMMA BuildPortfolioType ==
    ASSUME ExitsType, NEW r \in Runs, BuildPortfolio(r) PROVE ExitsType'
<1>1. Positions \subseteq RowType /\ DecideExits(Positions) \subseteq Groups
  BY PositionsHaveType, ExitsAreGroups
<1>2. PICK rows : rows = Positions
  OBVIOUS
<1>3. PICK exits : exits = DecideExits(Positions)
  OBVIOUS
<1>4. /\ view' = [view EXCEPT ![r] = rows] /\ due' = [due EXCEPT ![r] = exits]
      /\ stage' = [stage EXCEPT ![r] = IF exits = {} THEN "done" ELSE "closing"]
      /\ left[r] = {}
      /\ UNCHANGED <<left, lots, qty, basis, resting, mark, today, crashes, scenario>>
  BY <1>2, <1>3 DEF BuildPortfolio, account, ExitsType
<1>5. rows \subseteq RowType /\ exits \subseteq Groups
  BY <1>1, <1>2, <1>3
<1> HIDE DEF RowType
<1> QED
  BY <1>4, <1>5 DEF ExitsType, Idle

LEMMA ManageExitsType ==
    ASSUME ExitsType, NEW r \in Runs, ManageExits(r) PROVE ExitsType'
<1>1. PICK symbols \in Upcoming(r) : \E c \in symbols : Pass(r, symbols, c)
  BY ManageExitsPasses
<1>0. PICK c \in symbols : Pass(r, symbols, c)
  BY <1>1
<1>2. symbols \subseteq Contracts
  BY UpcomingFacts
<1>3. /\ qty' \in [Contracts -> Int] /\ basis' \in [Contracts -> Int]
      /\ resting' \in [Contracts -> Int]
      /\ \A d \in Contracts : resting'[d] # 0 =>
            qty'[d] = resting'[d] \/ (0 < resting'[d] /\ resting'[d] < qty'[d])
  BY <1>0, <1>2, CloseFacts DEF Pass, ExitsType
<1>4. stage[r] = "closing" /\ UNCHANGED <<view, lots, mark, today, crashes, scenario>>
  BY ManageExitsPasses
<1>5. \A x \in Runs : Idle(x)' => due'[x] = {} /\ left'[x] = {}
  BY <1>0, <1>4 DEF Pass, ExitsType, Idle
<1> QED
  BY <1>0, <1>2, <1>3, <1>4, <1>5 DEF Pass, ExitsType

LEMMA CrashType ==
    ASSUME ExitsType, NEW r \in Runs, Crash(r) PROVE ExitsType'
<1>1. /\ qty' \in [Contracts -> Int] /\ basis' \in [Contracts -> Int]
      /\ \A d \in Contracts : qty'[d] = qty[d] \/ resting[d] = 0
  BY UpcomingFacts, GivesUpType DEF Crash, Closable, ExitsType
<1> QED
  BY <1>1 DEF Crash, ExitsType, Idle

LEMMA OpenSpreadType ==
    ASSUME ExitsType, NEW s \in Spreads, OpenSpread(s) PROVE ExitsType'
<1> DEFINE sell == Leg(s, "sell")
           buy == Leg(s, "buy")
<1>1. sell \in Contracts /\ buy \in Contracts
  BY LegFacts
<1> HIDE DEF sell, buy
<1>2. mark[sell] \in Nat /\ mark[buy] \in Nat /\ mark[sell] > mark[buy]
  BY <1>1 DEF OpenSpread, ExitsType, sell, buy
<1>3. mark[sell] - mark[buy] \in Nat \ {0}
  BY <1>2
<1>4. qty' \in [Contracts -> Int] /\ basis' \in [Contracts -> Int]
  BY <1>1, <1>2 DEF OpenSpread, ExitsType, sell, buy
<1>6. \A d \in Contracts : resting'[d] # 0 =>
        qty'[d] = resting'[d] \/ (0 < resting'[d] /\ resting'[d] < qty'[d])
  BY <1>1 DEF OpenSpread, ExitsType, sell, buy
<1>5. lots' \subseteq [spread : Spreads, credit : Nat \ {0}]
  BY <1>3 DEF OpenSpread, ExitsType, sell, buy
<1> QED
  BY <1>4, <1>5, <1>6 DEF OpenSpread, runVars, ExitsType, Idle

LEMMA FillCloseType ==
    ASSUME ExitsType, NEW c \in Contracts, FillClose(c) PROVE ExitsType'
<1>1. /\ resting[c] # 0 /\ resting' = [resting EXCEPT ![c] = 0]
      /\ Keeps(c, qty[c] - resting[c])
      /\ resting[c] \in Int /\ qty[c] \in Int
  BY DEF FillClose, ExitsType
<1>2. qty[c] - resting[c] \in Int /\ (qty[c] - resting[c] = 0 \/ qty[c] > 0)
  BY <1>1 DEF ExitsType
<1>3. qty' \in [Contracts -> Int] /\ basis' \in [Contracts -> Int]
  BY <1>1, <1>2, KeepsType
<1>4. \A d \in Contracts : d # c => qty'[d] = qty[d]
  BY <1>1 DEF Keeps, ExitsType
<1>5. /\ resting' \in [Contracts -> Int] /\ resting'[c] = 0
      /\ \A d \in Contracts : d # c => resting'[d] = resting[d]
  BY <1>1 DEF ExitsType
<1>6. \A d \in Contracts : resting'[d] # 0 =>
        qty'[d] = resting'[d] \/ (0 < resting'[d] /\ resting'[d] < qty'[d])
  BY <1>4, <1>5 DEF ExitsType
<1>7. UNCHANGED <<stage, view, due, left, lots, mark, today, crashes, scenario>>
  BY DEF FillClose, runVars
<1> QED
  BY <1>3, <1>5, <1>6, <1>7 DEF ExitsType, Idle

LEMMA StepType == ASSUME ExitsType, [Next]_vars PROVE ExitsType'
<1>1. ASSUME NEW r \in Runs, BuildPortfolio(r) \/ ManageExits(r) \/ Crash(r) PROVE ExitsType'
  BY <1>1, BuildPortfolioType, ManageExitsType, CrashType
<1>2. ASSUME NEW s \in scenario.spreads, OpenSpread(s) PROVE ExitsType'
  BY <1>2, ScenarioFacts, OpenSpreadType
<1>3. ASSUME NEW c \in Contracts, FillClose(c) PROVE ExitsType'
  BY <1>3, FillCloseType
<1>4. CASE MoveMarket
  BY <1>4, ScenarioFacts DEF MoveMarket, runVars, account, ExitsType, Idle
<1>5. CASE NextDay
  BY <1>5 DEF NextDay, runVars, ExitsType, Idle
<1>6. CASE UNCHANGED vars
  BY <1>6 DEF vars, runVars, account, ExitsType, Idle
<1> QED
  BY <1>1, <1>2, <1>3, <1>4, <1>5, <1>6 DEF Next
-----------------------------------------------------------------------------
(***************************************************************************)
(* Without faults and crashes the loop is atomic.                          *)
(***************************************************************************)

\* What run r has read of contract c is what the account still holds.
Agrees(r, c) ==
    /\ qty[c] # 0 => \E p \in view[r] : p.symbol = c
    /\ \A p \in view[r] : p.symbol = c => p.contracts = qty[c] /\ qty[c] # 0

\* One run at a time; what it has not begun to close is still as it has read it,
\* and of the group it has begun, the account holds only what is left.
Undisturbed ==
    /\ crashes = 0 /\ \A c \in Contracts : resting[c] = 0
    /\ \A r, s \in Runs : ~ Idle(r) /\ ~ Idle(s) => r = s
    /\ \A c \in Contracts : qty[c] # 0 => c.expiry >= today
    /\ \A r \in Live : \A c \in Contracts :
          Group(c) \in due[r] /\ c.expiry >= today => Agrees(r, c)
    /\ \A r \in Live : \A c \in left[r] :
          /\ Group(c) \notin due[r]
          /\ \A d \in left[r] : Group(d) = Group(c)
          /\ \A d \in Contracts : Group(d) = Group(c) /\ qty[d] # 0 => d \in left[r]

CalmInv == ExitsType /\ (Calm => Undisturbed)

LEMMA InitUndisturbed == Init => Undisturbed
  BY ExitsAssumption DEF Init, Undisturbed, Idle

LEMMA BuildPortfolioUndisturbed ==
    ASSUME ExitsType, Calm, Undisturbed, NEW r \in Runs, BuildPortfolio(r)
    PROVE  Undisturbed'
<1>1. \A x \in Runs : Idle(x) /\ due[x] = {} /\ left[x] = {}
  BY DEF BuildPortfolio, Calm, Faults, ExitsType
<1>2. PICK rows : rows = Positions
  OBVIOUS
<1>3. PICK exits : exits = DecideExits(Positions)
  OBVIOUS
<1>4. /\ view' = [view EXCEPT ![r] = rows] /\ due' = [due EXCEPT ![r] = exits]
      /\ \A x \in Runs : stage'[x] # stage[x] => x = r
      /\ UNCHANGED <<left, qty, resting, today, crashes>>
  BY <1>2, <1>3 DEF BuildPortfolio, account, ExitsType
<1>5. \A c \in Contracts :
        /\ qty[c] # 0 => \E p \in rows : p.symbol = c
        /\ \A p \in rows : p.symbol = c => p.contracts = qty[c] /\ qty[c] # 0
  BY <1>2, PositionRows, RowFields
<1>6. \A x \in Live : \A c \in Contracts :
        Group(c) \in due'[x] /\ c.expiry >= today' => Agrees(x, c)'
  BY <1>1, <1>4, <1>5, ExitsAssumption DEF Agrees, ExitsType
<1>7. \A x, s \in Runs : ~ Idle(x)' /\ ~ Idle(s)' => x = s
  BY <1>1, <1>4 DEF Idle
<1> QED
  BY <1>1, <1>4, <1>6, <1>7, ExitsAssumption DEF Undisturbed

\* Without faults a close succeeds or has nothing to close.
LEMMA CalmClose ==
    ASSUME ExitsType, Calm, Undisturbed, NEW r \in Runs, NEW c \in Contracts,
           ClosePosition(r, c)
    PROVE  /\ resting' = resting
           /\ r \in Live => qty' = [qty EXCEPT ![c] = 0]
           /\ r \notin Live => qty' = qty
<1>1. Faults = {} /\ resting[c] = 0 /\ qty \in [Contracts -> Int]
  BY DEF Calm, Undisturbed, ExitsType
<1>2. CASE qty[c] = 0
  <2>1. qty = [qty EXCEPT ![c] = 0]
    BY <1>1, <1>2
  <2> QED
    BY <1>1, <1>2, <2>1 DEF ClosePosition, Closable
<1>3. CASE qty[c] # 0
  BY <1>1, <1>3 DEF ClosePosition, Closable, GivesUp, Keeps
<1> QED
  BY <1>2, <1>3

\* The contracts of the group that a live run is closing, or turns to.
LEMMA CalmUpcoming ==
    ASSUME ExitsType, Calm, Undisturbed, NEW r \in Live, NEW symbols \in Upcoming(r),
           NEW c \in symbols
    PROVE  /\ c \in Contracts
           /\ \A d \in symbols : Group(d) = Group(c)
           /\ \A d \in Contracts : Group(d) = Group(c) /\ qty[d] # 0 => d \in symbols
<1> r \in Runs
  BY ExitsAssumption
<1>1. symbols \subseteq Contracts
  BY UpcomingFacts
<1>2. CASE left[r] # {}
  BY <1>1, <1>2, UpcomingFacts DEF Undisturbed
<1>3. CASE left[r] = {}
  <2>1. PICK g \in due[r] :
          symbols = {p.symbol : p \in {q \in view[r] : Group(q.symbol) = g}}
    BY <1>3, UpcomingFacts
  <2>2. Group(c) = g /\ \A d \in symbols : Group(d) = g
    BY <2>1
  <2>3. ASSUME NEW d \in Contracts, Group(d) = g, qty[d] # 0 PROVE d \in symbols
    BY <2>1, <2>3 DEF Undisturbed, Agrees
  <2> QED
    BY <1>1, <2>2, <2>3
<1> QED
  BY <1>2, <1>3

LEMMA ManageExitsUndisturbed ==
    ASSUME ExitsType, Calm, Undisturbed, NEW r \in Runs, ManageExits(r)
    PROVE  Undisturbed'
<1>1. PICK symbols \in Upcoming(r) : \E c \in symbols : Pass(r, symbols, c)
  BY ManageExitsPasses
<1>2. PICK c \in symbols : Pass(r, symbols, c)
  BY <1>1
<1>3. /\ stage[r] = "closing" /\ UNCHANGED <<view, today, crashes>>
      /\ left' = [left EXCEPT ![r] = symbols \ {c}]
      /\ due' = [due EXCEPT ![r] = due[r] \ {Group(c)}]
      /\ \A x \in Runs : stage'[x] # stage[x] => x = r
  BY <1>2, ManageExitsPasses DEF Pass, ExitsType
<1>4. \A x \in Runs : x # r => Idle(x) /\ due[x] = {} /\ left[x] = {} /\ stage'[x] = stage[x]
  BY <1>3 DEF Undisturbed, ExitsType, Idle
<1>5. c \in Contracts
  BY UpcomingFacts
<1>6. /\ resting' = resting
      /\ r \in Live => qty' = [qty EXCEPT ![c] = 0]
      /\ r \notin Live => qty' = qty
  BY <1>2, <1>5, CalmClose DEF Pass
<1>7. \A x, s \in Runs : ~ Idle(x)' /\ ~ Idle(s)' => x = s
  BY <1>4 DEF Idle
<1>8. CASE r \notin Live
  BY <1>3, <1>4, <1>6, <1>7, <1>8, ExitsAssumption DEF Undisturbed, Agrees, ExitsType
<1>9. CASE r \in Live
  <2>1. qty' = [qty EXCEPT ![c] = 0] /\ qty \in [Contracts -> Int]
    BY <1>6, <1>9 DEF ExitsType
  <2>2. /\ \A d \in symbols : Group(d) = Group(c)
        /\ \A d \in Contracts : Group(d) = Group(c) /\ qty[d] # 0 => d \in symbols
    BY <1>9, CalmUpcoming
  <2>3. \A d \in Contracts : qty'[d] # 0 => qty[d] # 0 /\ d # c
    BY <2>1
  <2>4. left'[r] = symbols \ {c} /\ due'[r] = due[r] \ {Group(c)}
    BY <1>3 DEF ExitsType
  <2>5. \A d \in left'[r] :
          /\ Group(d) \notin due'[r]
          /\ \A e \in left'[r] : Group(e) = Group(d)
          /\ \A e \in Contracts : Group(e) = Group(d) /\ qty'[e] # 0 => e \in left'[r]
    BY <2>2, <2>3, <2>4
  <2>6. ASSUME NEW d \in Contracts, Group(d) \in due'[r], d.expiry >= today'
        PROVE  Agrees(r, d)'
    <3>1. Group(d) \in due[r] /\ d # c
      BY <2>4, <2>6
    <3>2. Agrees(r, d)
      BY <1>3, <1>9, <2>6, <3>1 DEF Undisturbed
    <3> QED
      BY <1>3, <2>1, <3>1, <3>2 DEF Agrees
  <2>7. \A x \in Live : x # r => due'[x] = {} /\ left'[x] = {}
    BY <1>3, <1>4, ExitsAssumption DEF ExitsType
  <2>8. \A d \in Contracts : qty'[d] # 0 => d.expiry >= today'
    BY <1>3, <2>3 DEF Undisturbed
  <2>9. crashes' = 0 /\ \A d \in Contracts : resting'[d] = 0
    BY <1>3, <1>6 DEF Undisturbed
  <2> QED
    BY <1>7, <2>5, <2>6, <2>7, <2>8, <2>9 DEF Undisturbed
<1> QED
  BY <1>8, <1>9

LEMMA OpenSpreadUndisturbed ==
    ASSUME ExitsType, Calm, Undisturbed, NEW s \in Spreads, OpenSpread(s)
    PROVE  Undisturbed'
<1> DEFINE sell == Leg(s, "sell")
           buy == Leg(s, "buy")
<1>1. \A x \in Runs : Idle(x) /\ due[x] = {} /\ left[x] = {}
  BY DEF OpenSpread, Calm, Faults, ExitsType
<1>2. s.expiry - today > DteFloor /\ s.expiry \in Nat /\ today \in Nat /\ DteFloor \in Nat
  BY ExitsAssumption DEF OpenSpread, ExitsType
<1>3. sell.expiry >= today /\ buy.expiry >= today
  BY <1>2, LegFacts
<1>4. \A c \in Contracts : qty'[c] # 0 => qty[c] # 0 \/ c = sell \/ c = buy
  BY DEF OpenSpread, ExitsType
<1> HIDE DEF sell, buy
<1>5. UNCHANGED <<stage, view, due, left, resting, today, crashes>>
  BY DEF OpenSpread, runVars
<1> QED
  BY <1>1, <1>3, <1>4, <1>5, ExitsAssumption DEF Undisturbed, Idle

LEMMA NextDayUndisturbed ==
    ASSUME ExitsType, Calm, Undisturbed, NextDay
    PROVE  Undisturbed'
<1>1. today \in Nat /\ today' = today + 1 /\ UNCHANGED <<stage, view, due, left, crashes>>
  BY DEF NextDay, runVars, ExitsType
<1>2. \A c \in Contracts : qty'[c] = IF c.expiry <= today THEN 0 ELSE qty[c]
  BY DEF NextDay
<1>3. ASSUME NEW c \in Contracts, qty'[c] # 0 PROVE qty[c] # 0 /\ c.expiry >= today'
  <2>1. c.expiry \in Nat /\ ~ (c.expiry <= today) /\ qty[c] # 0
    BY <1>2, <1>3, ContractFacts
  <2> QED
    BY <1>1, <2>1
<1>4. ASSUME NEW r \in Live, NEW c \in Contracts, Group(c) \in due'[r], c.expiry >= today'
      PROVE  Agrees(r, c)'
  <2>1. c.expiry \in Nat
    BY ContractFacts
  <2>2. c.expiry >= today /\ ~ (c.expiry <= today)
    BY <1>1, <1>4, <2>1
  <2>3. Agrees(r, c)
    BY <1>1, <1>4, <2>2 DEF Undisturbed
  <2>4. qty'[c] = qty[c]
    BY <1>2, <2>2
  <2> QED
    BY <1>1, <2>3, <2>4 DEF Agrees
<1>5. \A c \in Contracts : resting'[c] = 0
  BY DEF NextDay
<1> QED
  BY <1>1, <1>3, <1>4, <1>5 DEF Undisturbed, Idle

LEMMA StepCalmInv == ASSUME CalmInv, [Next]_vars PROVE CalmInv'
<1>1. scenario' = scenario
  BY DEF Next, BuildPortfolio, ManageExits, Crash, OpenSpread, FillClose, MoveMarket, NextDay, vars
<1> SUFFICES ASSUME Calm PROVE Undisturbed'
  BY <1>1, StepType DEF CalmInv, Calm, Faults
<1> ExitsType /\ Undisturbed
  BY DEF CalmInv
<1>2. ASSUME NEW r \in Runs, BuildPortfolio(r) \/ ManageExits(r) PROVE Undisturbed'
  BY <1>2, BuildPortfolioUndisturbed, ManageExitsUndisturbed
<1>3. ASSUME NEW r \in Runs, Crash(r) PROVE FALSE
  BY <1>3 DEF Crash, Calm, Undisturbed
<1>4. ASSUME NEW s \in scenario.spreads, OpenSpread(s) PROVE Undisturbed'
  BY <1>4, ScenarioFacts, OpenSpreadUndisturbed
<1>5. ASSUME NEW c \in Contracts, FillClose(c) PROVE FALSE
  BY <1>5 DEF Undisturbed, FillClose
<1>6. CASE MoveMarket \/ UNCHANGED vars
  BY <1>6 DEF MoveMarket, vars, runVars, account, Undisturbed, Agrees, Idle
<1>7. CASE NextDay
  BY <1>7, NextDayUndisturbed
<1> QED
  BY <1>2, <1>3, <1>4, <1>5, <1>6, <1>7 DEF Next
-----------------------------------------------------------------------------
\* What AtomicExits is told of the state.
Book == [g \in Groups |-> Holding(g)]
Judged == (UNION {due[r] : r \in Live}) \cup {g \in Groups : InProgress[g] # {}}

\* What the account holds of group g, and what run r has read of it.
HeldOf(g) ==
    {<<c, qty[c]>> : c \in {d \in Contracts : Group(d) = g /\ qty[d] # 0 /\ d.expiry >= today}}

Seen(r, g) ==
    {<<p.symbol, p.contracts>> : p \in {q \in view[r] :
        Group(q.symbol) = g /\ q.symbol.expiry >= today}}

LEMMA HeldIsHeld ==
    \A g \in Groups : InProgress[g] = {} => Holding(g) = HeldOf(g)
<1> SUFFICES ASSUME NEW g \in Groups, InProgress[g] = {} PROVE Holding(g) = HeldOf(g)
  OBVIOUS
<1>1. Holding(g) = {<<p.symbol, p.contracts>> : p \in {q \in Positions :
                        Group(q.symbol) = g /\ q.symbol.expiry >= today}}
  BY DEF Holding
<1>2. ASSUME NEW x \in Holding(g) PROVE x \in HeldOf(g)
  <2>1. PICK p \in Positions : /\ Group(p.symbol) = g /\ p.symbol.expiry >= today
                               /\ x = <<p.symbol, p.contracts>>
    BY <1>1, <1>2
  <2>2. p.symbol \in Contracts /\ qty[p.symbol] # 0 /\ p.contracts = qty[p.symbol]
    BY <2>1, PositionRows, RowFields
  <2> QED
    BY <2>1, <2>2 DEF HeldOf
<1>3. ASSUME NEW x \in HeldOf(g) PROVE x \in Holding(g)
  <2>1. PICK c \in Contracts : /\ Group(c) = g /\ qty[c] # 0 /\ c.expiry >= today
                               /\ x = <<c, qty[c]>>
    BY <1>3 DEF HeldOf
  <2>2. Row(c) \in Positions /\ Row(c).symbol = c /\ Row(c).contracts = qty[c]
    BY <2>1, PositionRows, RowFields
  <2> QED
    BY <1>1, <2>1, <2>2
<1> QED
  BY <1>2, <1>3

LEMMA SeenIsHeld ==
    \A g \in Groups, r \in Runs : InProgress[g] = {r} => Holding(g) = Seen(r, g)
<1> SUFFICES ASSUME NEW g \in Groups, NEW r \in Runs, InProgress[g] = {r}
             PROVE  Holding(g) = Seen(r, g)
  OBVIOUS
<1>1. UNION {view[x] : x \in InProgress[g]} = view[r] /\ InProgress[g] # {}
  OBVIOUS
<1> QED
  BY <1>1 DEF Holding, Seen

\* The same of the next state.
LEMMA NextHolding ==
    /\ \A g \in Groups : InProgress'[g] = {} => Holding(g)' = HeldOf(g)'
    /\ \A g \in Groups, r \in Runs : InProgress'[g] = {r} => Holding(g)' = Seen(r, g)'
<1>1. (\A g \in Groups : InProgress[g] = {} => Holding(g) = HeldOf(g))'
  BY HeldIsHeld, PTL
<1>2. (\A g \in Groups, r \in Runs : InProgress[g] = {r} => Holding(g) = Seen(r, g))'
  BY SeenIsHeld, PTL
<1> QED
  BY <1>1, <1>2

LEMMA NothingInProgress ==
    ASSUME \A r \in Live : left[r] = {}
    PROVE  \A g \in Groups : InProgress[g] = {} /\ Holding(g) = HeldOf(g)
  BY HeldIsHeld DEF InProgress

LEMMA BuildPortfolioRefines ==
    ASSUME ExitsType, Calm, Undisturbed, NEW r \in Runs, BuildPortfolio(r)
    PROVE  Book' = Book /\ today' = today /\ Judged \subseteq Judged'
<1>1. \A x \in Live : due[x] = {} /\ left[x] = {} /\ left'[x] = {}
  BY ExitsAssumption DEF BuildPortfolio, Calm, Faults, ExitsType
<1>2. UNCHANGED <<qty, today>>
  BY DEF BuildPortfolio, account
<1>3. \A g \in Groups : InProgress[g] = {} /\ InProgress'[g] = {}
  BY <1>1 DEF InProgress
<1>4. \A g \in Groups : Holding(g) = HeldOf(g) /\ Holding(g)' = HeldOf(g)'
  BY <1>3, HeldIsHeld, NextHolding
<1>5. \A g \in Groups : HeldOf(g)' = HeldOf(g)
  BY <1>2 DEF HeldOf
<1>6. Judged = {}
  BY <1>1, <1>3 DEF Judged
<1> QED
  BY <1>2, <1>4, <1>5, <1>6 DEF Book

LEMMA DryRunRefines ==
    ASSUME ExitsType, Calm, Undisturbed, NEW r \in Runs, r \notin Live, ManageExits(r)
    PROVE  Book' = Book /\ today' = today /\ Judged' = Judged
<1>1. PICK symbols \in Upcoming(r) : \E c \in symbols : Pass(r, symbols, c)
  BY ManageExitsPasses
<1>2. PICK c \in symbols : Pass(r, symbols, c)
  BY <1>1
<1>3. qty' = qty
  BY <1>2, UpcomingFacts, CalmClose DEF Pass
<1>4. UNCHANGED <<view, mark, today>> /\ \A x \in Live : left'[x] = left[x] /\ due'[x] = due[x]
  BY <1>2, ManageExitsPasses, ExitsAssumption DEF Pass, ExitsType
<1>5. \A g \in Groups : InProgress'[g] = InProgress[g]
  BY <1>4 DEF InProgress
<1>6. Judged' = Judged
  <2>1. {due'[x] : x \in Live} = {due[x] : x \in Live}
    BY <1>4
  <2> QED
    BY <1>5, <2>1 DEF Judged
<1>7. \A g \in Groups : Holding(g)' = Holding(g)
  <2> SUFFICES ASSUME NEW g \in Groups PROVE Holding(g)' = Holding(g)
    OBVIOUS
  <2>1. CASE InProgress[g] = {}
    BY <1>3, <1>4, <1>5, <2>1, HeldIsHeld, NextHolding DEF HeldOf
  <2>2. CASE InProgress[g] # {}
    BY <1>4, <1>5, <2>2 DEF Holding
  <2> QED
    BY <2>1, <2>2
<1> QED
  BY <1>4, <1>6, <1>7 DEF Book

LEMMA LiveRunRefines ==
    ASSUME ExitsType, Calm, Undisturbed, NEW r \in Runs, r \in Live, ManageExits(r)
    PROVE  /\ today' = today
           /\ \/ Book' = Book /\ Judged' = Judged
              \/ \E g \in Groups : /\ g \in Judged /\ Judged' = Judged \ {g}
                                   /\ Book' = [Book EXCEPT ![g] = {}]
<1>1. PICK symbols \in Upcoming(r) : \E c \in symbols : Pass(r, symbols, c)
  BY ManageExitsPasses
<1>2. PICK c \in symbols : Pass(r, symbols, c)
  BY <1>1
<1>3. /\ stage[r] = "closing" /\ UNCHANGED <<view, today>>
      /\ left' = [left EXCEPT ![r] = symbols \ {c}]
      /\ due' = [due EXCEPT ![r] = due[r] \ {Group(c)}]
  BY <1>2, ManageExitsPasses DEF Pass
<1>4. /\ \A x \in Live : x # r => /\ due[x] = {} /\ left[x] = {}
                                 /\ due'[x] = {} /\ left'[x] = {}
      /\ left'[r] = symbols \ {c} /\ due'[r] = due[r] \ {Group(c)}
  BY <1>3, ExitsAssumption DEF Undisturbed, ExitsType, Idle
<1>5. /\ c \in Contracts /\ \A d \in symbols : Group(d) = Group(c)
      /\ \A d \in Contracts : Group(d) = Group(c) /\ qty[d] # 0 => d \in symbols
  BY CalmUpcoming
<1>6. qty' = [qty EXCEPT ![c] = 0] /\ qty \in [Contracts -> Int]
  BY <1>2, <1>5, CalmClose DEF Pass, ExitsType
<1>7. PICK g \in Groups : g = Group(c)
  BY <1>5, ContractFacts
<1>8. /\ left[r] # {} => symbols = left[r]
      /\ left[r] = {} => g \in due[r]
  <2>1. ASSUME left[r] = {} PROVE g \in due[r]
    <3>1. PICK h \in due[r] :
            symbols = {p.symbol : p \in {q \in view[r] : Group(q.symbol) = h}}
      BY <2>1, UpcomingFacts
    <3> QED
      BY <1>7, <3>1
  <2> QED
    BY <2>1, UpcomingFacts
<1>9. \A h \in Groups :
        /\ InProgress[h] = IF h = g /\ left[r] # {} THEN {r} ELSE {}
        /\ InProgress'[h] = IF h = g /\ symbols # {c} THEN {r} ELSE {}
  <2> SUFFICES ASSUME NEW h \in Groups
               PROVE  /\ InProgress[h] = IF h = g /\ left[r] # {} THEN {r} ELSE {}
                      /\ InProgress'[h] = IF h = g /\ symbols # {c} THEN {r} ELSE {}
    OBVIOUS
  <2>1. /\ InProgress[h] = {x \in Live : \E d \in left[x] : Group(d) = h}
        /\ InProgress'[h] = {x \in Live : \E d \in left'[x] : Group(d) = h}
    BY DEF InProgress
  <2>2. (\E d \in left[r] : Group(d) = h) <=> h = g /\ left[r] # {}
    BY <1>5, <1>7, <1>8
  <2>3. (\E d \in left'[r] : Group(d) = h) <=> h = g /\ symbols # {c}
    BY <1>4, <1>5, <1>7
  <2>4. InProgress[h] = IF h = g /\ left[r] # {} THEN {r} ELSE {}
    BY <1>4, <2>1, <2>2
  <2>5. InProgress'[h] = IF h = g /\ symbols # {c} THEN {r} ELSE {}
    BY <1>4, <2>1, <2>3
  <2> QED
    BY <2>4, <2>5
<1>10. \A h \in Groups : h # g => Holding(h)' = Holding(h)
  <2> SUFFICES ASSUME NEW h \in Groups, h # g PROVE Holding(h)' = Holding(h)
    OBVIOUS
  <2>1. Holding(h)' = HeldOf(h)' /\ Holding(h) = HeldOf(h)
    BY <1>9, HeldIsHeld, NextHolding
  <2>2. \A d \in Contracts : Group(d) = h => qty'[d] = qty[d]
    BY <1>6, <1>7
  <2> QED
    BY <1>3, <2>1, <2>2 DEF HeldOf
<1>11. /\ g \in Judged
       /\ Judged' = IF symbols = {c} THEN Judged \ {g} ELSE Judged
  <2>1. /\ UNION {due[x] : x \in Live} = due[r]
        /\ UNION {due'[x] : x \in Live} = due[r] \ {g}
    BY <1>4, <1>7
  <2>2. /\ {h \in Groups : InProgress[h] # {}} = IF left[r] # {} THEN {g} ELSE {}
        /\ {h \in Groups : InProgress'[h] # {}} = IF symbols # {c} THEN {g} ELSE {}
    BY <1>9
  <2>3. left[r] # {} => g \notin due[r]
    BY <1>7, <1>8 DEF Undisturbed
  <2>4. /\ Judged = due[r] \cup (IF left[r] # {} THEN {g} ELSE {})
        /\ Judged' = (due[r] \ {g}) \cup (IF symbols # {c} THEN {g} ELSE {})
    BY <2>1, <2>2 DEF Judged
  <2> QED
    BY <1>8, <2>3, <2>4
<1>12. CASE symbols # {c}
  <2>1. Holding(g)' = Seen(r, g)' /\ Seen(r, g)' = Seen(r, g)
    BY <1>3, <1>9, <1>12, NextHolding DEF Seen
  <2>2. CASE left[r] # {}
    <3>1. Holding(g) = Seen(r, g)
      BY <1>9, <2>2, SeenIsHeld
    <3> QED
      BY <1>3, <1>10, <1>11, <1>12, <2>1, <3>1 DEF Book
  <2>3. CASE left[r] = {}
    <3>1. Holding(g) = HeldOf(g)
      BY <1>9, <2>3, HeldIsHeld
    <3>2. \A d \in Contracts : Group(d) = g /\ d.expiry >= today => Agrees(r, d)
      BY <1>8, <2>3 DEF Undisturbed
    <3>3. ASSUME NEW x \in HeldOf(g) PROVE x \in Seen(r, g)
      <4>1. PICK d \in Contracts : /\ Group(d) = g /\ qty[d] # 0 /\ d.expiry >= today
                                   /\ x = <<d, qty[d]>>
        BY <3>3 DEF HeldOf
      <4> QED
        BY <3>2, <4>1 DEF Agrees, Seen
    <3>4. ASSUME NEW x \in Seen(r, g) PROVE x \in HeldOf(g)
      <4>1. PICK p \in view[r] : /\ Group(p.symbol) = g /\ p.symbol.expiry >= today
                                 /\ x = <<p.symbol, p.contracts>>
        BY <3>4 DEF Seen
      <4>2. p.symbol \in Contracts
        BY <4>1 DEF ExitsType, RowType
      <4> QED
        BY <3>2, <4>1, <4>2 DEF Agrees, HeldOf
    <3>5. Holding(g)' = Holding(g)
      BY <2>1, <3>1, <3>3, <3>4
    <3> QED
      BY <1>3, <1>10, <1>11, <1>12, <3>5 DEF Book
  <2> QED
    BY <2>2, <2>3
<1>13. CASE symbols = {c}
  <2>1. Holding(g)' = HeldOf(g)'
    BY <1>9, <1>13, NextHolding
  <2>2. \A d \in Contracts : Group(d) = g => qty'[d] = 0
    BY <1>5, <1>6, <1>7, <1>13
  <2>3. Holding(g)' = {}
    BY <2>1, <2>2 DEF HeldOf
  <2>4. Book' = [Book EXCEPT ![g] = {}]
    BY <1>10, <2>3 DEF Book
  <2> QED
    BY <1>3, <1>11, <1>13, <2>4
<1> QED
  BY <1>12, <1>13

LEMMA OpenSpreadRefines ==
    ASSUME ExitsType, Calm, Undisturbed, NEW s \in Spreads, OpenSpread(s)
    PROVE  /\ today' = today /\ Judged' = Judged
           /\ \E g \in Groups : /\ g \notin Judged /\ Book'[g] # {}
                                /\ Book' = [Book EXCEPT ![g] = Book'[g]]
<1> DEFINE sell == Leg(s, "sell")
           buy == Leg(s, "buy")
<1>1. \A x \in Live : due[x] = {} /\ left[x] = {}
  BY ExitsAssumption DEF OpenSpread, Calm, Faults, ExitsType
<1>2. UNCHANGED <<due, left, view, today>>
  BY DEF OpenSpread, runVars
<1>3. \A h \in Groups : /\ InProgress[h] = {} /\ InProgress'[h] = {}
                        /\ Holding(h) = HeldOf(h) /\ Holding(h)' = HeldOf(h)'
  <2>1. \A h \in Groups : InProgress[h] = {} /\ InProgress'[h] = {}
    BY <1>1, <1>2 DEF InProgress
  <2> QED
    BY <2>1, HeldIsHeld, NextHolding
<1>4. Judged = {} /\ Judged' = {}
  BY <1>1, <1>2, <1>3 DEF Judged
<1>5. sell \in Contracts /\ buy \in Contracts /\ sell # buy /\ Group(buy) = Group(sell)
  BY LegFacts
<1>6. /\ qty'[sell] = -1
      /\ \A d \in Contracts : d # sell /\ d # buy => qty'[d] = qty[d]
  BY <1>5 DEF OpenSpread, ExitsType
<1>7. sell.expiry >= today
  <2>1. s.expiry - today > DteFloor /\ s.expiry \in Nat /\ today \in Nat /\ DteFloor \in Nat
    BY ExitsAssumption DEF OpenSpread, ExitsType
  <2>2. s.expiry >= today
    BY <2>1
  <2> QED
    BY <2>2, LegFacts
<1> HIDE DEF sell, buy
<1>8. PICK g \in Groups : g = Group(sell)
  BY <1>5, ContractFacts
<1>9. \A h \in Groups : h # g => Holding(h)' = Holding(h)
  <2> SUFFICES ASSUME NEW h \in Groups, h # g PROVE HeldOf(h)' = HeldOf(h)
    BY <1>3
  <2>1. \A d \in Contracts : Group(d) = h => qty'[d] = qty[d]
    BY <1>5, <1>6, <1>8
  <2> QED
    BY <1>2, <2>1 DEF HeldOf
<1>10. <<sell, qty'[sell]>> \in Holding(g)'
  BY <1>2, <1>3, <1>5, <1>6, <1>7, <1>8 DEF HeldOf
<1>11. Book'[g] # {} /\ Book' = [Book EXCEPT ![g] = Book'[g]]
  BY <1>9, <1>10 DEF Book
<1> QED
  BY <1>2, <1>4, <1>11

LEMMA NextDayRefines ==
    ASSUME ExitsType, Calm, Undisturbed, NextDay
    PROVE  /\ today' = today + 1 /\ Judged' = Judged
           /\ Book' = [g \in Groups |-> IF g[2] <= today THEN {} ELSE Book[g]]
<1>1. today \in Nat /\ today' = today + 1 /\ UNCHANGED <<stage, view, due, left>>
  BY DEF NextDay, runVars, ExitsType
<1>2. \A c \in Contracts : qty'[c] = IF c.expiry <= today THEN 0 ELSE qty[c]
  BY DEF NextDay
<1>3. \A h \in Groups : InProgress'[h] = InProgress[h]
  BY <1>1 DEF InProgress
<1>4. Judged' = Judged
  BY <1>1, <1>3 DEF Judged
<1>5. ASSUME NEW g \in Groups PROVE Holding(g)' = IF g[2] <= today THEN {} ELSE Holding(g)
  <2>1. \A c \in Contracts : Group(c) = g => c.expiry = g[2] /\ c.expiry \in Nat
    BY ContractFacts
  <2>2. \A c \in Contracts : Group(c) = g =>
          /\ c.expiry >= today' <=> ~ g[2] <= today
          /\ ~ g[2] <= today => c.expiry >= today
    BY <1>1, <2>1
  <2>3. CASE InProgress[g] = {}
    <3>1. Holding(g) = HeldOf(g) /\ Holding(g)' = HeldOf(g)'
      BY <1>3, <2>3, HeldIsHeld, NextHolding
    <3>2. CASE g[2] <= today
      BY <2>2, <3>1, <3>2 DEF HeldOf
    <3>3. CASE ~ g[2] <= today
      <4>1. \A c \in Contracts : Group(c) = g =>
              c.expiry >= today' /\ c.expiry >= today /\ qty'[c] = qty[c]
        BY <1>2, <2>1, <2>2, <3>3
      <4> QED
        BY <3>1, <3>3, <4>1 DEF HeldOf
    <3> QED
      BY <3>2, <3>3
  <2>4. CASE InProgress[g] # {}
    <3> DEFINE rows == UNION {view[r] : r \in InProgress[g]}
               held(d) == {<<p.symbol, p.contracts>> : p \in {q \in rows :
                              Group(q.symbol) = g /\ q.symbol.expiry >= d}}
    <3>1. Holding(g) = held(today)
      BY <2>4 DEF Holding
    <3>2. Holding(g)' = held(today')
      BY <1>1, <1>3, <2>4 DEF Holding
    <3>3. \A p \in rows : p.symbol \in Contracts
      BY ExitsAssumption DEF InProgress, ExitsType, RowType
    <3> HIDE DEF rows
    <3> QED
      BY <2>2, <3>1, <3>2, <3>3
  <2> QED
    BY <2>3, <2>4
<1> QED
  BY <1>1, <1>4, <1>5 DEF Book

LEMMA MoveMarketRefines ==
    ASSUME MoveMarket \/ UNCHANGED vars
    PROVE  today' = today /\ Judged' = Judged /\ Book' = Book
<1>1. UNCHANGED <<view, due, left, qty, today>>
  BY DEF MoveMarket, vars, runVars, account
<1>2. \A h \in Groups : InProgress'[h] = InProgress[h]
  BY <1>1 DEF InProgress
<1>3. Judged' = Judged
  BY <1>1, <1>2 DEF Judged
<1>4. ASSUME NEW g \in Groups PROVE Holding(g)' = Holding(g)
  <2>1. CASE InProgress[g] = {}
    BY <1>1, <1>2, <2>1, HeldIsHeld, NextHolding DEF HeldOf
  <2>2. CASE InProgress[g] # {}
    BY <1>1, <1>2, <2>2 DEF Holding
  <2> QED
    BY <2>1, <2>2
<1> QED
  BY <1>1, <1>3, <1>4 DEF Book

LEMMA InitRefines == Init => Atomic!Init
<1> SUFFICES ASSUME Init PROVE Atomic!Init
  OBVIOUS
<1>1. \A r \in Live : due[r] = {} /\ left[r] = {}
  BY ExitsAssumption DEF Init
<1>2. \A g \in Groups : InProgress[g] = {} /\ Holding(g) = HeldOf(g)
  BY <1>1, NothingInProgress
<1>3. \A g \in Groups : HeldOf(g) = {}
  BY DEF Init, HeldOf
<1>4. Book = [g \in Groups |-> {}] /\ Judged = {}
  BY <1>1, <1>2, <1>3 DEF Book, Judged
<1> QED
  BY <1>4 DEF Init, Atomic!Init, Book, Judged

LEMMA StepRefines ==
    ASSUME CalmInv, [Next]_vars, Calm
    PROVE  [Atomic!Next]_(Atomic!vars)
<1> ExitsType /\ Undisturbed
  BY DEF CalmInv
<1> USE DEF Atomic!vars, Book, Judged
<1>1. ASSUME NEW r \in Runs, BuildPortfolio(r) PROVE Atomic!Next
  BY <1>1, BuildPortfolioRefines DEF Atomic!Next, Atomic!Judge
<1>2. ASSUME NEW r \in Runs, ManageExits(r) PROVE [Atomic!Next]_(Atomic!vars)
  <2>1. CASE r \notin Live
    BY <1>2, <2>1, DryRunRefines
  <2>2. CASE r \in Live
    BY <1>2, <2>2, LiveRunRefines DEF Atomic!Next, Atomic!GiveUp
  <2> QED
    BY <2>1, <2>2
<1>3. ASSUME NEW r \in Runs, Crash(r) PROVE FALSE
  BY <1>3 DEF Crash, Calm, Undisturbed
<1>4. ASSUME NEW s \in scenario.spreads, OpenSpread(s) PROVE Atomic!Next
  BY <1>4, ScenarioFacts, OpenSpreadRefines DEF Atomic!Next, Atomic!Open
<1>5. ASSUME NEW c \in Contracts, FillClose(c) PROVE FALSE
  BY <1>5 DEF Undisturbed, FillClose
<1>6. CASE MoveMarket \/ UNCHANGED vars
  BY <1>6, MoveMarketRefines
<1>7. CASE NextDay
  BY <1>7, NextDayRefines DEF Atomic!Next, Atomic!Expire
<1> QED
  BY <1>1, <1>2, <1>3, <1>4, <1>5, <1>6, <1>7 DEF Next

\* Without faults and crashes, closing leg by leg gives up a group as a whole,
\* once it has been judged due (orchestrator.py:246-290).
THEOREM ExitsAreAtomic == Spec => ImplementsAtomicExits
<1>1. Init => CalmInv
  BY InitType, InitUndisturbed DEF CalmInv
<1>2. CalmInv /\ [Next]_vars => [Calm => Atomic!Next]_(Atomic!vars)
  BY StepRefines
<1>3. Init => (Calm => Atomic!Init)
  BY InitRefines
<1> QED
  BY <1>1, <1>2, <1>3, StepCalmInv, PTL DEF Spec, ImplementsAtomicExits
-----------------------------------------------------------------------------
(***************************************************************************)
(* What is spared is in its band.                                          *)
(***************************************************************************)

GroupOf(l) == Group(Leg(l.spread, "sell"))

\* Two spreads were opened in group g.
Crowded(g) == \E l, m \in lots : l # m /\ GroupOf(l) = g /\ GroupOf(m) = g

\* Every contract held, and every row read, is a leg of some lot; no run has read
\* two rows of one contract; and a close waits for the whole row unless another
\* spread has been opened since.
RowsAreOfLots ==
    /\ \A c \in Contracts : qty[c] # 0 => \E l \in lots : c \in Legs(l)
    /\ \A c \in Contracts : resting[c] # 0 /\ resting[c] # qty[c] => Crowded(Group(c))
    /\ \A r \in Runs : \A p \in view[r] :
          /\ \E l \in lots : p.symbol \in Legs(l)
          /\ \A q \in view[r] : q.symbol = p.symbol => q = p
          /\ p.dte >= p.symbol.expiry - today

\* Run r has seen to contract c, or what it has read of c no longer matters.
Attempted(r, c) ==
    \/ qty[c] = 0 \/ resting[c] # 0 \/ Journalled(Group(c), "failed")
    \/ \E p \in view[r] : p.symbol = c /\ p.dte # c.expiry - today
    \/ Crowded(Group(c))

\* What a live run found due is still to be closed, or has been seen to.
DueAreSeenTo ==
    /\ \A r \in Runs : \A c \in left[r] : Group(c) \notin due[r]
    /\ \A r \in Live : \A p \in view[r] :
          stage[r] # "idle" /\ Group(p.symbol) \in DecideExits(view[r]) \ due[r]
              => p.symbol \in left[r] \/ Attempted(r, p.symbol)

BandInv == ExitsType /\ RowsAreOfLots /\ DueAreSeenTo

LEMMA LegsOfGroup ==
    ASSUME NEW l, l.spread \in Spreads, NEW c \in Legs(l)
    PROVE  Group(c) = GroupOf(l) /\ c \in Contracts
  BY LegFacts DEF Legs, GroupOf

\* Contract c is a leg of the spread that the step opens.
NewLeg(c) == \E m \in lots' \ lots : c \in Legs(m)

\* What any step may do to the account.
AccountStep ==
    /\ lots \subseteq lots' /\ events \subseteq events'
    /\ \A c \in Contracts : qty[c] = 0 /\ qty'[c] # 0 => NewLeg(c)
    /\ \A c \in Contracts : resting'[c] # 0 /\ resting'[c] # qty'[c] =>
          (resting[c] # 0 /\ resting[c] # qty[c]) \/ (qty[c] # 0 /\ NewLeg(c))
    /\ \/ today' = today /\ \A c \in Contracts : resting[c] # 0 =>
              qty'[c] = 0 \/ resting'[c] # 0 \/ resting[c] # qty[c]
       \/ today' = today + 1

LEMMA OpenSpreadAccount ==
    ASSUME ExitsType, NEW s \in Spreads, OpenSpread(s)
    PROVE  AccountStep
<1> DEFINE sell == Leg(s, "sell")
           buy == Leg(s, "buy")
           lot == [spread |-> s, credit |-> mark[sell] - mark[buy]]
<1>1. /\ lots' = lots \cup {lot} /\ lot \notin lots /\ Legs(lot) = {sell, buy}
      /\ UNCHANGED <<resting, events, today>>
  BY DEF OpenSpread, Legs
<1>2. sell \in Contracts /\ buy \in Contracts /\ sell # buy
  BY LegFacts
<1>3. \A c \in Contracts : c # sell /\ c # buy => qty'[c] = qty[c]
  BY DEF OpenSpread, ExitsType
<1>4. NewLeg(sell) /\ NewLeg(buy)
  BY <1>1 DEF NewLeg
<1>5. resting[sell] = 0
  BY <1>2 DEF OpenSpread, ExitsType
<1>6. resting[buy] # 0 => qty[buy] # 0
  BY <1>2 DEF ExitsType
<1> HIDE DEF sell, buy, lot
<1>7. \A c \in Contracts : resting'[c] # 0 /\ resting'[c] # qty'[c] =>
          (resting[c] # 0 /\ resting[c] # qty[c]) \/ (qty[c] # 0 /\ NewLeg(c))
  BY <1>1, <1>3, <1>4, <1>5, <1>6
<1>8. \A c \in Contracts : qty[c] = 0 /\ qty'[c] # 0 => NewLeg(c)
  BY <1>3, <1>4
<1> QED
  BY <1>1, <1>7, <1>8 DEF AccountStep

LEMMA StepAccount == ASSUME ExitsType, [Next]_vars PROVE AccountStep
<1>1. ASSUME NEW r \in Runs, BuildPortfolio(r) PROVE AccountStep
  BY <1>1 DEF BuildPortfolio, account, AccountStep
<1>2. ASSUME NEW r \in Runs, ManageExits(r) PROVE AccountStep
  <2>1. PICK symbols \in Upcoming(r) : \E c \in symbols : Pass(r, symbols, c)
    BY <1>2, ManageExitsPasses
  <2>2. PICK c \in symbols : Pass(r, symbols, c)
    BY <2>1
  <2>3. c \in Contracts
    BY UpcomingFacts
  <2>4. \/ qty' = qty /\ resting' = resting
        \/ qty' = [qty EXCEPT ![c] = 0] /\ resting[c] = 0 /\ resting' = resting
        \/ qty' = qty /\ resting' = [resting EXCEPT ![c] = qty[c]]
    BY <2>2, <2>3, CloseFacts DEF Pass
  <2>5. lots' = lots /\ today' = today
    BY <1>2, ManageExitsPasses
  <2>6. events \subseteq events'
    BY <2>2 DEF Pass, ClosePosition, Journal
  <2>7. qty \in [Contracts -> Int] /\ resting \in [Contracts -> Int]
    BY DEF ExitsType
  <2> QED
    BY <2>4, <2>5, <2>6, <2>7 DEF AccountStep
<1>3. ASSUME NEW r \in Runs, Crash(r) PROVE AccountStep
  <2>1. \/ qty' = qty
        \/ \E c \in Contracts : Closable(c) /\ qty' = [qty EXCEPT ![c] = 0]
    BY <1>3, UpcomingFacts DEF Crash, GivesUp, Keeps
  <2>2. UNCHANGED <<lots, events, today, resting>>
    BY <1>3 DEF Crash
  <2> QED
    BY <2>1, <2>2 DEF AccountStep, Closable, ExitsType
<1>4. ASSUME NEW s \in scenario.spreads, OpenSpread(s) PROVE AccountStep
  BY <1>4, ScenarioFacts, OpenSpreadAccount
<1>5. ASSUME NEW c \in Contracts, FillClose(c) PROVE AccountStep
  <2>1. /\ resting[c] # 0 /\ resting' = [resting EXCEPT ![c] = 0]
        /\ qty' = [qty EXCEPT ![c] = qty[c] - resting[c]]
        /\ UNCHANGED <<lots, events, today>>
    BY <1>5 DEF FillClose, Keeps
  <2>2. qty[c] # 0 /\ qty[c] \in Int /\ resting[c] \in Int
    BY <2>1 DEF ExitsType
  <2>3. resting[c] = qty[c] => qty'[c] = 0
    BY <2>1, <2>2 DEF ExitsType
  <2>4. \A d \in Contracts : d # c => qty'[d] = qty[d] /\ resting'[d] = resting[d]
    BY <2>1 DEF ExitsType
  <2>5. resting'[c] = 0
    BY <2>1 DEF ExitsType
  <2> QED
    BY <2>1, <2>2, <2>3, <2>4, <2>5 DEF AccountStep
<1>6. CASE MoveMarket \/ UNCHANGED vars
  BY <1>6 DEF MoveMarket, vars, runVars, account, AccountStep
<1>7. CASE NextDay
  BY <1>7 DEF NextDay, runVars, AccountStep
<1> QED
  BY <1>1, <1>2, <1>3, <1>4, <1>5, <1>6, <1>7 DEF Next

\* A new spread in the group of an old one crowds it, and that lasts.
LEMMA NewLegCrowds ==
    ASSUME ExitsType, ExitsType', lots \subseteq lots', NEW c \in Contracts,
           NEW l \in lots, c \in Legs(l), NewLeg(c)
    PROVE  Crowded(Group(c))'
<1>1. PICK m \in lots' \ lots : c \in Legs(m)
  BY DEF NewLeg
<1>2. l.spread \in Spreads /\ m.spread \in Spreads
  BY DEF ExitsType
<1>3. GroupOf(l) = Group(c) /\ GroupOf(m) = Group(c)
  BY <1>1, <1>2, LegsOfGroup
<1> QED
  BY <1>1, <1>3 DEF Crowded

LEMMA StaysCrowded ==
    ASSUME NEW g, Crowded(g), lots \subseteq lots'
    PROVE  Crowded(g)'
  BY DEF Crowded

\* What a run has seen to stays seen to, until it reads the account again.
LEMMA StaysAttempted ==
    ASSUME ExitsType, ExitsType', RowsAreOfLots, AccountStep,
           NEW r \in Runs, view'[r] = view[r], NEW p \in view[r], Attempted(r, p.symbol)
    PROVE  Attempted(r, p.symbol)'
<1> DEFINE c == p.symbol
<1>1. c \in Contracts /\ c.expiry \in Nat /\ p.dte \in Int /\ today \in Nat
  <2>1. p \in RowType
    BY DEF ExitsType
  <2> QED
    BY <2>1, ContractFacts DEF RowType, ExitsType
<1>2. PICK l \in lots : c \in Legs(l)
  BY DEF RowsAreOfLots
<1>3. p.dte >= c.expiry - today
  BY DEF RowsAreOfLots
<1>4. lots \subseteq lots' /\ events \subseteq events'
  BY DEF AccountStep
<1> HIDE DEF c
<1>5. CASE Crowded(Group(c))
  BY <1>4, <1>5, StaysCrowded DEF Attempted, c
<1>6. CASE NewLeg(c)
  BY <1>1, <1>2, <1>4, <1>6, NewLegCrowds DEF Attempted, c
<1>7. CASE today' = today + 1
  <2>1. p.dte # c.expiry - today'
    BY <1>1, <1>3, <1>7
  <2> QED
    BY <2>1 DEF Attempted, c
<1>8. CASE today' = today /\ ~ NewLeg(c) /\ ~ Crowded(Group(c))
  <2>1. resting[c] = 0 \/ resting[c] = qty[c]
    BY <1>1, <1>8 DEF RowsAreOfLots
  <2>2. today' # today + 1
    BY <1>1, <1>8
  <2>3. CASE qty[c] = 0
    BY <1>1, <1>8, <2>3 DEF AccountStep, Attempted, c
  <2>4. CASE resting[c] # 0
    BY <1>1, <1>8, <2>1, <2>2, <2>4 DEF AccountStep, Attempted, c
  <2>5. CASE Journalled(Group(c), "failed")
    BY <1>4, <2>5 DEF Journalled, Attempted, c
  <2>6. CASE \E q \in view[r] : q.symbol = c /\ q.dte # c.expiry - today
    BY <1>8, <2>6 DEF Attempted, c
  <2> QED
    BY <1>8, <2>3, <2>4, <2>5, <2>6 DEF Attempted, c
<1> QED
  BY <1>5, <1>6, <1>7, <1>8 DEF AccountStep

LEMMA StepRows ==
    ASSUME ExitsType, ExitsType', RowsAreOfLots, AccountStep, [Next]_vars
    PROVE  RowsAreOfLots'
<1>1. lots \subseteq lots'
  BY DEF AccountStep
<1>2. ASSUME NEW c \in Contracts, qty'[c] # 0 PROVE \E l \in lots' : c \in Legs(l)
  BY <1>1, <1>2 DEF RowsAreOfLots, AccountStep, NewLeg
<1>3. ASSUME NEW c \in Contracts, resting'[c] # 0, resting'[c] # qty'[c]
      PROVE  Crowded(Group(c))'
  <2>1. CASE resting[c] # 0 /\ resting[c] # qty[c]
    BY <1>1, <2>1, StaysCrowded DEF RowsAreOfLots
  <2>2. CASE qty[c] # 0 /\ NewLeg(c)
    <3>1. PICK l \in lots : c \in Legs(l)
      BY <2>2 DEF RowsAreOfLots
    <3> QED
      BY <1>1, <2>2, <3>1, NewLegCrowds
  <2> QED
    BY <1>3, <2>1, <2>2 DEF AccountStep
<1>4. ASSUME NEW r \in Runs, NEW p \in view'[r]
      PROVE  /\ \E l \in lots' : p.symbol \in Legs(l)
             /\ \A q \in view'[r] : q.symbol = p.symbol => q = p
             /\ p.dte >= p.symbol.expiry - today'
  <2>1. CASE view'[r] = view[r]
    <3>1. /\ \E l \in lots : p.symbol \in Legs(l)
          /\ \A q \in view[r] : q.symbol = p.symbol => q = p
          /\ p.dte >= p.symbol.expiry - today
      BY <1>4, <2>1 DEF RowsAreOfLots
    <3>2. p \in RowType
      BY <1>4, <2>1 DEF ExitsType
    <3>3. p.dte \in Int /\ p.symbol.expiry \in Nat /\ today \in Nat
      BY <3>2, ContractFacts DEF RowType, ExitsType
    <3>4. p.dte >= p.symbol.expiry - today'
      BY <3>1, <3>3 DEF AccountStep
    <3> QED
      BY <1>1, <2>1, <3>1, <3>4
  <2>2. CASE view'[r] = Positions /\ UNCHANGED <<lots, today>>
    <3>1. /\ p.symbol \in Contracts /\ qty[p.symbol] # 0 /\ p = Row(p.symbol)
          /\ \A q \in Positions : q = Row(q.symbol)
      BY <1>4, <2>2, PositionRows
    <3>2. PICK e \in Nat : e = p.symbol.expiry
      BY <3>1, ContractFacts
    <3>3. p.dte = e - today /\ today \in Nat
      BY <3>1, <3>2, RowFields DEF ExitsType
    <3>4. p.dte >= e - today'
      BY <2>2, <3>3
    <3> QED
      BY <2>2, <3>1, <3>2, <3>4 DEF RowsAreOfLots
  <2>3. view'[r] = view[r] \/ (view'[r] = Positions /\ UNCHANGED <<lots, today>>)
    BY DEF Next, BuildPortfolio, ManageExits, Crash, OpenSpread, FillClose, MoveMarket,
           NextDay, vars, runVars, account, ExitsType
  <2> QED
    BY <2>1, <2>2, <2>3
<1> QED
  BY <1>2, <1>3, <1>4 DEF RowsAreOfLots

\* A run that does nothing of its own still has the same to see to.
LEMMA OthersSeeTo ==
    ASSUME ExitsType, ExitsType', RowsAreOfLots, DueAreSeenTo, AccountStep, NEW r \in Live,
           view'[r] = view[r], due'[r] = due[r], left'[r] = left[r], stage'[r] = stage[r],
           NEW p \in view'[r], stage'[r] # "idle",
           Group(p.symbol) \in DecideExits(view'[r]) \ due'[r]
    PROVE  p.symbol \in left'[r] \/ Attempted(r, p.symbol)'
<1>1. r \in Runs /\ (p.symbol \in left[r] \/ Attempted(r, p.symbol))
  BY ExitsAssumption DEF DueAreSeenTo
<1> QED
  BY <1>1, StaysAttempted

LEMMA ManageExitsDue ==
    ASSUME ExitsType, ExitsType', RowsAreOfLots, DueAreSeenTo, AccountStep,
           NEW r \in Runs, ManageExits(r)
    PROVE  DueAreSeenTo'
<1>1. PICK symbols \in Upcoming(r) : \E c \in symbols : Pass(r, symbols, c)
  BY ManageExitsPasses
<1>2. PICK c \in symbols : Pass(r, symbols, c)
  BY <1>1
<1>3. /\ stage[r] = "closing" /\ view' = view
      /\ left'[r] = symbols \ {c} /\ due'[r] = due[r] \ {Group(c)}
      /\ \A x \in Runs : x # r => /\ left'[x] = left[x] /\ due'[x] = due[x]
                                 /\ stage'[x] = stage[x]
  BY <1>2, ManageExitsPasses DEF Pass, ExitsType
<1>4. /\ left[r] # {} => symbols = left[r]
      /\ left[r] = {} => \E g \in due[r] :
           symbols = {p.symbol : p \in {q \in view[r] : Group(q.symbol) = g}}
      /\ c \in Contracts
  BY UpcomingFacts
<1>5. \A d \in left'[r] : Group(d) \notin due'[r]
  <2>1. CASE left[r] # {}
    BY <1>3, <1>4, <2>1 DEF DueAreSeenTo
  <2>2. CASE left[r] = {}
    BY <1>3, <1>4, <2>2
  <2> QED
    BY <2>1, <2>2
<1>6. ASSUME r \in Live PROVE Attempted(r, c)'
  <2>1. \/ GivesUp(c)
        \/ Closable(c) /\ resting' = [resting EXCEPT ![c] = qty[c]]
        \/ Journal(c, "failed")
    BY <1>2, <1>6 DEF Pass, ClosePosition
  <2>2. CASE GivesUp(c)
    BY <1>4, <2>2, GivesUpType DEF Attempted, ExitsType
  <2>3. CASE Closable(c) /\ resting' = [resting EXCEPT ![c] = qty[c]]
    BY <1>4, <2>3 DEF Closable, Attempted, ExitsType
  <2>4. CASE Journal(c, "failed")
    <3> DEFINE e == [symbol |-> c, status |-> "failed"]
    <3>2. e \in events' /\ e.status = "failed" /\ e.symbol = c
      BY <2>4 DEF Journal
    <3> HIDE DEF e
    <3>1. Journalled(Group(c), "failed")'
      BY <3>2 DEF Journalled
    <3> QED
      BY <3>1 DEF Attempted
  <2> QED
    BY <2>1, <2>2, <2>3, <2>4
<1>7. ASSUME r \in Live, NEW p \in view'[r],
             Group(p.symbol) \in DecideExits(view'[r]) \ due'[r]
      PROVE  p.symbol \in left'[r] \/ Attempted(r, p.symbol)'
  <2>1. p \in view[r] /\ Group(p.symbol) \in DecideExits(view[r])
    BY <1>3, <1>7
  <2>2. CASE p.symbol \in symbols
    BY <1>3, <1>6, <1>7, <2>2
  <2>3. CASE p.symbol \notin symbols /\ Group(p.symbol) \notin due[r]
    <3>1. Attempted(r, p.symbol)
      BY <1>3, <1>4, <1>7, <2>1, <2>3 DEF DueAreSeenTo
    <3> QED
      BY <1>3, <2>1, <3>1, StaysAttempted
  <2>4. CASE p.symbol \notin symbols /\ Group(p.symbol) \in due[r]
    <3>1. Group(p.symbol) = Group(c)
      BY <1>3, <1>7, <2>4
    <3>2. left[r] = {}
      BY <1>4, <2>4, <3>1 DEF DueAreSeenTo
    <3> QED
      BY <1>4, <2>1, <2>4, <3>1, <3>2
  <2> QED
    BY <2>2, <2>3, <2>4
<1>8. ASSUME NEW x \in Live, x # r, NEW p \in view'[x], stage'[x] # "idle",
             Group(p.symbol) \in DecideExits(view'[x]) \ due'[x]
      PROVE  p.symbol \in left'[x] \/ Attempted(x, p.symbol)'
  <2>1. x \in Runs
    BY ExitsAssumption
  <2>2. /\ view'[x] = view[x] /\ due'[x] = due[x]
        /\ left'[x] = left[x] /\ stage'[x] = stage[x]
    BY <1>3, <1>8, <2>1
  <2> QED
    BY <1>8, <2>2, OthersSeeTo
<1>9. \A x \in Runs : \A d \in left'[x] : Group(d) \notin due'[x]
  BY <1>3, <1>5 DEF DueAreSeenTo
<1> QED
  BY <1>7, <1>8, <1>9 DEF DueAreSeenTo

\* Reading the account, or dying, leaves a run nothing unseen to.
LEMMA OneRunDue ==
    ASSUME ExitsType, ExitsType', RowsAreOfLots, DueAreSeenTo, AccountStep, NEW r \in Runs,
           \A x \in Runs : x # r => /\ view'[x] = view[x] /\ due'[x] = due[x]
                                   /\ left'[x] = left[x] /\ stage'[x] = stage[x],
           left'[r] = {}, stage'[r] = "idle" \/ due'[r] = DecideExits(view'[r])
    PROVE  DueAreSeenTo'
<1>1. ASSUME NEW x \in Live, NEW p \in view'[x], stage'[x] # "idle",
             Group(p.symbol) \in DecideExits(view'[x]) \ due'[x]
      PROVE  p.symbol \in left'[x] \/ Attempted(x, p.symbol)'
  <2>1. x \in Runs /\ x # r
    BY <1>1, ExitsAssumption
  <2> QED
    BY <1>1, <2>1, OthersSeeTo
<1>2. \A x \in Runs : \A d \in left'[x] : Group(d) \notin due'[x]
  BY DEF DueAreSeenTo
<1> QED
  BY <1>1, <1>2 DEF DueAreSeenTo

LEMMA IdleDue ==
    ASSUME ExitsType, ExitsType', RowsAreOfLots, DueAreSeenTo, AccountStep,
           view' = view, due' = due, left' = left, stage' = stage
    PROVE  DueAreSeenTo'
<1>2. ASSUME NEW x \in Live, NEW p \in view'[x], stage'[x] # "idle",
             Group(p.symbol) \in DecideExits(view'[x]) \ due'[x]
      PROVE  p.symbol \in left'[x] \/ Attempted(x, p.symbol)'
  BY <1>2, OthersSeeTo
<1> QED
  BY <1>2 DEF DueAreSeenTo

LEMMA StepBandInv == ASSUME BandInv, [Next]_vars PROVE BandInv'
<1>1. ExitsType /\ RowsAreOfLots /\ DueAreSeenTo /\ ExitsType' /\ AccountStep
  BY StepType, StepAccount DEF BandInv
<1>2. RowsAreOfLots'
  BY <1>1, StepRows
<1>3. ASSUME NEW r \in Runs, BuildPortfolio(r) PROVE DueAreSeenTo'
  <2>1. PICK rows : rows = Positions
    OBVIOUS
  <2>2. /\ view' = [view EXCEPT ![r] = rows] /\ due' = [due EXCEPT ![r] = DecideExits(rows)]
        /\ left' = left /\ left[r] = {}
        /\ \A x \in Runs : x # r => stage'[x] = stage[x]
    BY <1>1, <1>3, <2>1 DEF BuildPortfolio, ExitsType
  <2>3. view'[r] = rows /\ due'[r] = DecideExits(rows)
    BY <1>1, <2>2 DEF ExitsType
  <2>4. \A x \in Runs : x # r => view'[x] = view[x] /\ due'[x] = due[x]
    BY <1>1, <2>2 DEF ExitsType
  <2>5. due'[r] = DecideExits(view'[r])
    BY <2>3
  <2> QED
    BY <1>1, <2>2, <2>4, <2>5, OneRunDue
<1>4. ASSUME NEW r \in Runs, ManageExits(r) PROVE DueAreSeenTo'
  BY <1>1, <1>4, ManageExitsDue
<1>5. ASSUME NEW r \in Runs, Crash(r) PROVE DueAreSeenTo'
  <2>1. /\ \A x \in Runs : x # r => /\ view'[x] = view[x] /\ due'[x] = due[x]
                                   /\ left'[x] = left[x] /\ stage'[x] = stage[x]
        /\ left'[r] = {} /\ stage'[r] = "idle"
    BY <1>1, <1>5 DEF Crash, ExitsType
  <2> QED
    BY <1>1, <2>1, OneRunDue
<1>6. ASSUME view' = view /\ due' = due /\ left' = left /\ stage' = stage
      PROVE  DueAreSeenTo'
  BY <1>1, <1>6, IdleDue
<1>7. \/ \E r \in Runs : BuildPortfolio(r) \/ ManageExits(r) \/ Crash(r)
      \/ view' = view /\ due' = due /\ left' = left /\ stage' = stage
  <2>1. ASSUME NEW s, OpenSpread(s) PROVE UNCHANGED runVars
    BY <2>1 DEF OpenSpread
  <2>2. ASSUME NEW c, FillClose(c) PROVE UNCHANGED runVars
    BY <2>2 DEF FillClose
  <2>3. MoveMarket \/ NextDay \/ UNCHANGED vars => UNCHANGED runVars
    BY DEF MoveMarket, NextDay, vars
  <2>4. UNCHANGED runVars => view' = view /\ due' = due /\ left' = left /\ stage' = stage
    BY DEF runVars
  <2> QED
    BY <2>1, <2>2, <2>3, <2>4 DEF Next
<1>8. DueAreSeenTo'
  BY <1>3, <1>4, <1>5, <1>6, <1>7
<1> QED
  BY <1>1, <1>2, <1>8 DEF BandInv

LEMMA InitBandInv == Init => BandInv
<1> SUFFICES ASSUME Init PROVE BandInv
  OBVIOUS
<1>1. ExitsType
  BY InitType
<1>2. /\ \A c \in Contracts : qty[c] = 0 /\ resting[c] = 0
      /\ \A r \in Runs : view[r] = {} /\ left[r] = {}
  BY DEF Init
<1>3. RowsAreOfLots
  BY <1>2 DEF RowsAreOfLots
<1>4. DueAreSeenTo
  BY <1>2, ExitsAssumption DEF DueAreSeenTo
<1> QED
  BY <1>1, <1>3, <1>4 DEF BandInv

\* The sum of a field over two rows, as MapThenSumSet computes it.
LEMMA SumOfTwo ==
    ASSUME NEW a, NEW b, a # b, NEW field, a[field] \in Int, b[field] \in Int
    PROVE  MapThenSumSet(LAMBDA p : p[field], {a, b}) = a[field] + b[field]
<1> DEFINE S == {a, b}
           Sums(it) == it = [s \in SUBSET S |->
               IF s = {} THEN 0
               ELSE (CHOOSE x \in s : TRUE)[field] + it[s \ {CHOOSE x \in s : TRUE}]]
<1>1. MapThenSumSet(LAMBDA p : p[field], S) = (CHOOSE it : Sums(it))[S]
  BY DEF MapThenSumSet, MapThenFoldSet
<1>2. PICK A, B, E : A = {a} /\ B = {b} /\ E = {}
  OBVIOUS
<1>3. /\ \A s \in SUBSET S : s = E \/ s = A \/ s = B \/ s = S
      /\ A # B /\ A # S /\ B # S /\ A # E /\ B # E /\ S # E
      /\ {E, A, B, S} \subseteq SUBSET S
  BY <1>2
<1>4. PICK c \in S : c = CHOOSE x \in S : TRUE
  OBVIOUS
<1>5. (CHOOSE x \in A : TRUE) = a /\ (CHOOSE x \in B : TRUE) = b
  BY <1>2
<1>6. A \ {a} = E /\ B \ {b} = E /\ S \ {a} = B /\ S \ {b} = A
  BY <1>2
<1>7. PICK k : k = a[field]
  OBVIOUS
<1>8. PICK l : l = b[field]
  OBVIOUS
<1>9. \A it : Sums(it) <=>
        /\ it = [s \in SUBSET S |-> it[s]]
        /\ it[E] = 0 /\ it[A] = k + it[E] /\ it[B] = l + it[E]
        /\ it[S] = c[field] + it[S \ {c}]
  <2> SUFFICES ASSUME NEW it
               PROVE Sums(it) <=>
                        /\ it = [s \in SUBSET S |-> it[s]]
                        /\ it[E] = 0 /\ it[A] = k + it[E] /\ it[B] = l + it[E]
                        /\ it[S] = c[field] + it[S \ {c}]
    OBVIOUS
  <2> DEFINE Added(s) == IF s = {} THEN 0
               ELSE (CHOOSE x \in s : TRUE)[field] + it[s \ {CHOOSE x \in s : TRUE}]
  <2>1. Added(E) = 0
    BY <1>2
  <2>2. Added(A) = k + it[E]
    BY <1>2, <1>3, <1>5, <1>6, <1>7
  <2>3. Added(B) = l + it[E]
    BY <1>2, <1>3, <1>5, <1>6, <1>8
  <2>4. Added(S) = c[field] + it[S \ {c}]
    BY <1>4
  <2>5. Sums(it) <=> it = [s \in SUBSET S |-> Added(s)]
    OBVIOUS
  <2> HIDE DEF Added, Sums, S
  <2>6. Sums(it) <=> it = [s \in SUBSET S |-> it[s]] /\ \A s \in SUBSET S : it[s] = Added(s)
    BY <2>5
  <2>7. (\A s \in SUBSET S : it[s] = Added(s)) <=>
          it[E] = Added(E) /\ it[A] = Added(A) /\ it[B] = Added(B) /\ it[S] = Added(S)
    BY <1>3
  <2> QED
    BY <2>1, <2>2, <2>3, <2>4, <2>6, <2>7
<1> HIDE DEF Sums, S
<1>10. PICK w : w = [s \in SUBSET S |-> IF s = E THEN 0 ELSE IF s = A THEN k
                                        ELSE IF s = B THEN l ELSE k + l]
  OBVIOUS
<1>11. w[E] = 0 /\ w[A] = k /\ w[B] = l /\ w[S] = k + l
  BY <1>3, <1>10
<1>12. w = [s \in SUBSET S |-> w[s]]
  BY <1>10
<1>13. k \in Int /\ l \in Int /\ (c = a \/ c = b)
  BY <1>4, <1>7, <1>8 DEF S
<1>14. (c[field] = k /\ S \ {c} = B) \/ (c[field] = l /\ S \ {c} = A)
  BY <1>6, <1>7, <1>8, <1>13
<1>15. Sums(w)
  <2>1. w[S] = c[field] + w[S \ {c}] /\ w[A] = k + w[E] /\ w[B] = l + w[E]
    <3>1. w[A] = k + w[E] /\ w[B] = l + w[E]
      BY <1>11, <1>13
    <3>2. PICK m : m = c[field]
      OBVIOUS
    <3>3. (m = k /\ S \ {c} = B) \/ (m = l /\ S \ {c} = A)
      BY <1>14, <3>2
    <3>4. w[S] = m + w[S \ {c}]
      <4>1. k + l = l + k /\ w[A] = k /\ w[B] = l /\ w[S] = k + l
        BY <1>11, <1>13
      <4>2. CASE m = k /\ S \ {c} = B
        BY <4>1, <4>2
      <4>3. CASE m = l /\ S \ {c} = A
        BY <4>1, <4>3
      <4> QED
        BY <3>3, <4>2, <4>3
    <3>5. w[S] = c[field] + w[S \ {c}]
      BY <3>2, <3>4
    <3> QED
      BY <3>1, <3>5
  <2> QED
    BY <1>9, <1>11, <1>12, <2>1
<1>16. ASSUME NEW it, Sums(it) PROVE it[S] = k + l
  <2>1. /\ it[E] = 0 /\ it[A] = k + it[E] /\ it[B] = l + it[E]
        /\ it[S] = c[field] + it[S \ {c}]
    BY <1>9, <1>16
  <2>2. it[A] = k /\ it[B] = l
    BY <1>13, <2>1
  <2> QED
    BY <1>13, <1>14, <2>1, <2>2
<1> QED
  BY <1>1, <1>7, <1>8, <1>15, <1>16 DEF S

LEMMA CostOfTwo ==
    ASSUME NEW p, NEW q, p # q, p.costBasis \in Int, q.costBasis \in Int
    PROVE  MapThenSumSet(LAMBDA x : x.costBasis, {p, q}) = p.costBasis + q.costBasis
<1>1. MapThenSumSet(LAMBDA x : x["costBasis"], {p, q}) = p["costBasis"] + q["costBasis"]
  BY SumOfTwo
<1> QED
  BY <1>1

LEMMA GainOfTwo ==
    ASSUME NEW p, NEW q, p # q, p.unrealizedPl \in Int, q.unrealizedPl \in Int
    PROVE  MapThenSumSet(LAMBDA x : x.unrealizedPl, {p, q}) = p.unrealizedPl + q.unrealizedPl
<1>1. MapThenSumSet(LAMBDA x : x["unrealizedPl"], {p, q})
        = p["unrealizedPl"] + q["unrealizedPl"]
  BY SumOfTwo
<1> QED
  BY <1>1

\* No other spread shares the group of lot l.
Alone(l) == \A m \in lots : GroupOf(m) = GroupOf(l) => m = l

\* Of the group of a spread that is alone in it, a run that has read both legs as
\* they are has read nothing else.
LEMMA RowsOfGroup ==
    ASSUME ExitsType, RowsAreOfLots, NEW r \in Runs, NEW l \in lots, Alone(l), Spared(r, l)
    PROVE  {p \in view[r] : Group(p.symbol) = GroupOf(l)} =
               {Row(Leg(l.spread, "sell")), Row(Leg(l.spread, "buy"))}
<1> DEFINE sell == Leg(l.spread, "sell")
           buy == Leg(l.spread, "buy")
<1>1. l.spread \in Spreads
  BY DEF ExitsType
<1>2. /\ Group(sell) = GroupOf(l) /\ Group(buy) = GroupOf(l)
      /\ Row(sell) \in view[r] /\ Row(buy) \in view[r]
      /\ Row(sell).symbol = sell /\ Row(buy).symbol = buy
  BY <1>1, LegFacts, RowFields DEF GroupOf, Spared
<1>3. ASSUME NEW p \in view[r], Group(p.symbol) = GroupOf(l)
      PROVE  p = Row(sell) \/ p = Row(buy)
  <2>1. PICK m \in lots : p.symbol \in Legs(m)
    BY DEF RowsAreOfLots
  <2>2. m.spread \in Spreads
    BY DEF ExitsType
  <2>3. m = l
    BY <1>3, <2>1, <2>2, LegsOfGroup DEF Alone
  <2>4. p.symbol = sell \/ p.symbol = buy
    BY <2>1, <2>3 DEF Legs
  <2>5. \A q \in view[r] : q.symbol = p.symbol => q = p
    BY DEF RowsAreOfLots
  <2> HIDE DEF sell, buy
  <2> QED
    BY <1>2, <2>4, <2>5
<1> HIDE DEF sell, buy
<1>4. {p \in view[r] : Group(p.symbol) = GroupOf(l)} = {Row(sell), Row(buy)}
  BY <1>2, <1>3
<1> QED
  BY <1>4 DEF sell, buy

\* A spared group is one that decide_exits did not pick.
LEMMA SparedIsNotDue ==
    ASSUME ExitsType, RowsAreOfLots, DueAreSeenTo,
           NEW r \in Live, NEW l \in lots, Alone(l), Spared(r, l)
    PROVE  GroupOf(l) \notin DecideExits(view[r])
<1> DEFINE c == Leg(l.spread, "sell")
<1>1. r \in Runs /\ l.spread \in Spreads
  BY ExitsAssumption DEF ExitsType
<1>2. /\ Row(c) \in view[r] /\ Row(c).symbol = c /\ Row(c).dte = c.expiry - today
      /\ qty[c] = -1 /\ resting[c] = 0 /\ ~ Journalled(Group(c), "failed")
  BY RowFields DEF Spared
<1>3. stage[r] = "done" /\ due[r] = {} /\ left[r] = {}
  BY <1>1 DEF Spared, ExitsType, Idle
<1>4. Group(c) = GroupOf(l) /\ ~ Crowded(GroupOf(l))
  BY DEF GroupOf, Crowded, Alone
<1> HIDE DEF c
<1>5. \A p \in view[r] : p.symbol = c => p = Row(c)
  BY <1>1, <1>2 DEF RowsAreOfLots
<1>6. ~ Attempted(r, c)
  BY <1>2, <1>4, <1>5 DEF Attempted
<1> QED
  BY <1>2, <1>3, <1>4, <1>6 DEF DueAreSeenTo

LEMMA BandInvSpares == BandInv => SparedSpreadsInBand
<1> SUFFICES ASSUME BandInv, NEW r \in Live, NEW l \in lots, Spared(r, l), Alone(l)
             PROVE  InBand(l)
  BY DEF SparedSpreadsInBand, Alone, GroupOf
<1> DEFINE sell == Leg(l.spread, "sell")
           buy == Leg(l.spread, "buy")
           legs == {p \in view[r] : Group(p.symbol) = GroupOf(l)}
           group == GroupIntoSpreads(view[r])[GroupOf(l)]
<1>1. /\ ExitsType /\ RowsAreOfLots /\ DueAreSeenTo
      /\ r \in Runs /\ l.spread \in Spreads /\ l.credit \in Nat \ {0}
  BY ExitsAssumption DEF BandInv, ExitsType
<1>2. legs = {Row(sell), Row(buy)}
  BY <1>1, RowsOfGroup
<1>3. GroupOf(l) \notin DecideExits(view[r])
  BY <1>1, SparedIsNotDue
<1>4. /\ sell \in Contracts /\ buy \in Contracts /\ sell # buy
      /\ sell.expiry = l.spread.expiry /\ buy.expiry = l.spread.expiry
      /\ l.spread.expiry \in Nat
  BY <1>1, LegFacts, ExitsAssumption
<1>5. /\ qty[sell] = -1 /\ qty[buy] = 1 /\ basis[sell] + basis[buy] = -l.credit
      /\ Row(sell) \in view[r] /\ Group(sell) = GroupOf(l)
  BY DEF Spared, GroupOf
<1>6. GroupOf(l) \in {Group(p.symbol) : p \in view[r]}
  BY <1>5, RowFields
<1>7. /\ group.dte = (CHOOSE p \in legs : TRUE).dte
      /\ group.costBasis = MapThenSumSet(LAMBDA p : p.costBasis, legs)
      /\ group.unrealizedPl = MapThenSumSet(LAMBDA p : p.unrealizedPl, legs)
  BY <1>6 DEF GroupIntoSpreads, MapThenSumSet, MapThenFoldSet
<1>8. ~ IsDue(group)
  BY <1>3, <1>6 DEF DecideExits, GroupIntoSpreads
<1> HIDE DEF sell, buy, group, legs
<1>9. PICK a \in Int, b \in Int, e \in Int, d \in Int, k \in Nat \ {0}, x \in Nat :
        /\ a = mark[sell] /\ b = mark[buy] /\ e = basis[sell] /\ d = basis[buy]
        /\ k = l.credit /\ x = l.spread.expiry
  <2>1. /\ mark[sell] \in Int /\ mark[buy] \in Int
        /\ basis[sell] \in Int /\ basis[buy] \in Int
    BY <1>1, <1>4 DEF ExitsType
  <2> QED
    BY <1>1, <1>4, <2>1
<1>10. /\ Row(sell) # Row(buy)
       /\ Row(sell).costBasis = e /\ Row(buy).costBasis = d
       /\ Row(sell).unrealizedPl = -a - e /\ Row(buy).unrealizedPl = b - d
       /\ Row(sell).dte = x - today /\ Row(buy).dte = x - today
  BY <1>4, <1>5, <1>9, RowFields
<1>11. group.dte = x - today
  BY <1>2, <1>7, <1>10
<1>12. group.costBasis = -k
  <2>1. MapThenSumSet(LAMBDA p : p.costBasis, {Row(sell), Row(buy)}) = e + d
    BY <1>9, <1>10, CostOfTwo
  <2> QED
    BY <1>2, <1>5, <1>7, <1>9, <2>1
<1>13. group.unrealizedPl = k - (a - b)
  <2>1. MapThenSumSet(LAMBDA p : p.unrealizedPl, {Row(sell), Row(buy)}) = (-a - e) + (b - d)
    BY <1>9, <1>10, GainOfTwo
  <2> QED
    BY <1>2, <1>5, <1>7, <1>9, <2>1
<1>14. Credit(group) = k /\ k > 0
  BY <1>9, <1>12 DEF Credit
<1>15. /\ ~ x - today <= DteFloor
       /\ ~ 100 * (k - (a - b)) >= k * ProfitPct
       /\ ~ 100 * (k - (a - b)) <= k * LossPct
  BY <1>8, <1>11, <1>13, <1>14 DEF IsDue, AtTarget, AtStop
<1>16. /\ x - today > DteFloor
       /\ 100 * (k - (a - b)) < k * ProfitPct
       /\ 100 * (k - (a - b)) > k * LossPct
  <2>1. PICK u \in Int, v \in Int, w \in Int :
          u = 100 * (k - (a - b)) /\ v = k * ProfitPct /\ w = k * LossPct
    BY <1>9, ExitsAssumption
  <2>2. today \in Nat /\ DteFloor \in Nat
    BY <1>1, ExitsAssumption DEF ExitsType
  <2> QED
    BY <1>9, <1>15, <2>1, <2>2
<1> QED
  BY <1>4, <1>9, <1>16 DEF InBand, sell, buy

\* Whatever the runs, the market and the failures did, a spread that a complete
\* live cycle has read and left alone is above the DTE floor and between its stop
\* and its target (position_manager.py:111-150).
THEOREM SparedStayInBand == Spec => []SparedSpreadsInBand
<1> QED
  BY InitBandInv, StepBandInv, BandInvSpares, PTL DEF Spec
-----------------------------------------------------------------------------
(***************************************************************************)
(* An orphaned leg is on record.                                           *)
(***************************************************************************)

OfGroup(g) == {c \in Contracts : Group(c) = g}

\* A live run is closing contract c, or the journal holds a close of it.
Touched(c) ==
    \/ \E r \in Live : c \in left[r]
    \/ \E e \in events : e.symbol = c /\ e.status # "dry_run"

Read(r, c) == \E p \in view[r] : p.symbol = c

\* new is what was opened of group g since it was last begun to be closed.  It
\* nets to nothing, it is all there is of a contract that was never touched, and
\* nothing of it is gone or waits to be sold.
Since(new, g) ==
    /\ SumOf(new, OfGroup(g)) = 0
    /\ \A c \in OfGroup(g) :
          /\ ~ Touched(c) => new[c] = qty[c]
          /\ resting[c] = qty[c] => new[c] = 0

\* One run at a time: what it closes it has read whole.
OneAtATime ==
    /\ \A r, x \in Runs : ~ Idle(r) /\ ~ Idle(x) => r = x
    /\ \A r \in Live : \A c \in Contracts : ~ Idle(r) /\ qty[c] # 0 => Read(r, c)
    /\ \A r \in Live : \A c \in left[r] : \A d \in Contracts :
          Group(d) = Group(c) /\ qty[d] # 0 => Touched(d)
    /\ \A g \in Groups : \E new \in [Contracts -> Int] : Since(new, g)

\* Runs overlap: of a spread that shares no leg, both legs are touched or neither,
\* and while neither is, the spread is whole.
BothOrNeither(sell, buy) ==
    /\ Touched(sell) <=> Touched(buy)
    /\ ~ Touched(sell) =>
          (qty[sell] = -1 /\ qty[buy] = 1) \/ (qty[sell] = 0 /\ qty[buy] = 0)
    /\ \A r \in Live : ~ Idle(r) /\ ~ Touched(sell) => (Read(r, sell) <=> Read(r, buy))

Accounted ==
    /\ \A c \in Contracts : resting[c] # 0 => Touched(c)
    /\ \A c \in Contracts : Touched(c) => \E l \in lots : c \in Legs(l)
    /\ "overlap" \notin Faults => OneAtATime
    /\ "overlap" \in Faults => \A l \in lots : ~ LegShared(GroupOf(l)) =>
          BothOrNeither(Leg(l.spread, "sell"), Leg(l.spread, "buy"))

OrphanInv == ExitsType /\ RowsAreOfLots /\ (crashes = 0 => Accounted)

LEMMA ContractsAreFinite == IsFiniteSet(Contracts)
<1> DEFINE Sells == {Leg(s, "sell") : s \in Spreads}
           Buys == {Leg(s, "buy") : s \in Spreads}
<1>1. IsFiniteSet(Spreads)
  BY ExitsAssumption
<1>2. IsFiniteSet(Sells)
  <2>1. [s \in Spreads |-> Leg(s, "sell")] \in Surjection(Spreads, Sells)
    BY DEF Surjection, Range
  <2> QED
    BY <1>1, <2>1, FS_Surjection
<1>3. IsFiniteSet(Buys)
  <2>1. [s \in Spreads |-> Leg(s, "buy")] \in Surjection(Spreads, Buys)
    BY DEF Surjection, Range
  <2> QED
    BY <1>1, <2>1, FS_Surjection
<1>4. Contracts = Sells \cup Buys
  BY DEF Contracts
<1> QED
  BY <1>2, <1>3, <1>4, FS_Union

LEMMA NetIsASum == \A g : Net(g) = SumOf(qty, OfGroup(g))
  BY DEF Net, OfGroup, SumOf, SumFunctionOnSet, FoldFunctionOnSet, MapThenSumSet

\* A step that opens nothing, touches nothing new, and takes from the account a
\* whole group or contracts that were touched.
Quiet ==
    /\ UNCHANGED <<view, lots, scenario>>
    /\ \A r \in Runs : Idle(r) => Idle(r)'
    /\ \A r \in Live : left'[r] = left[r]
    /\ \A c \in Contracts : Touched(c)' <=> Touched(c)
    /\ \A c \in Contracts : (qty'[c] # 0 => qty[c] # 0) /\ (resting'[c] # 0 => resting[c] # 0)
    /\ \A g \in Groups :
          \/ \A c \in OfGroup(g) : qty'[c] = 0
          \/ \A c \in OfGroup(g) : /\ qty'[c] = qty[c] \/ Touched(c)
                                   /\ resting'[c] = qty'[c] => resting[c] = qty[c]

LEMMA NothingNew ==
    ASSUME NEW g
    PROVE  SumOf([c \in Contracts |-> 0], OfGroup(g)) = 0
<1> DEFINE f == [c \in Contracts |-> 0]
<1>1. f \in [Contracts -> Int] /\ OfGroup(g) \in SUBSET Contracts
  BY DEF OfGroup
<1>2. \A c \in OfGroup(g) : f[c] = 0
  BY DEF OfGroup
<1> HIDE DEF f
<1>3. SumOf(f, OfGroup(g)) = 0
  BY <1>1, <1>2, ContractsAreFinite, SumOfOpposites
<1> QED
  BY <1>3 DEF f

LEMMA QuietSince ==
    ASSUME Quiet, NEW g \in Groups, NEW new \in [Contracts -> Int], Since(new, g)
    PROVE  \E old \in [Contracts -> Int] : Since(old, g)'
<1>1. CASE \A c \in OfGroup(g) : qty'[c] = 0
  <2>1. PICK old : old = [c \in Contracts |-> 0]
    OBVIOUS
  <2>0. old \in [Contracts -> Int]
    BY <2>1
  <2>2. SumOf(old, OfGroup(g)) = 0
    BY <2>1, NothingNew
  <2>3. \A c \in OfGroup(g) : old[c] = 0
    BY <2>1 DEF OfGroup
  <2>4. Since(old, g)'
    BY <1>1, <2>2, <2>3 DEF Since
  <2> QED
    BY <2>0, <2>4
<1>2. CASE \A c \in OfGroup(g) : /\ qty'[c] = qty[c] \/ Touched(c)
                                 /\ resting'[c] = qty'[c] => resting[c] = qty[c]
  <2>1. \A c \in OfGroup(g) : Touched(c)' <=> Touched(c)
    BY DEF Quiet, OfGroup
  <2>2. Since(new, g)'
    BY <1>2, <2>1 DEF Since
  <2> QED
    BY <2>2
<1> QED
  BY <1>1, <1>2 DEF Quiet

LEMMA QuietAccounted ==
    ASSUME ExitsType, Accounted, Quiet
    PROVE  Accounted'
<1>1. Faults' = Faults /\ lots' = lots /\ view' = view
  BY DEF Quiet, Faults
<1>2. \A c \in Contracts : resting'[c] # 0 => Touched(c)'
  BY DEF Quiet, Accounted
<1>3. \A c \in Contracts : Touched(c)' => \E l \in lots' : c \in Legs(l)
  BY <1>1 DEF Quiet, Accounted
<1>4. ASSUME "overlap" \notin Faults PROVE OneAtATime'
  <2>1. OneAtATime
    BY <1>4 DEF Accounted
  <2>2. \A r, x \in Runs : ~ Idle(r)' /\ ~ Idle(x)' => r = x
    BY <2>1 DEF Quiet, OneAtATime
  <2>3. \A r \in Live : \A c \in Contracts : ~ Idle(r)' /\ qty'[c] # 0 => Read(r, c)'
    BY <1>1, <2>1, ExitsAssumption DEF Quiet, OneAtATime, Read
  <2>4. \A r \in Live : \A c \in left'[r] : \A d \in Contracts :
          Group(d) = Group(c) /\ qty'[d] # 0 => Touched(d)'
    BY <2>1 DEF Quiet, OneAtATime
  <2>5. \A g \in Groups : \E new \in [Contracts -> Int] : Since(new, g)'
    BY <2>1, QuietSince DEF OneAtATime
  <2> QED
    BY <2>2, <2>3, <2>4, <2>5 DEF OneAtATime
<1>5. ASSUME "overlap" \in Faults, NEW l \in lots, ~ LegShared(GroupOf(l))'
      PROVE  BothOrNeither(Leg(l.spread, "sell"), Leg(l.spread, "buy"))'
  <2>1. ~ LegShared(GroupOf(l))
    BY <1>1, <1>5 DEF LegShared
  <2> DEFINE sell == Leg(l.spread, "sell")
             buy == Leg(l.spread, "buy")
  <2>2. /\ sell \in Contracts /\ buy \in Contracts
        /\ GroupOf(l) \in Groups /\ sell \in OfGroup(GroupOf(l)) /\ buy \in OfGroup(GroupOf(l))
    <3>1. l.spread \in Spreads
      BY DEF ExitsType
    <3> QED
      BY <3>1, LegFacts, ContractFacts DEF OfGroup, GroupOf
  <2>3. BothOrNeither(sell, buy)
    BY <1>5, <2>1 DEF Accounted
  <2> HIDE DEF sell, buy
  <2>4. (Touched(sell)' <=> Touched(sell)) /\ (Touched(buy)' <=> Touched(buy))
    BY <2>2 DEF Quiet
  <2>5. ~ Touched(sell) =>
          (qty'[sell] = qty[sell] /\ qty'[buy] = qty[buy]) \/ (qty'[sell] = 0 /\ qty'[buy] = 0)
    BY <2>2, <2>3 DEF Quiet, BothOrNeither
  <2>6. \A r \in Live : ~ Idle(r)' /\ ~ Touched(sell)' => (Read(r, sell)' <=> Read(r, buy)')
    BY <1>1, <2>3, <2>4, ExitsAssumption DEF Quiet, BothOrNeither, Read
  <2>7. BothOrNeither(sell, buy)'
    BY <2>3, <2>4, <2>5, <2>6 DEF BothOrNeither
  <2> QED
    BY <2>7 DEF sell, buy
<1> QED
  BY <1>1, <1>2, <1>3, <1>4, <1>5 DEF Accounted, GroupOf

LEMMA FillCloseQuiet ==
    ASSUME ExitsType, Accounted, NEW c \in Contracts, FillClose(c) PROVE Quiet
<1>1. /\ resting[c] # 0 /\ resting' = [resting EXCEPT ![c] = 0]
      /\ qty' = [qty EXCEPT ![c] = qty[c] - resting[c]]
      /\ UNCHANGED <<stage, view, left, lots, events, scenario>>
  BY DEF FillClose, Keeps, runVars
<1>2. qty[c] # 0 /\ qty[c] \in Int /\ resting[c] \in Int
  BY <1>1 DEF ExitsType
<1>3. Touched(c)
  BY <1>1 DEF Accounted
<1>4. \A d \in Contracts : d # c => qty'[d] = qty[d] /\ resting'[d] = resting[d]
  BY <1>1 DEF ExitsType
<1>5. resting'[c] = 0 /\ qty'[c] = qty[c] - resting[c]
  BY <1>1 DEF ExitsType
<1>6. resting'[c] = qty'[c] => resting[c] = qty[c]
  BY <1>2, <1>5
<1>7. \A d \in Contracts : Touched(d)' <=> Touched(d)
  BY <1>1 DEF Touched
<1>8. \A r \in Runs : Idle(r) => Idle(r)'
  BY <1>1 DEF Idle
<1> QED
  BY <1>1, <1>2, <1>3, <1>4, <1>5, <1>6, <1>7, <1>8 DEF Quiet, OfGroup

LEMMA NextDayQuiet ==
    ASSUME ExitsType, NextDay PROVE Quiet
<1>1. /\ UNCHANGED <<stage, view, left, lots, events, scenario>>
      /\ \A c \in Contracts : /\ resting'[c] = 0
                              /\ qty'[c] = IF c.expiry <= today THEN 0 ELSE qty[c]
  BY DEF NextDay, runVars
<1>2. \A d \in Contracts : Touched(d)' <=> Touched(d)
  BY <1>1 DEF Touched
<1>3. \A r \in Runs : Idle(r) => Idle(r)'
  BY <1>1 DEF Idle
<1>4. ASSUME NEW g \in Groups
      PROVE  \/ \A c \in OfGroup(g) : qty'[c] = 0
             \/ \A c \in OfGroup(g) : qty'[c] = qty[c]
  <2>1. \A c \in OfGroup(g) : c \in Contracts /\ c.expiry = g[2]
    BY ContractFacts DEF OfGroup
  <2>2. CASE g[2] <= today
    BY <1>1, <2>1, <2>2
  <2>3. CASE ~ g[2] <= today
    BY <1>1, <2>1, <2>3
  <2> QED
    BY <2>2, <2>3
<1>5. \A c \in Contracts : resting'[c] = qty'[c] /\ qty'[c] = qty[c] => resting[c] = qty[c]
  BY <1>1 DEF ExitsType
<1>6. \A g \in Groups : \A c \in OfGroup(g) : c \in Contracts
  BY DEF OfGroup
<1> QED
  BY <1>1, <1>2, <1>3, <1>4, <1>5, <1>6 DEF Quiet

LEMMA StillQuiet ==
    ASSUME ExitsType, MoveMarket \/ UNCHANGED vars PROVE Quiet
<1>1. UNCHANGED <<stage, view, left, lots, qty, resting, events, scenario>>
  BY DEF MoveMarket, vars, runVars, account
<1>2. \A d \in Contracts : Touched(d)' <=> Touched(d)
  BY <1>1 DEF Touched
<1>3. \A r \in Runs : Idle(r) => Idle(r)'
  BY <1>1 DEF Idle
<1> QED
  BY <1>1, <1>2, <1>3 DEF Quiet

LEMMA DryRunQuiet ==
    ASSUME ExitsType, NEW r \in Runs, r \notin Live, ManageExits(r) PROVE Quiet
<1>1. PICK symbols \in Upcoming(r) : \E c \in symbols : Pass(r, symbols, c)
  BY ManageExitsPasses
<1>2. PICK c \in symbols : Pass(r, symbols, c)
  BY <1>1
<1>3. /\ events' = events \cup {[symbol |-> c, status |-> "dry_run"]}
      /\ UNCHANGED <<qty, resting>>
  BY <1>2 DEF Pass, ClosePosition, Journal
<1>4. /\ UNCHANGED <<view, lots, scenario>> /\ ~ Idle(r)
      /\ \A x \in Live : left'[x] = left[x]
      /\ \A x \in Runs : Idle(x) => Idle(x)'
  BY <1>2, ManageExitsPasses, ExitsAssumption DEF Pass, ExitsType, Idle
<1>5. \A e \in events' : e \in events \/ e.status = "dry_run"
  BY <1>3
<1>6. events \subseteq events'
  BY <1>3
<1>7. \A d \in Contracts : Touched(d)' <=> Touched(d)
  BY <1>4, <1>5, <1>6 DEF Touched
<1> QED
  BY <1>3, <1>4, <1>7 DEF Quiet

-----------------------------------------------------------------------------
\* The account is read.
LEMMA BuildPortfolioAccounted ==
    ASSUME ExitsType, Accounted, NEW r \in Runs, BuildPortfolio(r)
    PROVE  Accounted'
<1>1. PICK rows : rows = Positions
  OBVIOUS
<1>2. /\ Idle(r) /\ view' = [view EXCEPT ![r] = rows]
      /\ \A x \in Runs : x # r => stage'[x] = stage[x]
      /\ UNCHANGED <<left, lots, qty, resting, events, scenario>>
  BY <1>1 DEF BuildPortfolio, account, ExitsType
<1>3. \A c \in Contracts : Read(r, c)' <=> qty[c] # 0
  <2>1. view'[r] = rows
    BY <1>2 DEF ExitsType
  <2>2. \A c \in Contracts : (\E p \in rows : p.symbol = c) <=> qty[c] # 0
    BY <1>1, PositionRows, RowFields
  <2> QED
    BY <2>1, <2>2 DEF Read
<1>4. \A x \in Runs : x # r => (Idle(x)' <=> Idle(x)) /\ \A c : Read(x, c)' <=> Read(x, c)
  BY <1>2 DEF Idle, Read, ExitsType
<1>5. \A c : Touched(c)' <=> Touched(c)
  BY <1>2 DEF Touched
<1>6. Faults' = Faults
  BY <1>2 DEF Faults
<1>7. ASSUME "overlap" \notin Faults PROVE OneAtATime'
  <2>1. OneAtATime
    BY <1>7 DEF Accounted
  <2>2. \A x \in Runs : Idle(x)
    BY <1>7 DEF BuildPortfolio
  <2>3. \A x, y \in Runs : ~ Idle(x)' /\ ~ Idle(y)' => x = y
    BY <1>4, <2>2
  <2>4. \A x \in Live : \A c \in Contracts : ~ Idle(x)' /\ qty'[c] # 0 => Read(x, c)'
    BY <1>2, <1>3, <1>4, <2>2, ExitsAssumption
  <2>5. \A x \in Live : \A c \in left'[x] : \A d \in Contracts :
          Group(d) = Group(c) /\ qty'[d] # 0 => Touched(d)'
    BY <1>2, <1>5, <2>1 DEF OneAtATime
  <2>6. \A g \in Groups : \A new : Since(new, g) => Since(new, g)'
    BY <1>2, <1>5 DEF Since
  <2>7. \A g \in Groups : \E new \in [Contracts -> Int] : Since(new, g)'
    BY <2>1, <2>6 DEF OneAtATime
  <2> QED
    BY <2>3, <2>4, <2>5, <2>7 DEF OneAtATime
<1>8. ASSUME "overlap" \in Faults, NEW l \in lots, ~ LegShared(GroupOf(l))'
      PROVE  BothOrNeither(Leg(l.spread, "sell"), Leg(l.spread, "buy"))'
  <2>1. ~ LegShared(GroupOf(l))
    BY <1>2, <1>6, <1>8 DEF LegShared
  <2> DEFINE sell == Leg(l.spread, "sell")
             buy == Leg(l.spread, "buy")
  <2>2. sell \in Contracts /\ buy \in Contracts
    <3>1. l.spread \in Spreads
      BY DEF ExitsType
    <3> QED
      BY <3>1, LegFacts
  <2>3. BothOrNeither(sell, buy)
    BY <1>8, <2>1 DEF Accounted
  <2> HIDE DEF sell, buy
  <2>4. ASSUME NEW x \in Live, ~ Idle(x)', ~ Touched(sell)'
        PROVE  Read(x, sell)' <=> Read(x, buy)'
    <3>1. CASE x = r
      BY <1>3, <1>5, <2>2, <2>3, <2>4, <3>1 DEF BothOrNeither
    <3>2. CASE x # r
      BY <1>4, <1>5, <2>3, <2>4, <3>2, ExitsAssumption DEF BothOrNeither
    <3> QED
      BY <3>1, <3>2
  <2>5. BothOrNeither(sell, buy)'
    BY <1>2, <1>5, <2>3, <2>4 DEF BothOrNeither
  <2> QED
    BY <2>5 DEF sell, buy
<1> QED
  BY <1>2, <1>5, <1>6, <1>7, <1>8 DEF Accounted, GroupOf

-----------------------------------------------------------------------------
\* A live run closes contract c of the contracts symbols.
LivePass(r, symbols, c) ==
    /\ ~ Idle(r) /\ UNCHANGED <<view, lots, scenario>>
    /\ \A x \in Runs : Idle(x) => Idle(x)'
    /\ \A x \in Runs : x # r => left'[x] = left[x]
    /\ left'[r] = symbols \ {c}
    \* Who is touched now was, or is of this group.
    /\ \A d : Touched(d)' <=> Touched(d) \/ d \in symbols
    /\ \A d \in Contracts : d # c => qty'[d] = qty[d] /\ resting'[d] = resting[d]
    /\ qty'[c] # 0 => qty[c] # 0
    \* The group in progress, or all that was read of one that is due.
    /\ \/ symbols = left[r]
       \/ \E g \in due[r] : symbols = {p.symbol : p \in {q \in view[r] : Group(q.symbol) = g}}

LEMMA ManageExitsTouches ==
    ASSUME ExitsType, NEW r \in Live, ManageExits(r)
    PROVE  \E symbols \in SUBSET Contracts : \E c \in symbols : LivePass(r, symbols, c)
<1>1. PICK symbols \in Upcoming(r) : \E c \in symbols : Pass(r, symbols, c)
  BY ManageExitsPasses, ExitsAssumption
<1>2. PICK c \in symbols : Pass(r, symbols, c)
  BY <1>1
<1>3. /\ symbols \in SUBSET Contracts /\ c \in Contracts /\ r \in Runs
      /\ left[r] # {} => symbols = left[r]
      /\ left[r] = {} => \E g \in due[r] :
            symbols = {p.symbol : p \in {q \in view[r] : Group(q.symbol) = g}}
  BY UpcomingFacts, ExitsAssumption
<1>4. /\ ~ Idle(r) /\ UNCHANGED <<view, lots, scenario>>
      /\ \A x \in Runs : Idle(x) => Idle(x)'
      /\ \A x \in Runs : x # r => left'[x] = left[x]
      /\ left'[r] = symbols \ {c}
  BY <1>2, <1>3, ManageExitsPasses DEF Pass, ExitsType, Idle
<1>5. PICK status \in {"submitted", "failed"} :
        events' = events \cup {[symbol |-> c, status |-> status]}
  BY <1>2 DEF Pass, ClosePosition, Journal
<1>6. ASSUME NEW d PROVE Touched(d)' <=> Touched(d) \/ d \in symbols
  <2>1. (\E x \in Live : d \in left'[x]) <=>
          d \in symbols \ {c} \/ \E x \in Live : x # r /\ d \in left[x]
    BY <1>4, ExitsAssumption
  <2>2. (\E e \in events' : e.symbol = d /\ e.status # "dry_run") <=>
          d = c \/ \E e \in events : e.symbol = d /\ e.status # "dry_run"
    <3>1. PICK one : one = [symbol |-> c, status |-> status]
      OBVIOUS
    <3>2. one.symbol = c /\ one.status # "dry_run"
      BY <3>1
    <3>3. events' = events \cup {one}
      BY <1>5, <3>1
    <3> QED
      BY <3>2, <3>3
  <2>3. d \in left[r] => d \in symbols
    BY <1>3
  <2> QED
    BY <2>1, <2>2, <2>3 DEF Touched
<1>7. /\ \A d \in Contracts : d # c => qty'[d] = qty[d] /\ resting'[d] = resting[d]
      /\ qty'[c] # 0 => qty[c] # 0
  <2>1. \/ qty' = qty /\ resting' = resting
        \/ qty' = [qty EXCEPT ![c] = 0] /\ resting[c] = 0 /\ resting' = resting
        \/ qty' = qty /\ resting' = [resting EXCEPT ![c] = qty[c]]
    BY <1>2, <1>3, CloseFacts DEF Pass
  <2> QED
    BY <1>3, <2>1 DEF ExitsType
<1>8. LivePass(r, symbols, c)
  BY <1>3, <1>4, <1>6, <1>7 DEF LivePass
<1> QED
  BY <1>3, <1>8

LEMMA LivePassAccounted ==
    ASSUME ExitsType, ExitsType', RowsAreOfLots, Accounted,
           NEW r \in Live, NEW symbols \in SUBSET Contracts, NEW c \in symbols,
           LivePass(r, symbols, c)
    PROVE  Accounted'
<1>1. /\ r \in Runs /\ c \in Contracts
      /\ Faults' = Faults /\ UNCHANGED <<view, lots>>
      /\ ~ Idle(r) /\ \A x \in Runs : Idle(x) => Idle(x)'
      /\ \A d : Touched(d)' <=> Touched(d) \/ d \in symbols
      /\ \A d \in Contracts : d # c => qty'[d] = qty[d] /\ resting'[d] = resting[d]
      /\ qty'[c] # 0 => qty[c] # 0
  BY ExitsAssumption DEF LivePass, Faults
<1>2. \A x \in Runs : \A d : Read(x, d)' <=> Read(x, d)
  BY <1>1 DEF Read
<1>3. \A d : d \in left[r] => Touched(d)
  BY DEF Touched
\* A group just begun: what was read of it.
<1>4. \/ symbols = left[r]
      \/ \E g : \A d \in Contracts : d \in symbols <=> Read(r, d) /\ Group(d) = g
  <2>1. ASSUME NEW g, symbols = {p.symbol : p \in {q \in view[r] : Group(q.symbol) = g}}
        PROVE  \A d \in Contracts : d \in symbols <=> Read(r, d) /\ Group(d) = g
    BY <2>1 DEF Read
  <2>2. symbols = left[r] \/ \E g :
          symbols = {p.symbol : p \in {q \in view[r] : Group(q.symbol) = g}}
    BY DEF LivePass
  <2> QED
    BY <2>1, <2>2
<1>5. \A d \in Contracts : resting'[d] # 0 => Touched(d)'
  BY <1>1 DEF Accounted
<1>6. ASSUME NEW d \in Contracts, Touched(d)' PROVE \E l \in lots' : d \in Legs(l)
  <2>1. CASE Touched(d)
    BY <1>1, <2>1 DEF Accounted
  <2>2. CASE Read(r, d)
    BY <1>1, <2>2 DEF Read, RowsAreOfLots
  <2> QED
    BY <1>1, <1>3, <1>4, <1>6, <2>1, <2>2
<1>7. ASSUME "overlap" \notin Faults PROVE OneAtATime'
  <2>1. OneAtATime
    BY <1>7 DEF Accounted
  <2>2. \A d \in Contracts : qty'[d] # 0 => qty[d] # 0
    BY <1>1
  <2>3. \A d \in Contracts : Group(d) = Group(c) /\ qty[d] # 0 => Touched(d)'
    <3>1. CASE symbols = left[r]
      BY <1>1, <2>1, <3>1 DEF OneAtATime
    <3>2. CASE \E g : \A d \in Contracts : d \in symbols <=> Read(r, d) /\ Group(d) = g
      BY <1>1, <2>1, <3>2 DEF OneAtATime
    <3> QED
      BY <1>4, <3>1, <3>2
  <2>4. \A x, y \in Runs : ~ Idle(x)' /\ ~ Idle(y)' => x = y
    BY <1>1, <2>1 DEF OneAtATime
  <2>5. \A x \in Live : \A d \in Contracts : ~ Idle(x)' /\ qty'[d] # 0 => Read(x, d)'
    BY <1>1, <1>2, <2>1, <2>2, ExitsAssumption DEF OneAtATime
  <2>6. ASSUME NEW x \in Live, NEW e \in left'[x], NEW d \in Contracts,
               Group(d) = Group(e), qty'[d] # 0
        PROVE  Touched(d)'
    <3>1. CASE e \in left[x]
      BY <1>1, <2>1, <2>2, <2>6, <3>1 DEF OneAtATime
    <3>2. CASE e \notin left[x]
      <4>1. x = r /\ e \in symbols /\ symbols # left[r]
        BY <2>6, <3>2, ExitsAssumption DEF LivePass
      <4>2. Group(e) = Group(c)
        BY <1>1, <1>4, <4>1
      <4> QED
        BY <2>2, <2>3, <2>6, <4>2
    <3> QED
      BY <3>1, <3>2
  <2>7. ASSUME NEW g \in Groups PROVE \E new \in [Contracts -> Int] : Since(new, g)'
    <3>1. CASE g = Group(c)
      <4>1. PICK none : none = [d \in Contracts |-> 0]
        OBVIOUS
      <4>2. none \in [Contracts -> Int] /\ SumOf(none, OfGroup(g)) = 0
        BY <4>1, NothingNew
      <4>3. \A d \in OfGroup(g) : none[d] = 0 /\ (~ Touched(d)' => qty'[d] = 0)
        BY <2>2, <2>3, <3>1, <4>1 DEF OfGroup
      <4>4. Since(none, g)'
        BY <4>2, <4>3 DEF Since
      <4> QED
        BY <4>2, <4>4
    <3>2. CASE g # Group(c)
      <4>1. PICK new \in [Contracts -> Int] : Since(new, g)
        BY <2>1 DEF OneAtATime
      <4>2. \A d \in OfGroup(g) : qty'[d] = qty[d] /\ resting'[d] = resting[d]
        BY <1>1, <3>2 DEF OfGroup
      <4>3. Since(new, g)'
        BY <1>1, <4>1, <4>2 DEF Since
      <4> QED
        BY <4>3
    <3> QED
      BY <3>1, <3>2
  <2> QED
    BY <2>4, <2>5, <2>6, <2>7 DEF OneAtATime
<1>8. ASSUME "overlap" \in Faults, NEW l \in lots, ~ LegShared(GroupOf(l))'
      PROVE  BothOrNeither(Leg(l.spread, "sell"), Leg(l.spread, "buy"))'
  <2>1. ~ LegShared(GroupOf(l))
    BY <1>1, <1>8 DEF LegShared
  <2> DEFINE sell == Leg(l.spread, "sell")
             buy == Leg(l.spread, "buy")
  <2>2. sell \in Contracts /\ buy \in Contracts /\ Group(sell) = Group(buy)
    <3>1. l.spread \in Spreads
      BY DEF ExitsType
    <3> QED
      BY <3>1, LegFacts
  <2>3. BothOrNeither(sell, buy)
    BY <1>8, <2>1 DEF Accounted
  <2> HIDE DEF sell, buy
  <2>4. Touched(sell)' <=> Touched(buy)'
    <3>1. CASE symbols = left[r]
      BY <1>1, <1>3, <2>3, <3>1 DEF BothOrNeither
    <3>2. CASE \E g : \A d \in Contracts : d \in symbols <=> Read(r, d) /\ Group(d) = g
      <4>1. CASE Touched(sell)
        BY <1>1, <2>3, <4>1 DEF BothOrNeither
      <4>2. CASE ~ Touched(sell)
        BY <1>1, <2>2, <2>3, <3>2, <4>2 DEF BothOrNeither
      <4> QED
        BY <4>1, <4>2
    <3> QED
      BY <1>4, <3>1, <3>2
  <2>5. ~ Touched(sell)' =>
          (qty'[sell] = -1 /\ qty'[buy] = 1) \/ (qty'[sell] = 0 /\ qty'[buy] = 0)
    BY <1>1, <2>2, <2>3, <2>4 DEF BothOrNeither
  <2>6. \A x \in Live : ~ Idle(x)' /\ ~ Touched(sell)' => (Read(x, sell)' <=> Read(x, buy)')
    BY <1>1, <1>2, <2>3, ExitsAssumption DEF BothOrNeither
  <2>7. BothOrNeither(sell, buy)'
    BY <2>4, <2>5, <2>6 DEF BothOrNeither
  <2> QED
    BY <2>7 DEF sell, buy
<1> QED
  BY <1>1, <1>5, <1>6, <1>7, <1>8 DEF Accounted, GroupOf

-----------------------------------------------------------------------------
\* An entry fills.
LEMMA OpenSpreadAccounted ==
    ASSUME ExitsType, ExitsType', RowsAreOfLots, Accounted,
           NEW s \in Spreads, OpenSpread(s)
    PROVE  Accounted'
<1> DEFINE sell == Leg(s, "sell")
           buy == Leg(s, "buy")
           lot == [spread |-> s, credit |-> mark[sell] - mark[buy]]
<1>1. /\ sell \in Contracts /\ buy \in Contracts /\ sell # buy
      /\ Group(sell) = GroupOf(lot) /\ Group(buy) = GroupOf(lot)
  BY LegFacts DEF GroupOf
<1>2. /\ lots' = lots \cup {lot} /\ lot \notin lots /\ Legs(lot) = {sell, buy}
      /\ lot.spread = s
      /\ qty[sell] = 0 /\ qty[buy] >= 0
      /\ UNCHANGED <<stage, view, left, resting, events, scenario>>
  BY DEF OpenSpread, Legs, runVars
<1>3. /\ qty'[sell] = -1 /\ qty'[buy] = qty[buy] + 1
      /\ \A c \in Contracts : c # sell /\ c # buy => qty'[c] = qty[c]
  BY <1>1 DEF OpenSpread, ExitsType
<1> HIDE DEF sell, buy, lot
<1>4. Faults' = Faults /\ \A c : Touched(c)' <=> Touched(c)
  BY <1>2 DEF Touched, Faults
<1>5. \A x \in Runs : (Idle(x)' <=> Idle(x)) /\ \A c : Read(x, c)' <=> Read(x, c)
  BY <1>2 DEF Idle, Read
<1>6. ASSUME "overlap" \notin Faults PROVE OneAtATime'
  <2>1. OneAtATime
    BY <1>6 DEF Accounted
  <2>2. \A x \in Runs : Idle(x) /\ left[x] = {}
    BY <1>6 DEF OpenSpread, ExitsType
  <2>3. ASSUME NEW g \in Groups PROVE \E new \in [Contracts -> Int] : Since(new, g)'
    <3>1. PICK old \in [Contracts -> Int] : Since(old, g)
      BY <2>1 DEF OneAtATime
    <3>2. CASE g = GroupOf(lot)
      <4>1. PICK new : new = [old EXCEPT ![sell] = -1, ![buy] = old[buy] + 1]
        OBVIOUS
      <4>2. /\ new \in [Contracts -> Int] /\ new[sell] = -1 /\ new[buy] = old[buy] + 1
            /\ \A c \in Contracts : c # sell /\ c # buy => new[c] = old[c]
        BY <1>1, <4>1
      <4>3. sell \in OfGroup(g) /\ buy \in OfGroup(g) /\ OfGroup(g) \in SUBSET Contracts
        BY <1>1, <3>2 DEF OfGroup
      <4>4. resting[sell] = 0 /\ (resting[buy] = 0 \/ resting[buy] <= qty[buy])
        BY <1>1, <1>2 DEF ExitsType
      <4>5. old[sell] = 0
        BY <1>2, <3>1, <4>3, <4>4 DEF Since
      <4>6. new[sell] + new[buy] = old[sell] + old[buy]
        BY <4>2, <4>3, <4>5
      <4>7. SumOf(old, OfGroup(g)) = SumOf(new, OfGroup(g))
        <5>1. \A c \in OfGroup(g) : c # sell /\ c # buy => old[c] = new[c]
          BY <4>2, <4>3
        <5> QED
          BY <1>1, <4>2, <4>3, <4>6, <5>1, ContractsAreFinite, SumOfExchange
      <4>8. /\ ~ Touched(sell) => new[sell] = qty'[sell]
            /\ ~ Touched(buy) => new[buy] = qty'[buy]
            /\ resting[sell] # qty'[sell] /\ resting[buy] # qty'[buy]
        <5>1. qty[buy] \in Int /\ resting[buy] \in Int
          BY <1>1 DEF ExitsType
        <5>2. resting[buy] # qty'[buy]
          BY <1>2, <1>3, <4>4, <5>1
        <5> QED
          BY <1>3, <3>1, <4>2, <4>3, <4>4, <5>2 DEF Since
      <4>9. Since(new, g)'
        <5>1. ASSUME NEW c \in OfGroup(g)
              PROVE  /\ ~ Touched(c)' => new[c] = qty'[c]
                     /\ resting'[c] = qty'[c] => new[c] = 0
          BY <1>2, <1>3, <1>4, <3>1, <4>2, <4>3, <4>8 DEF Since
        <5> QED
          BY <3>1, <4>7, <5>1 DEF Since
      <4> QED
        BY <4>2, <4>9
    <3>3. CASE g # GroupOf(lot)
      <4>1. \A c \in OfGroup(g) : qty'[c] = qty[c] /\ resting'[c] = resting[c]
        BY <1>1, <1>2, <1>3, <3>3 DEF OfGroup
      <4>2. Since(old, g)'
        BY <1>4, <3>1, <4>1 DEF Since
      <4> QED
        BY <4>2
    <3> QED
      BY <3>2, <3>3
  <2>4. /\ \A x \in Runs : Idle(x)' /\ left'[x] = {}
    BY <1>2, <1>5, <2>2
  <2> QED
    BY <2>3, <2>4, ExitsAssumption DEF OneAtATime
<1>7. ASSUME "overlap" \in Faults, NEW l \in lots', ~ LegShared(GroupOf(l))'
      PROVE  BothOrNeither(Leg(l.spread, "sell"), Leg(l.spread, "buy"))'
  <2>1. \A m \in lots' : m # l => Legs(m) \cap Legs(l) = {}
    <3> SUFFICES ASSUME NEW m \in lots', m # l, NEW c \in Legs(m) \cap Legs(l) PROVE FALSE
      OBVIOUS
    <3>1. Group(c) = GroupOf(l)
      <4>1. l.spread \in Spreads
        BY DEF ExitsType
      <4> QED
        BY <4>1, LegsOfGroup
    <3> QED
      BY <1>4, <1>7, <3>1 DEF LegShared
  <2>2. CASE l = lot
    <3>1. Legs(l) = {sell, buy} /\ Leg(l.spread, "sell") = sell /\ Leg(l.spread, "buy") = buy
      BY <1>2, <2>2 DEF sell, buy
    <3>2. \A m \in lots : sell \notin Legs(m) /\ buy \notin Legs(m)
      BY <1>2, <2>1, <2>2, <3>1
    <3>3. ~ Touched(sell) /\ ~ Touched(buy)
      BY <1>1, <3>2 DEF Accounted
    <3>4. qty[buy] = 0
      BY <1>1, <3>2 DEF RowsAreOfLots
    <3>5. \A x \in Runs : ~ Read(x, sell) /\ ~ Read(x, buy)
      BY <3>2 DEF Read, RowsAreOfLots
    <3>6. BothOrNeither(sell, buy)'
      BY <1>3, <1>4, <1>5, <3>3, <3>4, <3>5, ExitsAssumption DEF BothOrNeither
    <3> QED
      BY <3>1, <3>6
  <2>3. CASE l # lot
    <3>1. l \in lots /\ l.spread \in Spreads
      BY <1>2, <2>3 DEF ExitsType
    <3>2. ~ LegShared(GroupOf(l))
      BY <1>2, <1>4, <1>7 DEF LegShared
    <3>3. PICK a \in Contracts, b \in Contracts :
            a = Leg(l.spread, "sell") /\ b = Leg(l.spread, "buy")
      BY <3>1, LegFacts
    <3>4. BothOrNeither(a, b)
      BY <1>7, <3>1, <3>2, <3>3 DEF Accounted
    <3>5. a \in Legs(l) /\ b \in Legs(l)
      BY <3>3 DEF Legs
    <3>6. sell \notin Legs(l) /\ buy \notin Legs(l)
      BY <1>2, <2>1, <2>3
    <3>7. qty'[a] = qty[a] /\ qty'[b] = qty[b]
      BY <1>3, <3>5, <3>6
    <3>8. BothOrNeither(a, b)'
      BY <1>4, <1>5, <3>4, <3>7, ExitsAssumption DEF BothOrNeither
    <3> QED
      BY <3>3, <3>8
  <2> QED
    BY <2>2, <2>3
<1>8. \A c \in Contracts : resting'[c] # 0 => Touched(c)'
  BY <1>2, <1>4 DEF Accounted
<1>9. \A c \in Contracts : Touched(c)' => \E l \in lots' : c \in Legs(l)
  BY <1>2, <1>4 DEF Accounted
<1> QED
  BY <1>4, <1>6, <1>7, <1>8, <1>9 DEF Accounted, GroupOf

-----------------------------------------------------------------------------
LEMMA StepOrphanInv == ASSUME OrphanInv, [Next]_vars PROVE OrphanInv'
<1>1. ExitsType /\ RowsAreOfLots /\ ExitsType' /\ crashes \in Nat
  BY StepType DEF OrphanInv, ExitsType
<1>2. RowsAreOfLots'
  BY <1>1, StepAccount, StepRows
<1>3. ASSUME Accounted, NEW r \in Runs, BuildPortfolio(r) \/ ManageExits(r)
      PROVE  Accounted' /\ crashes' = crashes
  <2>1. CASE BuildPortfolio(r)
    BY <1>1, <1>3, <2>1, BuildPortfolioAccounted DEF BuildPortfolio
  <2>2. CASE ManageExits(r) /\ r \in Live
    BY <1>1, <1>3, <2>2, ManageExitsTouches, LivePassAccounted DEF ManageExits
  <2>3. CASE ManageExits(r) /\ r \notin Live
    BY <1>1, <1>3, <2>3, DryRunQuiet, QuietAccounted DEF ManageExits
  <2> QED
    BY <1>3, <2>1, <2>2, <2>3
<1>4. ASSUME NEW r \in Runs, Crash(r) PROVE crashes' # 0
  BY <1>1, <1>4 DEF Crash
<1>5. ASSUME Accounted, NEW s \in scenario.spreads, OpenSpread(s)
      PROVE  Accounted'
  BY <1>1, <1>5, ScenarioFacts, OpenSpreadAccounted
<1>6. ASSUME Accounted, NEW c \in Contracts, FillClose(c) PROVE Accounted'
  BY <1>1, <1>6, FillCloseQuiet, QuietAccounted
<1>7. ASSUME Accounted, NextDay \/ MoveMarket \/ UNCHANGED vars PROVE Accounted'
  BY <1>1, <1>7, NextDayQuiet, StillQuiet, QuietAccounted
<1>8. Accounted => Accounted' \/ crashes' # 0
  BY <1>3, <1>4, <1>5, <1>6, <1>7 DEF Next
<1>9. crashes' = crashes \/ crashes' # 0
  <2>1. ASSUME NEW r \in Runs, BuildPortfolio(r) \/ ManageExits(r) PROVE crashes' = crashes
    BY <2>1 DEF BuildPortfolio, ManageExits
  <2>2. ASSUME NEW s, OpenSpread(s) PROVE crashes' = crashes
    BY <2>2 DEF OpenSpread
  <2>3. ASSUME NEW c, FillClose(c) PROVE crashes' = crashes
    BY <2>3 DEF FillClose
  <2>4. NextDay \/ MoveMarket \/ UNCHANGED vars => crashes' = crashes
    BY DEF NextDay, MoveMarket, vars
  <2> QED
    BY <1>4, <2>1, <2>2, <2>3, <2>4 DEF Next
<1> QED
  BY <1>1, <1>2, <1>8, <1>9 DEF OrphanInv

LEMMA InitOrphanInv == Init => OrphanInv
<1> SUFFICES ASSUME Init PROVE OrphanInv
  OBVIOUS
<1>1. ExitsType /\ RowsAreOfLots
  BY InitBandInv DEF BandInv
<1>2. /\ \A c \in Contracts : qty[c] = 0 /\ resting[c] = 0
      /\ \A r \in Runs : Idle(r) /\ left[r] = {}
      /\ lots = {} /\ events = {}
  BY DEF Init, Idle
<1>3. \A c : ~ Touched(c)
  BY <1>2, ExitsAssumption DEF Touched
<1>4. ASSUME NEW g \in Groups PROVE \E new \in [Contracts -> Int] : Since(new, g)
  <2>1. PICK none : none = [c \in Contracts |-> 0]
    OBVIOUS
  <2>2. none \in [Contracts -> Int] /\ SumOf(none, OfGroup(g)) = 0
    BY <2>1, NothingNew
  <2>3. \A c \in OfGroup(g) : none[c] = 0 /\ qty[c] = 0
    BY <1>2, <2>1 DEF OfGroup
  <2> QED
    BY <2>2, <2>3 DEF Since
<1>5. OneAtATime
  BY <1>2, <1>4, ExitsAssumption DEF OneAtATime
<1> QED
  BY <1>1, <1>2, <1>3, <1>5 DEF OrphanInv, Accounted

\* What nobody has touched nets to nothing.
LEMMA UntouchedNets ==
    ASSUME OrphanInv, crashes = 0, NEW g \in Groups, ~ Explained(g), ~ LegShared(g)
    PROVE  Net(g) = 0
<1>1. ExitsType /\ RowsAreOfLots /\ Accounted /\ qty \in [Contracts -> Int]
  BY DEF OrphanInv, ExitsType
<1>2. OfGroup(g) \in SUBSET Contracts /\ \A c \in OfGroup(g) : c \in Contracts /\ Group(c) = g
  BY DEF OfGroup
<1>3. \A c \in OfGroup(g) : qty[c] # 0 => ~ Touched(c)
  BY <1>2, ExitsAssumption DEF Explained, Touched
<1>4. CASE "overlap" \notin Faults
  <2>1. PICK new \in [Contracts -> Int] : Since(new, g)
    BY <1>1, <1>4 DEF Accounted, OneAtATime
  <2>2. ASSUME NEW c \in OfGroup(g) PROVE qty[c] = new[c]
    <3>1. CASE qty[c] # 0
      BY <1>3, <2>1, <3>1 DEF Since
    <3>2. CASE qty[c] = 0
      BY <1>1, <1>2, <2>1, <3>2 DEF Since, ExitsType
    <3> QED
      BY <3>1, <3>2
  <2>3. SumOf(qty, OfGroup(g)) = SumOf(new, OfGroup(g))
    BY <1>1, <1>2, <2>2, ContractsAreFinite, SumOfSame
  <2> QED
    BY <2>1, <2>3, NetIsASum DEF Since
<1>5. CASE "overlap" \in Faults
  <2> DEFINE Sell(l) == Leg(l.spread, "sell")
             Buy(l) == Leg(l.spread, "buy")
             LotOf(c) == CHOOSE l \in lots : c \in Legs(l)
             other == [c \in Contracts |->
                          IF c = Sell(LotOf(c)) THEN Buy(LotOf(c)) ELSE Sell(LotOf(c))]
  <2>1. ASSUME NEW c \in OfGroup(g), qty[c] # 0
        PROVE  /\ other[c] \in OfGroup(g) /\ other[c] # c
               /\ qty[other[c]] = -qty[c] /\ other[other[c]] = c
    <3>1. PICK l \in lots : l = LotOf(c) /\ c \in Legs(l)
      BY <1>1, <1>2, <2>1 DEF RowsAreOfLots
    <3>2. PICK a \in Contracts, b \in Contracts :
            a = Sell(l) /\ b = Buy(l) /\ a # b /\ Legs(l) = {a, b} /\ Group(a) = Group(b)
            /\ GroupOf(l) = Group(a)
      <4>1. l.spread \in Spreads
        BY <1>1 DEF ExitsType
      <4> QED
        BY <4>1, LegFacts DEF Legs, GroupOf
    <3>3. Group(a) = g /\ a \in OfGroup(g) /\ b \in OfGroup(g) /\ GroupOf(l) = g
      BY <1>2, <3>1, <3>2 DEF OfGroup
    <3>4. BothOrNeither(a, b)
      BY <1>1, <1>5, <3>2, <3>3 DEF Accounted
    <3>5. qty[a] = -1 /\ qty[b] = 1
      BY <1>3, <2>1, <3>1, <3>2, <3>3, <3>4 DEF BothOrNeither
    <3>6. ASSUME NEW d \in {a, b} PROVE LotOf(d) = l
      <4>1. d \in Legs(l) /\ Group(d) = g
        BY <3>2, <3>3, <3>6
      <4>2. \A m \in lots : d \in Legs(m) => m = l
        BY <1>5, <4>1 DEF LegShared
      <4> QED
        BY <4>1, <4>2
    <3>7. other[a] = b /\ other[b] = a
      BY <3>2, <3>6
    <3> HIDE DEF other, LotOf, Sell, Buy
    <3>8. CASE c = a
      BY <3>2, <3>3, <3>5, <3>7, <3>8
    <3>9. CASE c = b
      BY <3>2, <3>3, <3>5, <3>7, <3>9
    <3> QED
      BY <3>1, <3>2, <3>8, <3>9
  <2> HIDE DEF other
  <2>2. SumOf(qty, OfGroup(g)) = 0
    BY <1>1, <1>2, <2>1, ContractsAreFinite, SumOfOpposites
  <2> QED
    BY <2>2, NetIsASum
<1> QED
  BY <1>4, <1>5

\* As long as no process has died, a group that has lost a leg of a spread is
\* still being closed, or the journal holds the close that failed or was never
\* filled (orchestrator.py:246-290); the exception are runs and entries that
\* overlap on spreads sharing a leg.
THEOREM OrphansAreExplained == Spec => []OrphansExplained
<1>1. OrphanInv => OrphansExplained
  BY UntouchedNets DEF OrphanInv, ExitsType, OrphansExplained
<1> QED
  BY <1>1, InitOrphanInv, StepOrphanInv, PTL DEF Spec
=============================================================================
