------------------------- MODULE TradingCycleProofs -------------------------
(***************************************************************************)
(* The cycle implements Desk for every set of runs, underlyings, offers    *)
(* and faults: no order without an approval of the same live run, at the   *)
(* approved size, and no id twice.  Its journal explains its orders.  And  *)
(* an order that fills on a book which its run's snapshot still covers     *)
(* keeps the promise of SafeBook.                                          *)
(***************************************************************************)
EXTENDS TradingCycle, RiskGateProofs, SumTheorems

Executing(r) == pc[r] \in {"lookup", "place", "await"}

DecisionOf(r, s, n) == [run |-> r, spread |-> s, contracts |-> n]

LiveApprovals == {a \in approvals : a.run \in Live}

\* What a run is executing, and what it has sent, has been approved live.
PlansApproved ==
    \A r \in Runs : Executing(r) =>
        DecisionOf(r, plan[r].spread, plan[r].contracts) \in LiveApprovals

WireApproved ==
    \A q \in wire : DecisionOf(q.run, q.spread, q.contracts) \in LiveApprovals

\* The functions are functions over the runs, so that EXCEPT means what it says.
Shape ==
    /\ DOMAIN pc = Runs
    /\ DOMAIN plan = Runs

IInv == Shape /\ PlansApproved /\ WireApproved

Projection(o) == [id |-> o.id, run |-> o.run, spread |-> o.spread, contracts |-> o.contracts]

Placed == {Projection(o) : o \in orders}

\* Ending an underlying's analysis ends the execution of its plan.
LEMMA FinishKeeps ==
    ASSUME IInv, NEW r \in Runs, NEW outcome, Finish(r, outcome),
           approvals \subseteq approvals', wire' = wire
    PROVE  IInv'
  <1>1. /\ pc' = [pc EXCEPT ![r] = NextStop(r)]
        /\ plan' = [plan EXCEPT ![r] = NoPlan]
    BY DEF Finish
  <1>2. Shape'
    <2>1. DOMAIN pc' = Runs
      BY <1>1 DEF IInv, Shape
    <2>2. DOMAIN plan' = Runs
      BY <1>1 DEF IInv, Shape
    <2> QED
      BY <2>1, <2>2 DEF Shape
  <1>3. LiveApprovals \subseteq LiveApprovals'
    BY DEF LiveApprovals
  <1>4. PlansApproved'
    <2> SUFFICES ASSUME NEW x \in Runs, Executing(x)'
                 PROVE  DecisionOf(x, plan[x].spread, plan[x].contracts)' \in LiveApprovals'
      BY DEF PlansApproved
    <2>1. x # r
      BY <1>1 DEF Executing, IInv, Shape, NextStop
    <2>2. pc'[x] = pc[x] /\ plan'[x] = plan[x]
      BY <1>1, <2>1 DEF IInv, Shape
    <2> QED
      BY <1>3, <2>2 DEF IInv, PlansApproved, Executing, DecisionOf
  <1>5. WireApproved'
    BY <1>3 DEF IInv, WireApproved, DecisionOf
  <1> QED
    BY <1>2, <1>4, <1>5 DEF IInv

\* A step that starts no execution and forgets no approval keeps the invariant.
LEMMA MovePcKeeps ==
    ASSUME IInv, NEW r \in Runs, NEW where,
           where \notin {"lookup", "place", "await"} \/ Executing(r),
           pc' = [pc EXCEPT ![r] = where],
           plan' = plan, approvals' = approvals, wire' = wire
    PROVE  IInv'
  <1>1. Shape'
    BY DEF IInv, Shape
  <1>2. LiveApprovals' = LiveApprovals
    BY DEF LiveApprovals
  <1>3. \A x \in Runs : Executing(x)' => Executing(x)
    BY DEF Executing, IInv, Shape
  <1> QED
    BY <1>1, <1>2, <1>3 DEF IInv, PlansApproved, WireApproved, DecisionOf

\* A step that leaves the runs alone, and sends nothing, keeps the invariant.
LEMMA WorldKeeps ==
    ASSUME IInv, pc' = pc, plan' = plan, approvals' = approvals, wire' \subseteq wire
    PROVE  IInv'
  <1>1. LiveApprovals' = LiveApprovals
    BY DEF LiveApprovals
  <1> QED
    BY <1>1 DEF IInv, Shape, PlansApproved, WireApproved, DecisionOf, Executing

-----------------------------------------------------------------------------

LEMMA InitIInv == Init => IInv
  BY DEF Init, IInv, Shape, PlansApproved, WireApproved, Executing

\* An approval that is acted on is recorded first, and the plan is that approval.
LEMMA DecideKeeps ==
    ASSUME IInv, NEW r \in Runs, Decide(r)
    PROVE  IInv' /\ approvals \subseteq approvals'
  <1>1. PICK s \in Offers, requested \in Requests :
          LET verdict == RiskGateCheck(s, snapshot[r], requested)
              n == verdict.contracts
          IN  /\ approvals' = IF verdict.approved
                              THEN approvals \cup {DecisionOf(r, s, n)}
                              ELSE approvals
              /\ \/ Finish(r, "rejected") \/ Finish(r, "not_executed") \/ Finish(r, "dry_run")
                 \/ /\ verdict.approved /\ r \in Live
                    /\ plan' = [plan EXCEPT ![r] =
                          [spread |-> s, contracts |-> n, id |-> ClientOrderId(s, n)]]
                    /\ pc' = [pc EXCEPT ![r] = "lookup"]
    BY Zenon DEF Decide, LogGateDecision, DecisionOf
  <1> DEFINE verdict == RiskGateCheck(s, snapshot[r], requested)
             n == verdict.contracts
             decision == DecisionOf(r, s, n)
             planned == [spread |-> s, contracts |-> n, id |-> ClientOrderId(s, n)]
  <1> HIDE DEF verdict, n, planned
  <1>2. approvals \subseteq approvals' /\ wire' = wire
    BY <1>1 DEF Decide, broker
  <1>3. CASE Finish(r, "rejected") \/ Finish(r, "not_executed") \/ Finish(r, "dry_run")
    BY <1>2, <1>3, FinishKeeps
  <1>4. CASE /\ verdict.approved /\ r \in Live
             /\ plan' = [plan EXCEPT ![r] = planned]
             /\ pc' = [pc EXCEPT ![r] = "lookup"]
    <2>1. decision \in LiveApprovals'
      BY <1>1, <1>4 DEF LiveApprovals, DecisionOf, verdict, n
    <2>2. LiveApprovals \subseteq LiveApprovals'
      BY <1>2 DEF LiveApprovals
    <2>3. Shape'
      <3>1. DOMAIN pc' = Runs
        BY <1>4 DEF IInv, Shape
      <3>2. DOMAIN plan' = Runs
        BY <1>4 DEF IInv, Shape
      <3> QED
        BY <3>1, <3>2 DEF Shape
    <2>4. PlansApproved'
      <3> SUFFICES ASSUME NEW x \in Runs, Executing(x)'
                   PROVE  DecisionOf(x, plan[x].spread, plan[x].contracts)' \in LiveApprovals'
        BY DEF PlansApproved
      <3>1. CASE x = r
        <4>1. plan'[x] = planned
          BY <1>4, <3>1 DEF IInv, Shape
        <4>2. plan'[x].spread = s /\ plan'[x].contracts = n
          BY <4>1 DEF planned
        <4> QED
          BY <2>1, <3>1, <4>2
      <3>2. CASE x # r
        <4>1. pc'[x] = pc[x] /\ plan'[x] = plan[x]
          BY <1>4, <3>2 DEF IInv, Shape
        <4> QED
          BY <2>2, <4>1 DEF IInv, PlansApproved, Executing, DecisionOf
      <3> QED
        BY <3>1, <3>2
    <2>5. WireApproved'
      BY <1>2, <2>2 DEF IInv, WireApproved, DecisionOf
    <2> QED
      BY <1>2, <2>3, <2>4, <2>5 DEF IInv
  <1> QED
    BY <1>1, <1>2, <1>3, <1>4 DEF verdict, n, planned

\* What goes on the wire is the plan.
LEMMA PlaceOrderKeeps ==
    ASSUME IInv, NEW r \in Runs, PlaceOrder(r)
    PROVE  IInv'
  <1>1. /\ pc[r] = "place" /\ pc' = [pc EXCEPT ![r] = "await"] /\ plan' = plan
        /\ approvals' = approvals
        /\ wire' = wire \cup {[id |-> plan[r].id, run |-> r, ticker |-> Ticker(r),
                               spread |-> plan[r].spread, contracts |-> plan[r].contracts]}
    BY DEF PlaceOrder, journal
  <1> DEFINE placement == [id |-> plan[r].id, run |-> r, ticker |-> Ticker(r),
                           spread |-> plan[r].spread, contracts |-> plan[r].contracts]
  <1>2. Shape'
    <2>1. DOMAIN pc' = Runs
      BY <1>1 DEF IInv, Shape
    <2> QED
      BY <1>1, <2>1 DEF IInv, Shape
  <1>3. LiveApprovals' = LiveApprovals
    BY <1>1 DEF LiveApprovals
  <1>4. \A x \in Runs : Executing(x)' => Executing(x)
    BY <1>1 DEF IInv, Shape, Executing
  <1>5. PlansApproved'
    BY <1>1, <1>3, <1>4 DEF IInv, PlansApproved, DecisionOf
  <1>6. DecisionOf(r, plan[r].spread, plan[r].contracts) \in LiveApprovals
    BY <1>1 DEF IInv, PlansApproved, Executing
  <1>7. WireApproved'
    <2> SUFFICES ASSUME NEW q \in wire'
                 PROVE  DecisionOf(q.run, q.spread, q.contracts) \in LiveApprovals'
      BY DEF WireApproved, DecisionOf
    <2>1. CASE q = placement
      <3>1. q.run = r /\ q.spread = plan[r].spread /\ q.contracts = plan[r].contracts
        BY <2>1
      <3> QED
        BY <1>3, <1>6, <3>1
    <2>2. CASE q \in wire
      BY <1>3, <2>2 DEF IInv, WireApproved
    <2> QED
      BY <1>1, <2>1, <2>2
  <1> QED
    BY <1>2, <1>5, <1>7 DEF IInv

-----------------------------------------------------------------------------
(***************************************************************************)
(* Every step keeps the invariant.                                         *)
(***************************************************************************)

LEMMA SkipKeeps ==
    ASSUME IInv, NEW r \in Runs, Skip(r), wire' = wire
    PROVE  IInv'
  BY MovePcKeeps DEF Skip

LEMMA ReadClockKeeps ==
    ASSUME IInv, NEW r \in Runs, ReadClock(r)
    PROVE  IInv'
  <1>1. wire' = wire
    BY DEF ReadClock, broker
  <1>2. CASE Skip(r)
    BY <1>1, <1>2, SkipKeeps
  <1>3. CASE pc' = [pc EXCEPT ![r] = "portfolio"] /\ UNCHANGED <<plan, journal>>
    BY <1>1, <1>3, MovePcKeeps DEF journal
  <1> QED
    BY <1>2, <1>3 DEF ReadClock

LEMMA ReadPortfolioKeeps ==
    ASSUME IInv, NEW r \in Runs, ReadPortfolio(r)
    PROVE  IInv'
  <1>1. wire' = wire
    BY DEF ReadPortfolio, broker
  <1>2. CASE Skip(r)
    BY <1>1, <1>2, SkipKeeps
  <1>3. CASE /\ \E groups : pc' = [pc EXCEPT ![r] = IF groups = {} THEN FirstStop ELSE "exits"]
             /\ UNCHANGED <<plan, journal>>
    BY <1>1, <1>3, MovePcKeeps DEF journal, FirstStop
  <1> QED
    BY <1>2, <1>3 DEF ReadPortfolio

LEMMA ManageExitsKeeps ==
    ASSUME IInv, NEW r \in Runs, ManageExits(r)
    PROVE  IInv'
  <1>1. pc[r] = "exits" /\ plan' = plan /\ approvals' = approvals /\ wire' = wire
    BY DEF ManageExits, journal
  <1>2. PICK g \in due[r] : pc' = [pc EXCEPT ![r] = IF due[r] = {g} THEN FirstStop ELSE @]
    BY DEF ManageExits
  <1>3. PICK where : where \in {FirstStop, "exits"} /\ pc' = [pc EXCEPT ![r] = where]
    BY <1>1, <1>2
  <1> QED
    BY <1>1, <1>3, MovePcKeeps DEF FirstStop

LEMMA LookUpKeeps ==
    ASSUME IInv, NEW r \in Runs, FindExistingOrder(r)
    PROVE  IInv'
  <1>1. pc[r] = "lookup" /\ approvals' = approvals /\ wire' = wire
    BY DEF FindExistingOrder, broker
  <1>2. CASE Finish(r, "duplicate")
    BY <1>1, <1>2, FinishKeeps
  <1>3. CASE pc' = [pc EXCEPT ![r] = "place"] /\ plan' = plan
    BY <1>1, <1>3, MovePcKeeps DEF Executing
  <1> QED
    BY <1>2, <1>3 DEF FindExistingOrder

LEMMA RunKeeps ==
    ASSUME IInv, NEW r \in Runs, Run(r)
    PROVE  IInv'
  <1>1. CASE ReadClock(r)
    BY <1>1, ReadClockKeeps
  <1>2. CASE ReadPortfolio(r)
    BY <1>2, ReadPortfolioKeeps
  <1>3. CASE ManageExits(r)
    BY <1>3, ManageExitsKeeps
  <1>4. CASE NoTrade(r)
    <2>1. approvals' = approvals /\ wire' = wire /\ \E outcome : Finish(r, outcome)
      BY <1>4 DEF NoTrade, broker
    <2> QED
      BY <2>1, FinishKeeps
  <1>5. CASE Decide(r)
    BY <1>5, DecideKeeps
  <1>6. CASE FindExistingOrder(r)
    BY <1>6, LookUpKeeps
  <1>7. CASE PlaceOrder(r)
    BY <1>7, PlaceOrderKeeps
  <1>8. CASE GetReply(r)
    <2>1. approvals' = approvals /\ wire' = wire /\ \E outcome : Finish(r, outcome)
      BY <1>8 DEF GetReply, broker
    <2> QED
      BY <2>1, FinishKeeps
  <1>9. CASE CycleTimeout(r)
    <2>1. approvals' = approvals /\ wire' = wire /\ Finish(r, "timeout")
      BY <1>9 DEF CycleTimeout, broker
    <2> QED
      BY <2>1, FinishKeeps
  <1>10. CASE LogCycle(r)
    BY <1>10, MovePcKeeps DEF LogCycle, broker
  <1> QED
    BY <1>1, <1>2, <1>3, <1>4, <1>5, <1>6, <1>7, <1>8, <1>9, <1>10 DEF Run

LEMMA NextIInv == IInv /\ [Next]_vars => IInv'
  <1> SUFFICES ASSUME IInv, [Next]_vars PROVE IInv'
    OBVIOUS
  <1>1. CASE \E r \in Runs : Start(r)
    BY <1>1, MovePcKeeps DEF Start, journal, broker
  <1>2. CASE \E r \in Runs : Run(r)
    BY <1>2, RunKeeps
  <1>3. CASE \E r \in Runs : Crash(r)
    BY <1>3, MovePcKeeps DEF Crash, journal, broker
  <1>4. CASE \E q \in wire : Accept(q) \/ Reject(q)
    BY <1>4, WorldKeeps DEF Accept, Reject, Answer, journal
  <1>5. CASE \E o \in orders : Fill(o)
    BY <1>5, WorldKeeps DEF Fill, runVars, journal
  <1>6. CASE CloseMarket \/ NextDay
    BY <1>6, WorldKeeps DEF CloseMarket, NextDay, runVars, journal, broker
  <1>7. CASE UNCHANGED vars
    BY <1>7, WorldKeeps DEF vars, runVars, journal, broker
  <1> QED
    BY <1>1, <1>2, <1>3, <1>4, <1>5, <1>6, <1>7 DEF Next, Broker

-----------------------------------------------------------------------------
(***************************************************************************)
(* What steps do to the orders: exits, fills and expiry change only what   *)
(* Desk does not see; acceptance adds one placement.                       *)
(***************************************************************************)

Whole(o) == DOMAIN o = {"id", "run", "ticker", "spread", "contracts", "status", "legs"}

OrdersWhole == \A o \in orders : Whole(o)

\* The legs and the status of an order are no part of its projection, nor of
\* the underlying it was placed for.
LEMMA ProjectionKept ==
    ASSUME NEW o, Whole(o), NEW x, NEW p,
           p = [o EXCEPT !.legs = x] \/ p = [o EXCEPT !.status = x]
    PROVE  Whole(p) /\ Projection(p) = Projection(o) /\ p.ticker = o.ticker
  <1>1. CASE p = [o EXCEPT !.legs = x]
    <2>1. DOMAIN p = DOMAIN o
      BY <1>1
    <2>2. p["id"] = o["id"] /\ p["run"] = o["run"] /\ p["ticker"] = o["ticker"]
          /\ p["spread"] = o["spread"] /\ p["contracts"] = o["contracts"]
      BY <1>1 DEF Whole
    <2> QED
      BY <2>1, <2>2 DEF Projection, Whole
  <1>2. CASE p = [o EXCEPT !.status = x]
    <2>1. DOMAIN p = DOMAIN o
      BY <1>2
    <2>2. p["id"] = o["id"] /\ p["run"] = o["run"] /\ p["ticker"] = o["ticker"]
          /\ p["spread"] = o["spread"] /\ p["contracts"] = o["contracts"]
      BY <1>2 DEF Whole
    <2> QED
      BY <2>1, <2>2 DEF Projection, Whole
  <1> QED
    BY <1>1, <1>2

\* Closing legs neither adds nor removes an order.
LEMMA ClosedKeeps ==
    ASSUME OrdersWhole, NEW legs, orders' = Closed(legs)
    PROVE  OrdersWhole' /\ Placed' = Placed
  <1> DEFINE Stripped(o) == [o EXCEPT !.legs = {side \in @ : Leg(o.spread, side) \notin legs}]
  <1>1. \A o \in orders : Whole(Stripped(o)) /\ Projection(Stripped(o)) = Projection(o)
    BY ProjectionKept DEF OrdersWhole
  <1>2. orders' = {Stripped(o) : o \in orders}
    BY DEF Closed
  <1> HIDE DEF Stripped
  <1> QED
    BY <1>1, <1>2 DEF OrdersWhole, Placed

LEMMA ManageExitsOrders ==
    ASSUME OrdersWhole, NEW r \in Runs, ManageExits(r)
    PROVE  OrdersWhole' /\ Placed' = Placed
  <1>1. orders' = orders \/ \E legs : orders' = Closed(legs)
    BY DEF ManageExits
  <1> QED
    BY <1>1, ClosedKeeps DEF OrdersWhole, Placed

LEMMA FillOrders ==
    ASSUME OrdersWhole, NEW o \in orders, Fill(o)
    PROVE  OrdersWhole' /\ Placed' = Placed
  <1> DEFINE marked == [o EXCEPT !.status = "filled"]
             filled == [marked EXCEPT !.legs = {"sell", "buy"}]
  <1>1. orders' = (orders \ {o}) \cup {filled}
    BY DEF Fill
  <1>2. Whole(marked) /\ Projection(marked) = Projection(o)
    BY ProjectionKept DEF OrdersWhole
  <1> HIDE DEF marked
  <1>3. Whole(filled) /\ Projection(filled) = Projection(o)
    BY <1>2, ProjectionKept
  <1> HIDE DEF filled
  <1> QED
    BY <1>1, <1>3 DEF OrdersWhole, Placed

LEMMA NextDayOrders ==
    ASSUME OrdersWhole, NextDay
    PROVE  OrdersWhole' /\ Placed' = Placed
  <1> DEFINE Aged(o) == IF o.status = "open" THEN [o EXCEPT !.status = "expired"] ELSE o
  <1>1. \A o \in orders : Whole(Aged(o)) /\ Projection(Aged(o)) = Projection(o)
    BY ProjectionKept DEF OrdersWhole
  <1>2. orders' = {Aged(o) : o \in orders}
    BY DEF NextDay
  <1> HIDE DEF Aged
  <1> QED
    BY <1>1, <1>2 DEF OrdersWhole, Placed

\* Acceptance places what was approved, under an id that was not there yet.
LEMMA AcceptOrders ==
    ASSUME IInv, OrdersWhole, NEW q \in wire, Accept(q)
    PROVE  OrdersWhole' /\ DeskOfCycle!Place
  <1>1. PICK o : /\ orders' = orders \cup {o}
                 /\ Whole(o) /\ o.id = q.id /\ o.run = q.run
                 /\ o.spread = q.spread /\ o.contracts = q.contracts
    <2>1. PICK filled : orders' = orders \cup
            {[id |-> q.id, run |-> q.run, ticker |-> q.ticker, spread |-> q.spread,
              contracts |-> q.contracts, status |-> IF filled THEN "filled" ELSE "open",
              legs |-> IF filled THEN {"sell", "buy"} ELSE {}]}
      BY Zenon DEF Accept
    <2> DEFINE placed == [id |-> q.id, run |-> q.run, ticker |-> q.ticker, spread |-> q.spread,
              contracts |-> q.contracts, status |-> IF filled THEN "filled" ELSE "open",
              legs |-> IF filled THEN {"sell", "buy"} ELSE {}]
    <2>2. Whole(placed)
      BY DEF Whole
    <2>3. /\ placed.id = q.id /\ placed.run = q.run
          /\ placed.spread = q.spread /\ placed.contracts = q.contracts
      OBVIOUS
    <2>4. orders' = orders \cup {placed}
      BY <2>1
    <2> HIDE DEF placed
    <2> QED
      BY <2>2, <2>3, <2>4
  <1>2. OrdersWhole'
    BY <1>1 DEF OrdersWhole
  <1>3. Placed' = Placed \cup {Projection(o)}
    BY <1>1 DEF Placed
  <1>4. LiveApprovals' = LiveApprovals
    BY DEF Accept, journal, LiveApprovals
  <1>5. DeskOfCycle!Decision(Projection(o)) \in LiveApprovals
    BY <1>1 DEF IInv, WireApproved, DecisionOf, Projection, DeskOfCycle!Decision
  <1>6. \A earlier \in Placed : earlier.id # Projection(o).id
    BY <1>1 DEF Placed, Projection, Accept, KnownId
  <1> QED
    BY <1>2, <1>3, <1>4, <1>5, <1>6 DEF DeskOfCycle!Place, Placed, Projection, LiveApprovals

-----------------------------------------------------------------------------
(***************************************************************************)
(* The refinement.                                                         *)
(***************************************************************************)

\* A step that is neither a decision, an exit, an acceptance, a fill nor a new
\* day leaves approvals and orders alone.
Quiet == approvals' = approvals /\ orders' = orders

LEMMA RunOrders ==
    ASSUME NEW r \in Runs, Run(r)
    PROVE  Quiet \/ Decide(r) \/ ManageExits(r)
  <1>1. CASE ReadClock(r)
    BY <1>1 DEF ReadClock, Skip, Quiet, journal, broker
  <1>2. CASE ReadPortfolio(r)
    BY <1>2 DEF ReadPortfolio, Skip, Quiet, journal, broker
  <1>3. CASE NoTrade(r) \/ FindExistingOrder(r) \/ GetReply(r) \/ CycleTimeout(r) \/ LogCycle(r)
    BY <1>3 DEF NoTrade, FindExistingOrder, GetReply, CycleTimeout, LogCycle, Quiet, broker
  <1>4. CASE PlaceOrder(r)
    BY <1>4 DEF PlaceOrder, Quiet, journal
  <1> QED
    BY <1>1, <1>2, <1>3, <1>4 DEF Run

LEMMA NextRefines ==
    ASSUME IInv, OrdersWhole, [Next]_vars
    PROVE  OrdersWhole' /\ [DeskOfCycle!Next]_<<LiveApprovals, Placed>>
  <1>1. CASE Quiet
    BY <1>1 DEF Quiet, OrdersWhole, LiveApprovals, Placed
  <1>2. CASE \E r \in Runs : Decide(r)
    <2>1. approvals \subseteq approvals' /\ orders' = orders
      BY <1>2, DecideKeeps DEF Decide, broker
    <2> QED
      BY <2>1 DEF OrdersWhole, LiveApprovals, Placed, Projection,
                  DeskOfCycle!Next, DeskOfCycle!Approve
  <1>3. CASE \E r \in Runs : ManageExits(r)
    <2>1. approvals' = approvals
      BY <1>3 DEF ManageExits, journal
    <2> QED
      BY <1>3, <2>1, ManageExitsOrders DEF LiveApprovals
  <1>4. CASE \E q \in wire : Accept(q)
    BY <1>4, AcceptOrders DEF DeskOfCycle!Next
  <1>5. CASE \E o \in orders : Fill(o)
    <2>1. approvals' = approvals
      BY <1>5 DEF Fill, journal
    <2> QED
      BY <1>5, <2>1, FillOrders DEF LiveApprovals
  <1>6. CASE NextDay
    <2>1. approvals' = approvals
      BY <1>6 DEF NextDay, journal
    <2> QED
      BY <1>6, <2>1, NextDayOrders DEF LiveApprovals
  <1>7. CASE \E r \in Runs : Start(r) \/ Crash(r)
    BY <1>1, <1>7 DEF Start, Crash, Quiet, journal, broker
  <1>8. CASE (\E q \in wire : Reject(q)) \/ CloseMarket \/ UNCHANGED vars
    BY <1>1, <1>8 DEF Reject, CloseMarket, Quiet, vars, journal, broker
  <1>9. CASE \E r \in Runs : Run(r)
    BY <1>1, <1>2, <1>3, <1>9, RunOrders
  <1> QED
    BY <1>4, <1>5, <1>6, <1>7, <1>8, <1>9 DEF Next, Broker

\* Whatever crashes, times out, overlaps or is answered late, an order at the
\* broker carries out an approval of the same live run at the approved size
\* (run_cycle and execute, agent/orchestrator.py), and an id is placed once.
THEOREM CycleImplementsDesk == Spec => ImplementsDesk
  <1>1. Init => IInv /\ OrdersWhole /\ DeskOfCycle!Init
    <2>1. Init => DeskOfCycle!Init /\ OrdersWhole
      BY DEF Init, DeskOfCycle!Init, OrdersWhole
    <2> QED
      BY <2>1, InitIInv
  <1>2. IInv /\ OrdersWhole /\ [Next]_vars => IInv' /\ OrdersWhole'
    BY NextIInv, NextRefines
  <1>3. IInv /\ OrdersWhole /\ [Next]_vars
          => [DeskOfCycle!Next]_<<{a \in approvals : a.run \in Live},
                {[id |-> o.id, run |-> o.run, spread |-> o.spread,
                  contracts |-> o.contracts] : o \in orders}>>
    BY NextRefines DEF LiveApprovals, Placed, Projection
  <1> QED
    BY <1>1, <1>2, <1>3, PTL DEF Spec, ImplementsDesk, DeskOfCycle!Spec
-----------------------------------------------------------------------------
(***************************************************************************)
(* The records of a cycle, for every set of runs, underlyings, offers and  *)
(* faults: an outcome is final, every underlying gets one before a         *)
(* complete summary, no order is left to an analysis that says it ended    *)
(* without one, and the cap on orders is exceeded by failures and timeouts *)
(* alone.                                                                  *)
(***************************************************************************)

Places ==
    {"idle", "clock", "portfolio", "exits", "analyse", "lookup", "place", "await",
     "summary", "done", "crashed"}

OutcomeType ==
    {"none", "no_proposal", "error", "rejected", "not_executed", "dry_run",
     "duplicate", "submitted", "failed", "timeout"}

\* The run is inside the loop over the underlyings.
Analysing(r) == pc[r] = "analyse" \/ Executing(r)

Typed ==
    /\ pc \in [Runs -> Places]
    /\ turn \in [Runs -> 1 .. Len(Tickers) + 1]
    /\ opened \in [Runs -> Nat]
    /\ outcomes \in [Runs -> [Underlyings -> OutcomeType]]
    /\ DOMAIN summary = Runs

\* The underlyings before the run's turn are journalled, the others are not.
JournalFollowsTurn ==
    \A r \in Runs : \A i \in DOMAIN Tickers : outcomes[r][Tickers[i]] # "none" <=> i < turn[r]

LoopRunsThrough ==
    \A r \in Runs :
       /\ pc[r] \in {"idle", "clock", "portfolio", "exits"} => turn[r] = 1
       /\ Analysing(r) => turn[r] <= Len(Tickers)
       /\ pc[r] = "summary" \/ summary[r] = "complete" => turn[r] > Len(Tickers)

Counted(r) == {t \in Underlyings : CountsAgainstCap(outcomes[r][t])}

CapKept ==
    \A r \in Runs :
       /\ opened[r] = Cardinality(Counted(r)) /\ opened[r] <= MaxNew
       /\ Executing(r) => opened[r] < MaxNew

\* What was sent, decided by the broker or not, is journalled, or waited for by
\* a run with room for one more.
Accounted(o) ==
    /\ o.run \in Runs /\ o.ticker \in Underlyings
    /\ \/ outcomes[o.run][o.ticker] \in {"submitted", "failed", "timeout"}
       \/ /\ outcomes[o.run][o.ticker] = "none"
          /\ turn[o.run] <= Len(Tickers) /\ Ticker(o.run) = o.ticker
          /\ pc[o.run] \in {"await", "crashed"} /\ opened[o.run] < MaxNew

SentAccounted == \A o \in wire \cup orders : Accounted(o)

Alike(o, p) == o.run = p.run /\ o.ticker = p.ticker

\* A run sends at most one placement for each underlying.
SentOnce ==
    /\ \A o, p \in wire : Alike(o, p) => o = p
    /\ \A o, p \in orders : Alike(o, p) => o = p
    /\ \A o \in wire, p \in orders : ~ Alike(o, p)

Journalled ==
    /\ Typed /\ JournalFollowsTurn /\ LoopRunsThrough /\ CapKept
    /\ SentAccounted /\ SentOnce

\* Orders changed in place: neither one more nor a second one for an underlying.
Relabelled ==
    /\ \A p \in orders' : \E o \in orders : Alike(p, o)
    /\ \A o, p \in orders' : Alike(o, p) => o = p

-----------------------------------------------------------------------------
(***************************************************************************)
(* The underlyings.                                                        *)
(***************************************************************************)

LEMMA TickerFacts ==
    /\ Len(Tickers) \in Nat /\ DOMAIN Tickers = 1 .. Len(Tickers)
    /\ \A i \in DOMAIN Tickers : Tickers[i] \in Underlyings
    /\ \A t \in Underlyings : \E i \in DOMAIN Tickers : t = Tickers[i]
    /\ \A i, j \in DOMAIN Tickers : Tickers[i] = Tickers[j] => i = j
  BY CycleAssumption DEF Underlyings

LEMMA UnderlyingsFinite == IsFiniteSet(Underlyings)
  <1>1. Tickers \in Surjection(1 .. Len(Tickers), Underlyings)
    <2>1. Tickers \in [1 .. Len(Tickers) -> Underlyings]
      BY CycleAssumption, TickerFacts
    <2> QED
      BY <2>1, TickerFacts DEF Surjection
  <1>2. IsFiniteSet(1 .. Len(Tickers))
    BY TickerFacts, FS_Interval
  <1> QED
    BY <1>1, <1>2, FS_Surjection

\* A run in the loop is at an underlying that has no outcome yet.
LEMMA CurrentIsOpen ==
    ASSUME Journalled, NEW r \in Runs, Analysing(r)
    PROVE  /\ turn[r] \in DOMAIN Tickers /\ Ticker(r) \in Underlyings
           /\ outcomes[r][Ticker(r)] = "none"
  <1>1. turn[r] \in DOMAIN Tickers
    BY TickerFacts DEF Journalled, Typed, LoopRunsThrough
  <1>2. ~ (turn[r] < turn[r])
    BY <1>1, TickerFacts
  <1> QED
    BY <1>1, <1>2, TickerFacts DEF Journalled, JournalFollowsTurn, Ticker

-----------------------------------------------------------------------------
(***************************************************************************)
(* The end of one underlying's analysis.                                   *)
(***************************************************************************)

LEMMA FinishTypes ==
    ASSUME Journalled, NEW r \in Runs, NEW outcome \in OutcomeType, Finish(r, outcome),
           Analysing(r)
    PROVE  Typed'
  <1>1. NextStop(r) \in Places
    BY DEF NextStop, Places
  <1>2. pc' \in [Runs -> Places]
    BY <1>1 DEF Finish, Journalled, Typed
  <1>3. turn' \in [Runs -> 1 .. Len(Tickers) + 1]
    <2>1. turn[r] + 1 \in 1 .. Len(Tickers) + 1
      BY CurrentIsOpen, TickerFacts
    <2> QED
      BY <2>1 DEF Finish, Journalled, Typed
  <1>4. opened' \in [Runs -> Nat]
    BY DEF Finish, Journalled, Typed
  <1>5. outcomes' \in [Runs -> [Underlyings -> OutcomeType]]
    BY DEF Finish, Journalled, Typed
  <1> QED
    BY <1>2, <1>3, <1>4, <1>5 DEF Typed, Journalled, Finish

\* The outcomes after the step: only the current underlying of r has a new one.
LEMMA FinishOutcomes ==
    ASSUME Journalled, NEW r \in Runs, NEW outcome, Finish(r, outcome), Analysing(r),
           NEW x \in Runs, NEW t \in Underlyings
    PROVE  outcomes'[x][t] = IF x = r /\ t = Ticker(r) THEN outcome ELSE outcomes[x][t]
  BY CurrentIsOpen DEF Finish, Journalled, Typed

LEMMA FinishTurns ==
    ASSUME Journalled, NEW r \in Runs, NEW outcome, Finish(r, outcome), Analysing(r),
           NEW x \in Runs
    PROVE  /\ turn'[x] = IF x = r THEN turn[r] + 1 ELSE turn[x]
           /\ pc'[x] = IF x = r THEN NextStop(r) ELSE pc[x]
           /\ opened'[x] = IF x = r /\ CountsAgainstCap(outcome) THEN opened[r] + 1
                           ELSE opened[x]
  BY DEF Finish, Journalled, Typed

LEMMA FinishFollows ==
    ASSUME Journalled, NEW r \in Runs, NEW outcome \in OutcomeType \ {"none"},
           Finish(r, outcome), Analysing(r)
    PROVE  JournalFollowsTurn'
  <1> SUFFICES ASSUME NEW x \in Runs, NEW i \in DOMAIN Tickers
               PROVE  outcomes'[x][Tickers[i]] # "none" <=> i < turn'[x]
    BY DEF JournalFollowsTurn
  <1>1. Tickers[i] \in Underlyings
    BY TickerFacts
  <1>2. outcomes[x][Tickers[i]] # "none" <=> i < turn[x]
    BY DEF Journalled, JournalFollowsTurn
  <1>3. CASE x = r
    <2>1. turn[r] \in DOMAIN Tickers /\ i \in Nat /\ turn[r] \in Nat
      BY CurrentIsOpen, TickerFacts
    <2>2. Tickers[i] = Ticker(r) <=> i = turn[r]
      BY <2>1, TickerFacts DEF Ticker
    <2>3. outcomes'[x][Tickers[i]] = IF i = turn[r] THEN outcome ELSE outcomes[x][Tickers[i]]
      BY <1>1, <1>3, <2>2, FinishOutcomes
    <2>4. turn'[x] = turn[r] + 1
      BY <1>3, FinishTurns
    <2> QED
      BY <1>2, <1>3, <2>1, <2>3, <2>4
  <1>4. CASE x # r
    BY <1>1, <1>2, <1>4, FinishOutcomes, FinishTurns
  <1> QED
    BY <1>3, <1>4

LEMMA FinishLoop ==
    ASSUME Journalled, NEW r \in Runs, NEW outcome, Finish(r, outcome), Analysing(r)
    PROVE  LoopRunsThrough'
  <1> SUFFICES ASSUME NEW x \in Runs
               PROVE  /\ pc'[x] \in {"idle", "clock", "portfolio", "exits"} => turn'[x] = 1
                      /\ Analysing(x)' => turn'[x] <= Len(Tickers)
                      /\ pc'[x] = "summary" \/ summary'[x] = "complete"
                           => turn'[x] > Len(Tickers)
    BY DEF LoopRunsThrough
  <1>1. summary' = summary
    BY DEF Finish
  <1>2. CASE x = r
    <2>1. turn[r] \in 1 .. Len(Tickers) /\ Len(Tickers) \in Nat
      BY CurrentIsOpen, TickerFacts
    <2>2. turn'[x] = turn[r] + 1 /\ pc'[x] = NextStop(r)
      BY <1>2, FinishTurns
    <2>3. summary'[x] # "complete"
      BY <1>1, <1>2, <2>1 DEF Journalled, LoopRunsThrough
    <2> QED
      BY <2>1, <2>2, <2>3 DEF NextStop, Analysing, Executing
  <1>3. CASE x # r
    <2>1. turn'[x] = turn[x] /\ pc'[x] = pc[x]
      BY <1>3, FinishTurns
    <2> QED
      BY <1>1, <2>1 DEF Journalled, LoopRunsThrough, Analysing, Executing
  <1> QED
    BY <1>2, <1>3

LEMMA FinishCap ==
    ASSUME Journalled, NEW r \in Runs, NEW outcome, Finish(r, outcome), Analysing(r),
           CountsAgainstCap(outcome) => Executing(r)
    PROVE  CapKept'
  <1> SUFFICES ASSUME NEW x \in Runs
               PROVE  /\ opened'[x] = Cardinality(Counted(x)') /\ opened'[x] <= MaxNew
                      /\ Executing(x)' => opened'[x] < MaxNew
    BY DEF CapKept, Counted
  <1>1. /\ opened[x] = Cardinality(Counted(x)) /\ opened[x] <= MaxNew
        /\ Executing(x) => opened[x] < MaxNew
    BY DEF Journalled, CapKept
  <1>2. \A t \in Underlyings : outcomes'[x][t] =
           IF x = r /\ t = Ticker(r) THEN outcome ELSE outcomes[x][t]
    BY FinishOutcomes
  <1>3. CASE x = r /\ CountsAgainstCap(outcome)
    <2>1. Ticker(r) \in Underlyings /\ Ticker(r) \notin Counted(r)
      BY CurrentIsOpen DEF Counted, CountsAgainstCap
    <2>2. Counted(x)' = Counted(x) \cup {Ticker(r)}
      BY <1>2, <1>3, <2>1 DEF Counted, CountsAgainstCap
    <2>3. IsFiniteSet(Counted(x))
      BY UnderlyingsFinite, FS_Subset DEF Counted
    <2>4. Cardinality(Counted(x)') = Cardinality(Counted(x)) + 1
      BY <1>3, <2>1, <2>2, <2>3, FS_AddElement
    <2>5. opened'[x] = opened[x] + 1 /\ pc'[x] = NextStop(r)
      BY <1>3, FinishTurns
    <2>6. opened[x] \in Nat /\ opened[x] < MaxNew /\ MaxNew \in Nat
      BY <1>1, <1>3, CycleAssumption DEF Journalled, Typed
    <2> QED
      BY <1>1, <2>4, <2>5, <2>6 DEF Executing, NextStop
  <1>4. CASE ~ (x = r /\ CountsAgainstCap(outcome))
    <2>1. Counted(x)' = Counted(x)
      <3>1. CASE x = r
        <4>1. outcomes[r][Ticker(r)] = "none"
          BY CurrentIsOpen
        <4> QED
          BY <1>2, <1>4, <3>1, <4>1 DEF Counted, CountsAgainstCap
      <3>2. CASE x # r
        BY <1>2, <3>2 DEF Counted, CountsAgainstCap
      <3> QED
        BY <3>1, <3>2
    <2>2. opened'[x] = opened[x] /\ (Executing(x)' => Executing(x))
      BY <1>4, FinishTurns DEF Executing, NextStop
    <2> QED
      BY <1>1, <2>1, <2>2
  <1> QED
    BY <1>3, <1>4

\* An outcome explains what was sent for the underlying; before the placement
\* nothing was.
LEMMA FinishAccounts ==
    ASSUME Journalled, NEW r \in Runs, NEW outcome, Finish(r, outcome), Analysing(r),
           pc[r] = "await" => outcome \in {"submitted", "failed", "timeout"},
           NEW o, Accounted(o)
    PROVE  Accounted(o)'
  <1>1. o.run \in Runs /\ o.ticker \in Underlyings
    BY DEF Accounted
  <1>2. CASE o.run = r /\ o.ticker = Ticker(r)
    <2>1. pc[r] = "await"
      BY <1>2, CurrentIsOpen DEF Accounted, Analysing, Executing
    <2>2. outcomes'[o.run][o.ticker] = outcome
      BY <1>1, <1>2, FinishOutcomes
    <2> QED
      BY <1>1, <2>1, <2>2 DEF Accounted
  <1>3. CASE o.run = r /\ o.ticker # Ticker(r)
    <2>1. outcomes[r][o.ticker] \in {"submitted", "failed", "timeout"}
      BY <1>3 DEF Accounted
    <2>2. outcomes'[o.run][o.ticker] = outcomes[r][o.ticker]
      BY <1>1, <1>3, FinishOutcomes
    <2> QED
      BY <1>1, <2>1, <2>2 DEF Accounted
  <1>4. CASE o.run # r
    <2>1. outcomes'[o.run][o.ticker] = outcomes[o.run][o.ticker]
      BY <1>1, <1>4, FinishOutcomes
    <2>2. turn'[o.run] = turn[o.run] /\ pc'[o.run] = pc[o.run] /\ opened'[o.run] = opened[o.run]
      BY <1>1, <1>4, FinishTurns
    <2> QED
      BY <1>1, <2>1, <2>2 DEF Accounted, Ticker
  <1> QED
    BY <1>2, <1>3, <1>4

LEMMA FinishJournals ==
    ASSUME Journalled, NEW r \in Runs, NEW outcome \in OutcomeType \ {"none"},
           Finish(r, outcome), Analysing(r),
           pc[r] = "await" => outcome \in {"submitted", "failed", "timeout"},
           CountsAgainstCap(outcome) => Executing(r),
           wire' = wire, orders' = orders
    PROVE  Journalled'
  <1>1. SentAccounted'
    BY FinishAccounts DEF Journalled, SentAccounted
  <1>2. SentOnce'
    BY DEF Journalled, SentOnce
  <1> QED
    BY <1>1, <1>2, FinishTypes, FinishFollows, FinishLoop, FinishCap DEF Journalled
-----------------------------------------------------------------------------
(***************************************************************************)
(* The other steps of a run.                                               *)
(***************************************************************************)

LEMMA AlikeAccounted ==
    ASSUME NEW o, NEW p, Alike(p, o), Accounted(o)
    PROVE  Accounted(p)
  BY DEF Alike, Accounted

\* What is sent stays accounted for, and sent once, when nothing is added.
LEMMA NothingSent ==
    ASSUME Journalled, wire' \subseteq wire, Relabelled,
           \A o : Accounted(o) => Accounted(o)'
    PROVE  SentAccounted' /\ SentOnce'
  <1>1. SentAccounted'
    <2> SUFFICES ASSUME NEW p \in wire' \cup orders' PROVE Accounted(p)'
      BY DEF SentAccounted
    <2>1. CASE p \in wire'
      BY <2>1 DEF Journalled, SentAccounted
    <2>2. CASE p \in orders'
      <3>1. PICK o \in orders : Alike(p, o)
        BY <2>2 DEF Relabelled
      <3> QED
        BY <3>1, AlikeAccounted DEF Journalled, SentAccounted
    <2> QED
      BY <2>1, <2>2
  <1>2. \A o \in wire', p \in orders' : ~ Alike(o, p)
    BY DEF Journalled, SentOnce, Relabelled, Alike
  <1>3. \A o, p \in wire' : Alike(o, p) => o = p
    BY DEF Journalled, SentOnce
  <1>4. \A o, p \in orders' : Alike(o, p) => o = p
    BY DEF Relabelled
  <1> QED
    BY <1>1, <1>2, <1>3, <1>4 DEF SentOnce, Alike

LEMMA UnchangedRelabels ==
    ASSUME Journalled, orders' = orders
    PROVE  Relabelled
  BY DEF Relabelled, Journalled, SentOnce, Alike

\* A step that leaves the runs and their journal alone, and sends nothing.
LEMMA WorldJournals ==
    ASSUME Journalled, wire' \subseteq wire, Relabelled,
           UNCHANGED <<pc, turn, opened, outcomes, summary>>
    PROVE  Journalled'
  <1>1. \A o : Accounted(o) => Accounted(o)'
    BY DEF Accounted, Ticker
  <1>2. Typed' /\ JournalFollowsTurn' /\ LoopRunsThrough' /\ CapKept'
    BY DEF Journalled, Typed, JournalFollowsTurn, LoopRunsThrough, CapKept, Counted,
           Analysing, Executing
  <1> QED
    BY <1>1, <1>2, NothingSent DEF Journalled

\* Where a run may go without journalling an outcome.
MayGo(r, where) ==
    /\ where \in {"idle", "clock", "portfolio", "exits"} => turn[r] = 1
    /\ where = "analyse" => turn[r] <= Len(Tickers)
    /\ where \in {"lookup", "place", "await"} => Analysing(r) /\ opened[r] < MaxNew
    /\ where = "summary" => turn[r] > Len(Tickers)
    /\ pc[r] = "await" => where = "crashed"

MayConclude(r) ==
    /\ DOMAIN summary' = Runs
    /\ \A x \in Runs : summary'[x] = "complete" =>
          summary[x] = "complete" \/ (x = r /\ turn[r] > Len(Tickers))

LEMMA MoveKeepsLoop ==
    ASSUME Journalled, NEW r \in Runs, NEW where \in Places, MayGo(r, where),
           pc' = [pc EXCEPT ![r] = where], MayConclude(r), UNCHANGED <<turn, opened, outcomes>>
    PROVE  Typed' /\ JournalFollowsTurn' /\ LoopRunsThrough' /\ CapKept'
  <1>1. \A x \in Runs : pc'[x] = IF x = r THEN where ELSE pc[x]
    BY DEF Journalled, Typed
  <1>2. Typed'
    BY DEF Journalled, Typed, MayConclude
  <1>3. JournalFollowsTurn'
    BY DEF Journalled, JournalFollowsTurn
  <1>4. LoopRunsThrough'
    <2> SUFFICES ASSUME NEW x \in Runs
                 PROVE  /\ pc'[x] \in {"idle", "clock", "portfolio", "exits"} => turn[x] = 1
                        /\ Analysing(x)' => turn[x] <= Len(Tickers)
                        /\ pc'[x] = "summary" \/ summary'[x] = "complete"
                             => turn[x] > Len(Tickers)
      BY DEF LoopRunsThrough, Analysing, Executing
    <2>1. /\ pc[x] \in {"idle", "clock", "portfolio", "exits"} => turn[x] = 1
          /\ Analysing(x) => turn[x] <= Len(Tickers)
          /\ pc[x] = "summary" \/ summary[x] = "complete" => turn[x] > Len(Tickers)
      BY DEF Journalled, LoopRunsThrough
    <2>2. summary'[x] = "complete" => turn[x] > Len(Tickers)
      BY <2>1 DEF MayConclude
    <2>3. CASE x = r
      BY <1>1, <2>1, <2>2, <2>3 DEF MayGo, Analysing, Executing
    <2>4. CASE x # r
      BY <1>1, <2>1, <2>2, <2>4 DEF Analysing, Executing
    <2> QED
      BY <2>3, <2>4
  <1>5. CapKept'
    <2> SUFFICES ASSUME NEW x \in Runs
                 PROVE  /\ opened[x] = Cardinality(Counted(x)) /\ opened[x] <= MaxNew
                        /\ Executing(x)' => opened[x] < MaxNew
      BY DEF CapKept, Counted, Executing
    <2>1. /\ opened[x] = Cardinality(Counted(x)) /\ opened[x] <= MaxNew
          /\ Executing(x) => opened[x] < MaxNew
      BY DEF Journalled, CapKept
    <2> QED
      BY <1>1, <2>1 DEF MayGo, Executing
  <1> QED
    BY <1>2, <1>3, <1>4, <1>5

LEMMA MoveKeepsAccounts ==
    ASSUME Journalled, NEW r \in Runs, NEW where, MayGo(r, where),
           pc' = [pc EXCEPT ![r] = where], UNCHANGED <<turn, opened, outcomes>>,
           pc[r] # "crashed", NEW o, Accounted(o)
    PROVE  Accounted(o)'
  <1>1. \A x \in Runs : pc'[x] = IF x = r THEN where ELSE pc[x]
    BY DEF Journalled, Typed
  <1> QED
    BY <1>1 DEF Accounted, Ticker, MayGo

LEMMA MoveJournals ==
    ASSUME Journalled, NEW r \in Runs, NEW where \in Places, MayGo(r, where),
           pc[r] # "crashed", pc' = [pc EXCEPT ![r] = where], MayConclude(r),
           UNCHANGED <<turn, opened, outcomes, wire>>, Relabelled
    PROVE  Journalled'
  <1>1. \A o : Accounted(o) => Accounted(o)'
    BY MoveKeepsAccounts
  <1> QED
    BY <1>1, MoveKeepsLoop, NothingSent DEF Journalled

LEMMA SummaryKept ==
    ASSUME Journalled, NEW r \in Runs, summary' = summary
    PROVE  MayConclude(r)
  BY DEF MayConclude, Journalled, Typed

LEMMA FirstStopFits ==
    ASSUME Journalled, NEW r \in Runs, pc[r] \in {"portfolio", "exits"}
    PROVE  FirstStop \in Places /\ MayGo(r, FirstStop)
  <1>1. turn[r] = 1
    BY DEF Journalled, LoopRunsThrough
  <1>2. Tickers = <<>> <=> Len(Tickers) = 0
    BY CycleAssumption
  <1> QED
    BY <1>1, <1>2, TickerFacts DEF FirstStop, Places, MayGo
\* The reads before the loop, and a start, a death or a summary.
LEMMA ReadsJournal ==
    ASSUME Journalled, NEW r \in Runs, Start(r) \/ ReadClock(r) \/ ReadPortfolio(r)
    PROVE  Journalled'
  <1>1. UNCHANGED <<turn, opened, outcomes, wire>> /\ orders' = orders
    BY DEF Start, ReadClock, ReadPortfolio, Skip, journal, broker
  <1>2. pc[r] \in {"idle", "clock", "portfolio"} /\ turn[r] = 1
    BY DEF Start, ReadClock, ReadPortfolio, Journalled, LoopRunsThrough
  <1>3. Relabelled
    BY <1>1, UnchangedRelabels
  <1>4. CASE Skip(r)
    <2>1. MayConclude(r)
      BY <1>4 DEF Skip, MayConclude, Journalled, Typed
    <2>2. "done" \in Places /\ MayGo(r, "done")
      BY <1>2 DEF Places, MayGo
    <2> QED
      BY <1>1, <1>2, <1>3, <1>4, <2>1, <2>2, MoveJournals DEF Skip
  <1>5. CASE \E where \in {"clock", "portfolio", "exits"} :
               pc' = [pc EXCEPT ![r] = where] /\ summary' = summary
    <2>1. \A where \in {"clock", "portfolio", "exits"} : where \in Places /\ MayGo(r, where)
      BY <1>2 DEF Places, MayGo
    <2> QED
      BY <1>1, <1>2, <1>3, <1>5, <2>1, SummaryKept, MoveJournals
  <1>6. CASE pc[r] = "portfolio" /\ pc' = [pc EXCEPT ![r] = FirstStop] /\ summary' = summary
    BY <1>1, <1>2, <1>3, <1>6, FirstStopFits, SummaryKept, MoveJournals
  <1>7. CASE Start(r)
    BY <1>5, <1>7 DEF Start, journal
  <1>8. CASE ReadClock(r)
    BY <1>4, <1>5, <1>8 DEF ReadClock, journal
  <1>9. CASE ReadPortfolio(r)
    <2>1. Skip(r) \/ (/\ \E groups : pc' = [pc EXCEPT ![r] = IF groups = {} THEN FirstStop
                                                             ELSE "exits"]
                      /\ summary' = summary)
      BY <1>9 DEF ReadPortfolio, journal
    <2> QED
      BY <1>4, <1>5, <1>6, <1>9, <2>1 DEF ReadPortfolio
  <1> QED
    BY <1>7, <1>8, <1>9

LEMMA CrashJournals ==
    ASSUME Journalled, NEW r \in Runs, Crash(r)
    PROVE  Journalled'
  <1>1. /\ pc' = [pc EXCEPT ![r] = "crashed"] /\ pc[r] # "crashed"
        /\ UNCHANGED <<turn, opened, outcomes, wire>> /\ orders' = orders /\ summary' = summary
    BY DEF Crash, Ended, journal, broker
  <1>2. "crashed" \in Places /\ MayGo(r, "crashed")
    BY DEF Places, MayGo
  <1> QED
    BY <1>1, <1>2, UnchangedRelabels, SummaryKept, MoveJournals

LEMMA LogCycleJournals ==
    ASSUME Journalled, NEW r \in Runs, LogCycle(r)
    PROVE  Journalled'
  <1>1. /\ pc[r] = "summary" /\ pc' = [pc EXCEPT ![r] = "done"]
        /\ summary' = [summary EXCEPT ![r] = "complete"]
        /\ UNCHANGED <<turn, opened, outcomes, wire>> /\ orders' = orders
    BY DEF LogCycle, broker
  <1>2. "done" \in Places /\ MayGo(r, "done")
    BY <1>1 DEF Places, MayGo
  <1>3. MayConclude(r)
    BY <1>1 DEF MayConclude, Journalled, Typed, LoopRunsThrough
  <1> QED
    BY <1>1, <1>2, <1>3, UnchangedRelabels, MoveJournals

\* Closing contracts changes no order's run or underlying.
LEMMA ClosedRelabels ==
    ASSUME Journalled, OrdersWhole, NEW legs, orders' = Closed(legs)
    PROVE  Relabelled
  <1> DEFINE Stripped(o) == [o EXCEPT !.legs = {side \in @ : Leg(o.spread, side) \notin legs}]
  <1>1. \A o \in orders : Alike(Stripped(o), o)
    BY ProjectionKept DEF OrdersWhole, Projection, Alike
  <1>2. orders' = {Stripped(o) : o \in orders}
    BY DEF Closed
  <1> HIDE DEF Stripped
  <1>3. ASSUME NEW o \in orders, NEW p \in orders, Alike(Stripped(o), Stripped(p))
        PROVE  o = p
    BY <1>1, <1>3 DEF Alike, Journalled, SentOnce
  <1> QED
    BY <1>1, <1>2, <1>3 DEF Relabelled

LEMMA ManageExitsJournals ==
    ASSUME Journalled, OrdersWhole, NEW r \in Runs, ManageExits(r)
    PROVE  Journalled'
  <1>1. /\ pc[r] = "exits" /\ summary' = summary
        /\ UNCHANGED <<turn, opened, outcomes, wire>>
    BY DEF ManageExits, journal
  <1>2. PICK where \in {FirstStop, "exits"} : pc' = [pc EXCEPT ![r] = where]
    BY <1>1 DEF ManageExits
  <1>3. orders' = orders \/ \E legs : orders' = Closed(legs)
    BY DEF ManageExits
  <1>4. Relabelled
    BY <1>3, UnchangedRelabels, ClosedRelabels
  <1>5. where \in Places /\ MayGo(r, where)
    <2>1. "exits" \in Places /\ MayGo(r, "exits")
      BY <1>1 DEF Places, MayGo, Journalled, LoopRunsThrough
    <2> QED
      BY <1>1, <1>2, <2>1, FirstStopFits
  <1> QED
    BY <1>1, <1>2, <1>4, <1>5, SummaryKept, MoveJournals
-----------------------------------------------------------------------------
(***************************************************************************)
(* The steps inside the loop.                                              *)
(***************************************************************************)

\* Outcomes that neither count nor answer a placement.
LEMMA EarlyFinishJournals ==
    ASSUME Journalled, NEW r \in Runs, pc[r] = "analyse", wire' = wire, orders' = orders,
           NEW outcome \in {"no_proposal", "error", "rejected", "not_executed", "dry_run"},
           Finish(r, outcome)
    PROVE  Journalled'
  <1>1. Analysing(r) /\ ~ CountsAgainstCap(outcome) /\ outcome \in OutcomeType \ {"none"}
    BY DEF Analysing, CountsAgainstCap, OutcomeType
  <1> QED
    BY <1>1, FinishJournals

LEMMA DecideJournals ==
    ASSUME Journalled, NEW r \in Runs, Decide(r)
    PROVE  Journalled'
  <1>1. pc[r] = "analyse" /\ wire' = wire /\ orders' = orders
    BY DEF Decide, broker
  <1>2. \/ Finish(r, "rejected") \/ Finish(r, "not_executed") \/ Finish(r, "dry_run")
        \/ /\ opened[r] < MaxNew /\ pc' = [pc EXCEPT ![r] = "lookup"]
           /\ UNCHANGED <<turn, opened, outcomes, summary>>
    BY Zenon DEF Decide
  <1>3. CASE Finish(r, "rejected") \/ Finish(r, "not_executed") \/ Finish(r, "dry_run")
    BY <1>1, <1>3, EarlyFinishJournals
  <1>4. CASE /\ opened[r] < MaxNew /\ pc' = [pc EXCEPT ![r] = "lookup"]
             /\ UNCHANGED <<turn, opened, outcomes, summary>>
    <2>1. "lookup" \in Places /\ MayGo(r, "lookup")
      BY <1>1, <1>4 DEF Places, MayGo, Analysing
    <2> QED
      BY <1>1, <1>4, <2>1, UnchangedRelabels, SummaryKept, MoveJournals
  <1> QED
    BY <1>2, <1>3, <1>4

LEMMA LookUpJournals ==
    ASSUME Journalled, NEW r \in Runs, FindExistingOrder(r)
    PROVE  Journalled'
  <1>1. pc[r] = "lookup" /\ wire' = wire /\ orders' = orders
    BY DEF FindExistingOrder, broker
  <1>2. Executing(r) /\ Analysing(r)
    BY <1>1 DEF Executing, Analysing
  <1>3. CASE Finish(r, "duplicate")
    <2>1. "duplicate" \in OutcomeType \ {"none"}
      BY DEF OutcomeType
    <2> QED
      BY <1>1, <1>2, <1>3, <2>1, FinishJournals
  <1>4. CASE /\ pc' = [pc EXCEPT ![r] = "place"]
             /\ UNCHANGED <<turn, opened, outcomes, summary>>
    <2>1. opened[r] < MaxNew
      BY <1>2 DEF Journalled, CapKept
    <2>2. "place" \in Places /\ MayGo(r, "place")
      BY <1>1, <1>2, <2>1 DEF Places, MayGo
    <2> QED
      BY <1>1, <1>4, <2>2, UnchangedRelabels, SummaryKept, MoveJournals
  <1> QED
    BY <1>3, <1>4 DEF FindExistingOrder

\* The placement is the run's first for the underlying it is at.
LEMMA PlaceOrderJournals ==
    ASSUME Journalled, NEW r \in Runs, PlaceOrder(r)
    PROVE  Journalled'
  <1>1. /\ pc[r] = "place" /\ pc' = [pc EXCEPT ![r] = "await"]
        /\ UNCHANGED <<turn, opened, outcomes, summary, orders>>
    BY DEF PlaceOrder, journal
  <1>2. PICK placement : /\ wire' = wire \cup {placement}
                         /\ placement.run = r /\ placement.ticker = Ticker(r)
    <2> DEFINE sent == [id |-> plan[r].id, run |-> r, ticker |-> Ticker(r),
                        spread |-> plan[r].spread, contracts |-> plan[r].contracts]
    <2>1. wire' = wire \cup {sent}
      BY DEF PlaceOrder
    <2>2. sent.run = r /\ sent.ticker = Ticker(r)
      OBVIOUS
    <2> HIDE DEF sent
    <2> QED
      BY <2>1, <2>2
  <1>3. Executing(r) /\ Analysing(r)
    BY <1>1 DEF Executing, Analysing
  <1>4. opened[r] < MaxNew /\ turn[r] <= Len(Tickers)
    BY <1>3 DEF Journalled, CapKept, LoopRunsThrough
  <1>5. "await" \in Places /\ MayGo(r, "await")
    BY <1>1, <1>3, <1>4 DEF Places, MayGo
  <1>6. Typed' /\ JournalFollowsTurn' /\ LoopRunsThrough' /\ CapKept'
    BY <1>1, <1>5, SummaryKept, MoveKeepsLoop
  <1>7. Accounted(placement)'
    <2>1. pc'[r] = "await"
      BY <1>1 DEF Journalled, Typed
    <2>2. outcomes[r][Ticker(r)] = "none" /\ Ticker(r) \in Underlyings
      BY <1>3, CurrentIsOpen
    <2> QED
      BY <1>1, <1>2, <1>4, <2>1, <2>2 DEF Accounted, Ticker
  <1>8. \A o \in wire \cup orders : Accounted(o)'
    BY <1>1, <1>5, MoveKeepsAccounts DEF Journalled, SentAccounted
  <1>9. SentAccounted'
    BY <1>1, <1>2, <1>7, <1>8 DEF SentAccounted
  <1>10. \A o \in wire \cup orders : ~ Alike(o, placement)
    <2> SUFFICES ASSUME NEW o \in wire \cup orders, Alike(o, placement) PROVE FALSE
      OBVIOUS
    <2>1. o.run = r /\ o.ticker = Ticker(r)
      BY <1>2 DEF Alike
    <2>2. outcomes[r][Ticker(r)] = "none"
      BY <1>3, CurrentIsOpen
    <2> QED
      BY <1>1, <2>1, <2>2 DEF Journalled, SentAccounted, Accounted
  <1>11. SentOnce'
    BY <1>1, <1>2, <1>10 DEF Journalled, SentOnce, Alike
  <1> QED
    BY <1>6, <1>9, <1>11 DEF Journalled

LEMMA GetReplyJournals ==
    ASSUME Journalled, NEW r \in Runs, GetReply(r)
    PROVE  Journalled'
  <1>1. pc[r] = "await" /\ wire' = wire /\ orders' = orders
    BY DEF GetReply, broker
  <1>2. PICK outcome \in {"submitted", "failed"} : Finish(r, outcome)
    BY DEF GetReply
  <1>3. Executing(r) /\ Analysing(r) /\ outcome \in OutcomeType \ {"none"}
    BY <1>1 DEF Executing, Analysing, OutcomeType
  <1> QED
    BY <1>1, <1>2, <1>3, FinishJournals

LEMMA TimeoutJournals ==
    ASSUME Journalled, NEW r \in Runs, CycleTimeout(r)
    PROVE  Journalled'
  <1>1. /\ Finish(r, "timeout") /\ pc[r] \in {"analyse", "lookup", "place", "await"}
        /\ wire' = wire /\ orders' = orders
    BY DEF CycleTimeout, broker
  <1>2. Analysing(r) /\ ~ CountsAgainstCap("timeout") /\ "timeout" \in OutcomeType \ {"none"}
    BY <1>1 DEF Executing, Analysing, CountsAgainstCap, OutcomeType
  <1> QED
    BY <1>1, <1>2, FinishJournals

LEMMA RunJournals ==
    ASSUME Journalled, OrdersWhole, NEW r \in Runs, Run(r)
    PROVE  Journalled'
  <1>1. CASE ReadClock(r) \/ ReadPortfolio(r)
    BY <1>1, ReadsJournal
  <1>2. CASE ManageExits(r)
    BY <1>2, ManageExitsJournals
  <1>3. CASE NoTrade(r)
    <2>1. pc[r] = "analyse" /\ wire' = wire /\ orders' = orders
      BY <1>3 DEF NoTrade, broker
    <2> QED
      BY <1>3, <2>1, EarlyFinishJournals DEF NoTrade
  <1>4. CASE Decide(r)
    BY <1>4, DecideJournals
  <1>5. CASE FindExistingOrder(r)
    BY <1>5, LookUpJournals
  <1>6. CASE PlaceOrder(r)
    BY <1>6, PlaceOrderJournals
  <1>7. CASE GetReply(r)
    BY <1>7, GetReplyJournals
  <1>8. CASE CycleTimeout(r)
    BY <1>8, TimeoutJournals
  <1>9. CASE LogCycle(r)
    BY <1>9, LogCycleJournals
  <1> QED
    BY <1>1, <1>2, <1>3, <1>4, <1>5, <1>6, <1>7, <1>8, <1>9 DEF Run

-----------------------------------------------------------------------------
(***************************************************************************)
(* The broker.                                                             *)
(***************************************************************************)

\* Acceptance turns a placement into an order of the same run and underlying.
LEMMA AcceptJournals ==
    ASSUME Journalled, NEW q \in wire, Accept(q)
    PROVE  Journalled'
  <1>1. PICK o : orders' = orders \cup {o} /\ Alike(o, q)
    <2>1. PICK filled : orders' = orders \cup
            {[id |-> q.id, run |-> q.run, ticker |-> q.ticker, spread |-> q.spread,
              contracts |-> q.contracts, status |-> IF filled THEN "filled" ELSE "open",
              legs |-> IF filled THEN {"sell", "buy"} ELSE {}]}
      BY Zenon DEF Accept
    <2> DEFINE placed == [id |-> q.id, run |-> q.run, ticker |-> q.ticker, spread |-> q.spread,
              contracts |-> q.contracts, status |-> IF filled THEN "filled" ELSE "open",
              legs |-> IF filled THEN {"sell", "buy"} ELSE {}]
    <2>2. Alike(placed, q)
      BY DEF Alike
    <2>3. orders' = orders \cup {placed}
      BY <2>1
    <2> HIDE DEF placed
    <2> QED
      BY <2>2, <2>3
  <1>2. wire' = wire \ {q} /\ UNCHANGED <<pc, turn, opened, outcomes, summary>>
    BY DEF Accept, Answer, journal
  <1>3. Typed' /\ JournalFollowsTurn' /\ LoopRunsThrough' /\ CapKept'
    BY <1>2 DEF Journalled, Typed, JournalFollowsTurn, LoopRunsThrough, CapKept, Counted,
                Analysing, Executing
  <1>4. Accounted(o)
    BY <1>1, AlikeAccounted DEF Journalled, SentAccounted
  <1>5. SentAccounted'
    BY <1>1, <1>2, <1>4 DEF Journalled, SentAccounted, Accounted, Ticker
  <1>6. SentOnce'
    BY <1>1, <1>2 DEF Journalled, SentOnce, Alike
  <1> QED
    BY <1>3, <1>5, <1>6 DEF Journalled

LEMMA RejectJournals ==
    ASSUME Journalled, NEW q \in wire, Reject(q)
    PROVE  Journalled'
  <1>1. /\ wire' \subseteq wire /\ orders' = orders
        /\ UNCHANGED <<pc, turn, opened, outcomes, summary>>
    BY DEF Reject, Answer, journal
  <1> QED
    BY <1>1, UnchangedRelabels, WorldJournals

LEMMA FillJournals ==
    ASSUME Journalled, OrdersWhole, NEW o \in orders, Fill(o)
    PROVE  Journalled'
  <1> DEFINE marked == [o EXCEPT !.status = "filled"]
             filled == [marked EXCEPT !.legs = {"sell", "buy"}]
  <1>1. /\ orders' = (orders \ {o}) \cup {filled} /\ wire' = wire
        /\ UNCHANGED <<pc, turn, opened, outcomes, summary>>
    BY DEF Fill, runVars, journal
  <1>2. Whole(marked) /\ Alike(marked, o)
    BY ProjectionKept DEF OrdersWhole, Projection, Alike
  <1> HIDE DEF marked
  <1>3. Alike(filled, marked)
    BY <1>2, ProjectionKept DEF Projection, Alike
  <1> HIDE DEF filled
  <1>4. Relabelled
    BY <1>1, <1>2, <1>3 DEF Relabelled, Journalled, SentOnce, Alike
  <1> QED
    BY <1>1, <1>4, WorldJournals

LEMMA NextDayJournals ==
    ASSUME Journalled, OrdersWhole, NextDay
    PROVE  Journalled'
  <1> DEFINE Aged(o) == IF o.status = "open" THEN [o EXCEPT !.status = "expired"] ELSE o
  <1>1. \A o \in orders : Alike(Aged(o), o)
    BY ProjectionKept DEF OrdersWhole, Projection, Alike
  <1>2. /\ orders' = {Aged(o) : o \in orders} /\ wire' = wire
        /\ UNCHANGED <<pc, turn, opened, outcomes, summary>>
    BY DEF NextDay, runVars, journal
  <1> HIDE DEF Aged
  <1>3. ASSUME NEW o \in orders, NEW p \in orders, Alike(Aged(o), Aged(p))
        PROVE  o = p
    BY <1>1, <1>3 DEF Alike, Journalled, SentOnce
  <1>4. Relabelled
    BY <1>1, <1>2, <1>3 DEF Relabelled
  <1> QED
    BY <1>2, <1>4, WorldJournals

-----------------------------------------------------------------------------
(***************************************************************************)
(* The theorems.                                                           *)
(***************************************************************************)

LEMMA InitJournals == Init => Journalled
  <1> SUFFICES ASSUME Init PROVE Journalled
    OBVIOUS
  <1>1. Typed
    BY TickerFacts DEF Init, Typed, Places, OutcomeType
  <1>2. JournalFollowsTurn
    BY TickerFacts DEF Init, JournalFollowsTurn
  <1>3. LoopRunsThrough
    BY DEF Init, LoopRunsThrough, Analysing, Executing
  <1>4. CapKept
    <2>1. \A r \in Runs : Counted(r) = {}
      BY DEF Init, Counted, CountsAgainstCap
    <2>2. \A r \in Runs : Cardinality(Counted(r)) = 0
      BY <2>1, FS_EmptySet
    <2>3. \A r \in Runs : opened[r] = 0 /\ ~ Executing(r)
      BY DEF Init, Executing
    <2> QED
      BY <2>2, <2>3, CycleAssumption DEF CapKept
  <1>5. SentAccounted /\ SentOnce
    BY DEF Init, SentAccounted, SentOnce
  <1> QED
    BY <1>1, <1>2, <1>3, <1>4, <1>5 DEF Journalled

LEMMA NextJournals == Journalled /\ OrdersWhole /\ [Next]_vars => Journalled'
  <1> SUFFICES ASSUME Journalled, OrdersWhole, [Next]_vars PROVE Journalled'
    OBVIOUS
  <1>1. CASE \E r \in Runs : Start(r)
    BY <1>1, ReadsJournal
  <1>2. CASE \E r \in Runs : Run(r)
    BY <1>2, RunJournals
  <1>3. CASE \E r \in Runs : Crash(r)
    BY <1>3, CrashJournals
  <1>4. CASE \E q \in wire : Accept(q)
    BY <1>4, AcceptJournals
  <1>5. CASE \E q \in wire : Reject(q)
    BY <1>5, RejectJournals
  <1>6. CASE \E o \in orders : Fill(o)
    BY <1>6, FillJournals
  <1>7. CASE NextDay
    BY <1>7, NextDayJournals
  <1>8. CASE CloseMarket \/ UNCHANGED vars
    <2>1. UNCHANGED <<pc, turn, opened, outcomes, summary, wire, orders>>
      BY <1>8 DEF CloseMarket, vars, runVars, journal, broker
    <2> QED
      BY <2>1, UnchangedRelabels, WorldJournals
  <1> QED
    BY <1>1, <1>2, <1>3, <1>4, <1>5, <1>6, <1>7, <1>8 DEF Next, Broker

LEMMA OutcomesKept ==
    ASSUME Journalled, [Next]_vars, NEW x \in Runs, NEW t \in DOMAIN outcomes[x],
           outcomes[x][t] # "none"
    PROVE  outcomes'[x][t] = outcomes[x][t]
  <1>1. t \in Underlyings
    BY DEF Journalled, Typed
  <1>2. ASSUME NEW r \in Runs, NEW outcome, Finish(r, outcome), Analysing(r)
        PROVE  outcomes'[x][t] = outcomes[x][t]
    BY <1>1, <1>2, CurrentIsOpen, FinishOutcomes
  <1>3. CASE outcomes' = outcomes
    BY <1>3
  <1>4. ASSUME NEW r \in Runs, Run(r)
        PROVE  outcomes' = outcomes \/ (Analysing(r) /\ \E outcome : Finish(r, outcome))
    <2>1. CASE ReadClock(r) \/ ReadPortfolio(r) \/ ManageExits(r) \/ PlaceOrder(r) \/ LogCycle(r)
      BY <2>1 DEF ReadClock, ReadPortfolio, ManageExits, PlaceOrder, LogCycle, Skip, journal
    <2>2. CASE NoTrade(r) \/ FindExistingOrder(r) \/ GetReply(r) \/ CycleTimeout(r)
      BY <2>2 DEF NoTrade, FindExistingOrder, GetReply, CycleTimeout, Analysing, Executing
    <2>3. CASE Decide(r)
      BY Zenon, <2>3 DEF Decide, Analysing
    <2> QED
      BY <1>4, <2>1, <2>2, <2>3 DEF Run
  <1>5. CASE \E r \in Runs : Start(r) \/ Crash(r)
    BY <1>3, <1>5 DEF Start, Crash, journal
  <1>6. CASE Broker \/ CloseMarket \/ NextDay \/ UNCHANGED vars
    BY <1>3, <1>6 DEF Broker, Accept, Reject, Fill, CloseMarket, NextDay, vars, journal
  <1> QED
    BY <1>2, <1>3, <1>4, <1>5, <1>6 DEF Next

LEMMA UnionBound ==
    ASSUME NEW S, NEW T, IsFiniteSet(S), IsFiniteSet(T)
    PROVE  IsFiniteSet(S \cup T) /\ Cardinality(S \cup T) <= Cardinality(S) + Cardinality(T)
  <1>1. IsFiniteSet(S \cap T)
    BY FS_Subset
  <1>2. /\ Cardinality(S) \in Nat /\ Cardinality(T) \in Nat
        /\ Cardinality(S \cap T) \in Nat
    BY <1>1, FS_CardinalityType
  <1>3. IsFiniteSet(S \cup T)
        /\ Cardinality(S \cup T) = Cardinality(S) + Cardinality(T) - Cardinality(S \cap T)
    BY FS_Union
  <1> QED
    BY <1>2, <1>3

\* What the orders of a run can number, whatever its journal says.
LEMMA OrdersCounted ==
    ASSUME Journalled
    PROVE  OrdersWithinCap
  <1> SUFFICES ASSUME NEW r \in Runs
               PROVE  Cardinality({o \in orders : o.run = r})
                        <= MaxNew + Cardinality({t \in DOMAIN outcomes[r] :
                                                   outcomes[r][t] \in {"failed", "timeout"}})
    BY DEF OrdersWithinCap
  <1> DEFINE mine == {o \in orders : o.run = r}
             excused == {t \in Underlyings : outcomes[r][t] \in {"failed", "timeout"}}
             waiting == {t \in {Ticker(r)} : opened[r] < MaxNew}
             explained == Counted(r) \cup excused \cup waiting
  <1>1. DOMAIN outcomes[r] = Underlyings
    BY DEF Journalled, Typed
  <1>2. IsFiniteSet(Counted(r)) /\ IsFiniteSet(excused)
    BY UnderlyingsFinite, FS_Subset DEF Counted
  <1>3. IsFiniteSet(waiting) /\ opened[r] + Cardinality(waiting) <= MaxNew
    <2>1. opened[r] \in Nat /\ opened[r] <= MaxNew /\ MaxNew \in Nat
      BY CycleAssumption DEF Journalled, Typed, CapKept
    <2>2. CASE opened[r] < MaxNew
      <3>1. waiting = {Ticker(r)}
        BY <2>2
      <3>2. IsFiniteSet(waiting) /\ Cardinality(waiting) = 1
        BY <3>1, FS_Singleton
      <3> QED
        BY <2>1, <2>2, <3>2
    <2>3. CASE ~ (opened[r] < MaxNew)
      <3>1. waiting = {}
        BY <2>3
      <3>2. IsFiniteSet(waiting) /\ Cardinality(waiting) = 0
        BY <3>1, FS_EmptySet
      <3> QED
        BY <2>1, <3>2
    <2> QED
      BY <2>2, <2>3
  <1>4. /\ IsFiniteSet(explained)
        /\ Cardinality(explained)
             <= Cardinality(Counted(r)) + Cardinality(excused) + Cardinality(waiting)
    <2> HIDE DEF excused, waiting
    <2>1. /\ IsFiniteSet(Counted(r) \cup excused)
          /\ Cardinality(Counted(r) \cup excused)
               <= Cardinality(Counted(r)) + Cardinality(excused)
      BY <1>2, UnionBound
    <2>2. /\ IsFiniteSet((Counted(r) \cup excused) \cup waiting)
          /\ Cardinality((Counted(r) \cup excused) \cup waiting)
               <= Cardinality(Counted(r) \cup excused) + Cardinality(waiting)
      BY <1>3, <2>1, UnionBound
    <2>3. /\ Cardinality(Counted(r)) \in Nat /\ Cardinality(excused) \in Nat
          /\ Cardinality(Counted(r) \cup excused) \in Nat /\ Cardinality(waiting) \in Nat
          /\ Cardinality((Counted(r) \cup excused) \cup waiting) \in Nat
      BY <1>2, <1>3, <2>1, <2>2, FS_CardinalityType
    <2> QED
      BY <2>1, <2>2, <2>3
  <1>5. \A o \in mine : o.ticker \in explained
    BY DEF Journalled, SentAccounted, Accounted, Counted, CountsAgainstCap
  <1>6. \A o, p \in mine : o.ticker = p.ticker => o = p
    BY DEF Journalled, SentOnce, Alike
  <1>7. IsFiniteSet(mine) /\ Cardinality(mine) <= Cardinality(explained)
    <2> HIDE DEF mine, explained
    <2>1. [o \in mine |-> o.ticker] \in Injection(mine, explained)
      BY <1>5, <1>6 DEF Injection, IsInjective
    <2> QED
      BY <1>4, <2>1, FS_Injection
  <1>8. opened[r] = Cardinality(Counted(r)) /\ opened[r] \in Nat /\ MaxNew \in Nat
    BY CycleAssumption DEF Journalled, Typed, CapKept
  <1>9. Cardinality(mine) \in Nat /\ Cardinality(explained) \in Nat
        /\ Cardinality(excused) \in Nat /\ Cardinality(waiting) \in Nat
    BY <1>2, <1>3, <1>4, <1>7, FS_CardinalityType
  <1> HIDE DEF mine, explained, waiting
  <1>10. Cardinality(mine) <= MaxNew + Cardinality(excused)
    BY <1>3, <1>4, <1>7, <1>8, <1>9
  <1> QED
    BY <1>1, <1>10 DEF mine

\* The invariant of the journal, with what it needs of the orders' records.
THEOREM JournalIsKept == Spec => []Journalled
  <1>1. Init => IInv /\ OrdersWhole /\ Journalled
    BY InitIInv, InitJournals DEF Init, OrdersWhole
  <1>2. IInv /\ OrdersWhole /\ Journalled /\ [Next]_vars
          => IInv' /\ OrdersWhole' /\ Journalled'
    BY NextIInv, NextRefines, NextJournals
  <1> QED
    BY <1>1, <1>2, PTL DEF Spec

\* An outcome of run_cycle, once journalled, is never revised, also not by a
\* reply that comes late (asyncio.wait_for, agent/orchestrator.py).
THEOREM CycleOutcomesFinal == Spec => OutcomesAreFinal
  <1>1. Journalled /\ [Next]_vars =>
          [ \A r \in Runs : \A t \in DOMAIN outcomes[r] :
               outcomes[r][t] # "none" => outcomes'[r][t] = outcomes[r][t] ]_vars
    BY OutcomesKept
  <1> QED
    BY <1>1, JournalIsKept, PTL DEF Spec, OutcomesAreFinal

\* "Analyse EVERY underlying" (run_cycle, agent/orchestrator.py): a complete
\* summary means one outcome for each.
THEOREM CycleAnalysesAll == Spec => []EveryTickerAnalysed
  <1>1. Journalled => EveryTickerAnalysed
    <2> SUFFICES ASSUME Journalled, NEW r \in Runs, summary[r] = "complete",
                        NEW t \in DOMAIN outcomes[r]
                 PROVE  outcomes[r][t] # "none"
      BY DEF EveryTickerAnalysed
    <2>1. PICK i \in DOMAIN Tickers : t = Tickers[i]
      BY TickerFacts DEF Journalled, Typed
    <2>2. i < turn[r]
      BY TickerFacts DEF Journalled, Typed, LoopRunsThrough
    <2> QED
      BY <2>1, <2>2 DEF Journalled, JournalFollowsTurn
  <1> QED
    BY <1>1, JournalIsKept, PTL

\* An order at the broker is journalled as submitted or as failed, or by a
\* no-order entry without turns, as the one of a cancelled analysis is, or its
\* run waits for the reply or died waiting: never by an entry of an analysis that
\* came to an end of its own (execute and run_cycle, agent/orchestrator.py).
THEOREM CycleExplainsOrders == Spec => []EveryOrderExplained
  <1>1. Journalled => EveryOrderExplained
    <2> SUFFICES ASSUME Journalled, NEW o \in orders, Accounted(o)
                 PROVE  LET entry == Entry(outcomes[o.run][o.ticker])
                        IN  \/ entry.event \in {"order_submitted", "order_failed"}
                            \/ entry.event = "no_order" /\ ~ entry.namesTurns
                            \/ /\ outcomes[o.run][o.ticker] = "none" /\ Ticker(o.run) = o.ticker
                               /\ pc[o.run] \in {"await", "crashed"}
      BY DEF Journalled, SentAccounted, EveryOrderExplained
    <2>1. /\ Entry("submitted").event = "order_submitted"
          /\ Entry("failed").event = "order_failed"
          /\ Entry("timeout").event = "no_order" /\ ~ Entry("timeout").namesTurns
      BY DEF Entry
    <2> QED
      BY <2>1 DEF Accounted
  <1> QED
    BY <1>1, JournalIsKept, PTL

\* max_new_positions_per_cycle bounds the orders of a run, failures and
\* timeouts aside (run_cycle, agent/orchestrator.py).
THEOREM CycleKeepsCap == Spec => []OrdersWithinCap
  BY OrdersCounted, JournalIsKept, PTL

-----------------------------------------------------------------------------
(***************************************************************************)
(* What an order adds to the account.                                      *)
(***************************************************************************)

\* An order for a spread that was offered; nothing of it is held while it waits.
OrderType(o) ==
    /\ o.spread \in Offers /\ o.contracts \in Nat \ {0}
    /\ o.status = "open" => o.legs = {}

SellLeg(o) == Leg(o.spread, "sell")
BuyLeg(o) == Leg(o.spread, "buy")

LEMMA LegsDiffer ==
    ASSUME NEW o, OrderType(o)
    PROVE  SellLeg(o) # BuyLeg(o) /\ SellLeg(o).ticker = o.spread.ticker /\ BuyLeg(o).ticker = o.spread.ticker
<1>1. o.spread.buy < o.spread.sell /\ o.spread.sell \in Int /\ o.spread.buy \in Int
  BY QuoteAssumption, CycleAssumption DEF OrderType, SpreadType
<1> QED
  BY <1>1 DEF SellLeg, BuyLeg, Leg

LEMMA QuantityFacts ==
    ASSUME NEW o, OrderType(o), NEW leg
    PROVE  /\ Quantity(o, leg) \in Int
           /\ o.legs = {} => Quantity(o, leg) = 0
           /\ o.legs = {"sell", "buy"} =>
                 /\ Quantity(o, SellLeg(o)) = -o.contracts
                 /\ Quantity(o, BuyLeg(o)) = o.contracts
                 /\ leg # SellLeg(o) /\ leg # BuyLeg(o) => Quantity(o, leg) = 0
           /\ Quantity(o, leg) # 0 => leg = SellLeg(o) \/ leg = BuyLeg(o)
<1>1. o.contracts \in Int /\ SellLeg(o) # BuyLeg(o)
  BY LegsDiffer DEF OrderType
<1>2. /\ "sell" \in o.legs => Quantity(o, SellLeg(o)) = -o.contracts
      /\ "buy" \in o.legs => Quantity(o, BuyLeg(o)) = o.contracts
      /\ leg # SellLeg(o) /\ leg # BuyLeg(o) => Quantity(o, leg) = 0
      /\ o.legs = {} => Quantity(o, leg) = 0
      /\ Quantity(o, leg) \in {-o.contracts, o.contracts, 0}
  BY <1>1 DEF Quantity, SellLeg, BuyLeg
<1> QED
  BY <1>1, <1>2

\* Held, as a sum over any finite set of orders with the same legs.
HeldOf(set, leg) == SumOf([o \in set |-> Quantity(o, leg)], set)

LEMMA HeldIsASum == \A leg : Held(leg) = HeldOf(orders, leg)
<1> SUFFICES ASSUME NEW leg PROVE Held(leg) = HeldOf(orders, leg)
  OBVIOUS
<1>1. DOMAIN [o \in orders |-> Quantity(o, leg)] = orders
  OBVIOUS
<1> QED
  BY <1>1 DEF Held, HeldOf, SumOf, SumFunction

LEMMA HeldOfType ==
    ASSUME NEW set, IsFiniteSet(set), \A o \in set : OrderType(o), NEW leg
    PROVE  HeldOf(set, leg) \in Int
<1> DEFINE f == [o \in set |-> Quantity(o, leg)]
<1>1. f \in [set -> Int]
  BY QuantityFacts
<1>2. set \in SUBSET set
  OBVIOUS
<1> HIDE DEF f
<1>3. SumOf(f, set) \in Int
  BY <1>1, <1>2, SumType
<1> QED
  BY <1>3 DEF HeldOf, f

LEMMA HeldIsListed ==
    ASSUME NEW set, IsFiniteSet(set), \A o \in set : OrderType(o), NEW leg,
           \A o \in set : leg # SellLeg(o) /\ leg # BuyLeg(o)
    PROVE  HeldOf(set, leg) = 0
<1> DEFINE f == [o \in set |-> Quantity(o, leg)]
<1>1. f \in [set -> Int] /\ \A o \in set : f[o] = 0
  BY QuantityFacts
<1>2. {} \in SUBSET set /\ \A o \in set : o \notin {} => f[o] = 0
  BY <1>1
<1> HIDE DEF f
<1>3. SumOf(f, set) = SumOf(f, {}) /\ SumOf(f, {}) = 0
  BY <1>1, <1>2, SumOfZeros, SumOfNothing
<1> QED
  BY <1>3 DEF HeldOf, f

\* Orders that hold nothing do not count.
LEMMA HeldOfRest ==
    ASSUME NEW set, IsFiniteSet(set), \A o \in set : OrderType(o), NEW rest \in SUBSET set,
           \A o \in set : o \notin rest => o.legs = {}, NEW leg
    PROVE  HeldOf(set, leg) = HeldOf(rest, leg)
<1> DEFINE f == [o \in set |-> Quantity(o, leg)]
           g == [o \in rest |-> Quantity(o, leg)]
<1>1. /\ f \in [set -> Int] /\ \A o \in set : o \notin rest => f[o] = 0
      /\ g \in [rest -> Int] /\ \A o \in rest : f[o] = g[o]
  BY QuantityFacts
<1>2. IsFiniteSet(rest)
  BY FS_Subset
<1>3. rest \subseteq set /\ rest \subseteq rest
  OBVIOUS
<1> HIDE DEF f, g
<1>4. SumOf(f, set) = SumOf(f, rest)
  BY <1>1, SumOfZeros
<1>5. SumOf(f, rest) = SumOf(g, rest)
  BY <1>1, <1>2, <1>3, SumOfAlike
<1> QED
  BY <1>4, <1>5 DEF HeldOf, f, g

\* One order more.
LEMMA HeldOfMore ==
    ASSUME NEW set, IsFiniteSet(set), \A o \in set : OrderType(o),
           NEW new, OrderType(new), new \notin set, NEW leg
    PROVE  HeldOf(set \cup {new}, leg) = HeldOf(set, leg) + Quantity(new, leg)
<1>1. PICK more : more = set \cup {new}
  OBVIOUS
<1> DEFINE f == [o \in more |-> Quantity(o, leg)]
           g == [o \in set |-> Quantity(o, leg)]
<1>2. /\ f \in [more -> Int] /\ g \in [set -> Int] /\ f[new] = Quantity(new, leg)
      /\ \A o \in set : f[o] = g[o]
  BY <1>1, QuantityFacts
<1>3. IsFiniteSet(more)
  BY <1>1, FS_AddElement
<1>4. set = more \ {new} /\ new \in more /\ more \in SUBSET more /\ set \subseteq more /\ set \subseteq set
  BY <1>1
<1> HIDE DEF f, g
<1>5. SumOf(f, more) = f[new] + SumOf(f, set)
  BY <1>2, <1>3, <1>4, SumSplits
<1>6. SumOf(f, set) = SumOf(g, set) /\ SumOf(g, set) \in Int
  BY <1>2, <1>3, <1>4, SumOfAlike, SumType
<1>7. Quantity(new, leg) \in Int
  BY QuantityFacts
<1>8. SumOf(f, more) = SumOf(g, set) + Quantity(new, leg)
  BY <1>2, <1>5, <1>6, <1>7
<1> QED
  BY <1>1, <1>8 DEF HeldOf, f, g

TypedOrders(set) == IsFiniteSet(set) /\ \A o \in set : OrderType(o)

LegsOf(set) == {Leg(o.spread, side) : o \in set, side \in {"sell", "buy"}}

RowsOf(set) == {leg \in LegsOf(set) : HeldOf(set, leg) # 0}

Worth(set, leg) == LegDelta[leg] * HeldOf(set, leg) * SpotOf[leg.ticker]

DeltaWithin(set, rows) == SumOf([leg \in rows |-> Worth(set, leg)], rows)

LEMMA AccountIsOfOrders ==
    /\ Rows = RowsOf(orders)
    /\ \A rows : DeltaOf(rows) = DeltaWithin(orders, rows)
<1>1. \A leg : Held(leg) = HeldOf(orders, leg)
  BY HeldIsASum
<1>2. Rows = RowsOf(orders)
  BY <1>1 DEF Rows, RowsOf, LegsOf
<1>3. ASSUME NEW rows PROVE DeltaOf(rows) = DeltaWithin(orders, rows)
  <2> DEFINE f == [leg \in rows |-> LegDelta[leg] * Held(leg) * SpotOf[leg.ticker]]
             g == [leg \in rows |-> Worth(orders, leg)]
  <2>1. f = g
    BY <1>1 DEF Worth
  <2>2. DOMAIN f = rows
    OBVIOUS
  <2>3. DeltaOf(rows) = SumOf(f, rows)
    BY <2>2 DEF DeltaOf, SumFunction, SumOf
  <2> QED
    BY <2>1, <2>3 DEF DeltaWithin
<1> QED
  BY <1>2, <1>3

LEMMA LegsOfFacts ==
    ASSUME NEW set, TypedOrders(set)
    PROVE  /\ IsFiniteSet(LegsOf(set))
           /\ \A leg \in LegsOf(set) : LegDelta[leg] \in Int /\ SpotOf[leg.ticker] \in Int
           /\ \A o \in set : SellLeg(o) \in LegsOf(set) /\ BuyLeg(o) \in LegsOf(set)
           /\ LegsOf(set) \subseteq PositionType
<1>1. LegsOf(set) = {SellLeg(o) : o \in set} \cup {BuyLeg(o) : o \in set}
  BY DEF LegsOf, SellLeg, BuyLeg
<1>2. IsFiniteSet({SellLeg(o) : o \in set})
  <2>1. [o \in set |-> SellLeg(o)] \in Surjection(set, {SellLeg(o) : o \in set})
    BY DEF Surjection, Range
  <2> QED
    BY <2>1, FS_Surjection DEF TypedOrders
<1>3. IsFiniteSet({BuyLeg(o) : o \in set})
  <2>1. [o \in set |-> BuyLeg(o)] \in Surjection(set, {BuyLeg(o) : o \in set})
    BY DEF Surjection, Range
  <2> QED
    BY <2>1, FS_Surjection DEF TypedOrders
<1>4. ASSUME NEW o \in set
      PROVE  /\ LegDelta[SellLeg(o)] \in Int /\ LegDelta[BuyLeg(o)] \in Int
             /\ SpotOf[SellLeg(o).ticker] \in Int /\ SpotOf[BuyLeg(o).ticker] \in Int
             /\ SellLeg(o) \in PositionType /\ BuyLeg(o) \in PositionType
  <2>1. o.spread \in Offers /\ o.spread \in SpreadType /\ OrderType(o)
    BY CycleAssumption DEF TypedOrders, OrderType
  <2>2. SellLeg(o) \in PositionType /\ BuyLeg(o) \in PositionType
    BY <2>1 DEF SpreadType, PositionType, SellLeg, BuyLeg, Leg
  <2>3. SellLeg(o).ticker = o.spread.ticker /\ BuyLeg(o).ticker = o.spread.ticker
    BY <2>1, LegsDiffer
  <2> QED
    BY <2>1, <2>2, <2>3, QuoteAssumption DEF SellLeg, BuyLeg
<1> QED
  BY <1>1, <1>2, <1>3, <1>4, FS_Union

LEMMA WorthType ==
    ASSUME NEW set, TypedOrders(set), NEW leg \in LegsOf(set), NEW part, TypedOrders(part)
    PROVE  Worth(part, leg) \in Int
<1>1. LegDelta[leg] \in Int /\ SpotOf[leg.ticker] \in Int /\ HeldOf(part, leg) \in Int
  BY LegsOfFacts, HeldOfType DEF TypedOrders
<1> QED
  BY <1>1 DEF Worth

LEMMA RowsAreHeld ==
    ASSUME NEW set, TypedOrders(set), NEW leg
    PROVE  leg \in RowsOf(set) <=> HeldOf(set, leg) # 0
<1>1. ASSUME leg \notin LegsOf(set) PROVE HeldOf(set, leg) = 0
  <2>1. \A o \in set : leg # SellLeg(o) /\ leg # BuyLeg(o)
    BY <1>1, LegsOfFacts
  <2> QED
    BY <2>1, HeldIsListed DEF TypedOrders
<1> QED
  BY <1>1 DEF RowsOf

\* The book's delta may be taken over any legs that include the rows.
LEMMA DeltaOverLegs ==
    ASSUME NEW all, TypedOrders(all), NEW set, TypedOrders(set), RowsOf(set) \subseteq LegsOf(all)
    PROVE  DeltaWithin(set, RowsOf(set)) = DeltaWithin(set, LegsOf(all))
<1>1. PICK rows, legs : rows = RowsOf(set) /\ legs = LegsOf(all)
  OBVIOUS
<1> DEFINE f == [leg \in legs |-> Worth(set, leg)]
           g == [leg \in rows |-> Worth(set, leg)]
<1>2. \A leg \in legs : Worth(set, leg) \in Int
  BY <1>1, WorthType
<1>3. IsFiniteSet(legs) /\ IsFiniteSet(rows) /\ rows \subseteq legs /\ rows \subseteq rows
  BY <1>1, LegsOfFacts, FS_Subset
<1>4. f \in [legs -> Int] /\ g \in [rows -> Int] /\ \A leg \in rows : f[leg] = g[leg]
  BY <1>2, <1>3
<1>5. ASSUME NEW leg \in legs, leg \notin rows PROVE f[leg] = 0
  <2>1. HeldOf(set, leg) = 0 /\ LegDelta[leg] \in Int /\ SpotOf[leg.ticker] \in Int
    BY <1>1, <1>5, RowsAreHeld, LegsOfFacts
  <2> QED
    BY <2>1 DEF Worth
<1> HIDE DEF f, g
<1>6. SumOf(f, legs) = SumOf(f, rows)
  BY <1>3, <1>4, <1>5, SumOfZeros
<1>7. SumOf(f, rows) = SumOf(g, rows)
  BY <1>3, <1>4, SumOfAlike
<1> QED
  BY <1>1, <1>6, <1>7 DEF DeltaWithin, f, g

LEMMA DeltaType ==
    ASSUME NEW set, TypedOrders(set), NEW rows \in SUBSET LegsOf(set)
    PROVE  DeltaWithin(set, rows) \in Int
<1> DEFINE g == [leg \in rows |-> Worth(set, leg)]
<1>1. g \in [rows -> Int]
  BY WorthType
<1>2. IsFiniteSet(rows) /\ rows \in SUBSET rows
  BY LegsOfFacts, FS_Subset
<1> HIDE DEF g
<1>3. SumOf(g, rows) \in Int
  BY <1>1, <1>2, SumType
<1> QED
  BY <1>3 DEF DeltaWithin, g

\* A filled order adds its spread's net delta at the spot price.
LEMMA DeltaOfMore ==
    ASSUME NEW set, TypedOrders(set), NEW new, OrderType(new), new \notin set,
           new.legs = {"sell", "buy"}
    PROVE  /\ DeltaWithin(set \cup {new}, RowsOf(set \cup {new}))
                = DeltaWithin(set, RowsOf(set))
                    + new.spread.netDelta * SpotOf[new.spread.ticker] * new.contracts
           /\ TypedOrders(set \cup {new})
<1>1. PICK more : more = set \cup {new}
  OBVIOUS
<1>2. TypedOrders(more)
  BY <1>1, FS_AddElement DEF TypedOrders
<1>3. PICK legs : legs = LegsOf(more)
  OBVIOUS
<1>4. RowsOf(more) \subseteq legs /\ RowsOf(set) \subseteq legs
  BY <1>1, <1>3 DEF RowsOf, LegsOf
<1> DEFINE f == [leg \in legs |-> Worth(set, leg)]
           g == [leg \in legs |-> Worth(more, leg)]
<1>5. f \in [legs -> Int] /\ g \in [legs -> Int] /\ IsFiniteSet(legs)
  BY <1>2, <1>3, WorthType, LegsOfFacts
<1>6. PICK a, b : a = SellLeg(new) /\ b = BuyLeg(new)
  OBVIOUS
<1>7. a \in legs /\ b \in legs /\ a # b
  BY <1>1, <1>2, <1>3, <1>6, LegsOfFacts, LegsDiffer
<1>8. \A leg : HeldOf(more, leg) = HeldOf(set, leg) + Quantity(new, leg)
  BY <1>1, HeldOfMore DEF TypedOrders
<1>9. ASSUME NEW leg \in legs, leg # a, leg # b PROVE f[leg] = g[leg]
  <2>1. HeldOf(more, leg) = HeldOf(set, leg) + 0
    BY <1>6, <1>8, <1>9, QuantityFacts
  <2>2. HeldOf(set, leg) \in Int
    BY HeldOfType DEF TypedOrders
  <2> QED
    BY <2>1, <2>2 DEF Worth
<1>10. PICK k \in Nat \ {0}, m \in Int, n \in Int, spot \in Int :
         /\ k = new.contracts /\ m = LegDelta[a] /\ n = LegDelta[b]
         /\ spot = SpotOf[new.spread.ticker] /\ new.spread.netDelta = n - m
         /\ spot = SpotOf[a.ticker] /\ spot = SpotOf[b.ticker]
  BY <1>6, LegsDiffer, QuoteAssumption DEF OrderType, SellLeg, BuyLeg
<1>11. PICK h \in Int, i \in Int : h = HeldOf(set, a) /\ i = HeldOf(set, b)
  BY HeldOfType DEF TypedOrders
<1>12. HeldOf(more, a) = h - k /\ HeldOf(more, b) = i + k
  BY <1>6, <1>8, <1>10, <1>11, QuantityFacts
<1>13. /\ f[a] = m * h * spot /\ g[a] = m * (h - k) * spot
       /\ f[b] = n * i * spot /\ g[b] = n * (i + k) * spot
  BY <1>7, <1>10, <1>11, <1>12 DEF Worth
<1>14. (g[a] - f[a]) + (g[b] - f[b]) = (n - m) * spot * k
  BY <1>13
<1> HIDE DEF f, g
<1>15. SumOf(g, legs) = SumOf(f, legs) + (g[a] - f[a]) + (g[b] - f[b])
  BY <1>5, <1>7, <1>9, SumOfTwoChanges
<1>16. SumOf(f, legs) \in Int /\ f[a] \in Int /\ f[b] \in Int /\ g[a] \in Int /\ g[b] \in Int
  BY <1>5, <1>7, SumType
<1>17. SumOf(g, legs) = SumOf(f, legs) + (n - m) * spot * k
  BY <1>14, <1>15, <1>16
<1>18. DeltaWithin(more, RowsOf(more)) = SumOf(g, legs)
  BY <1>2, <1>3, <1>4, DeltaOverLegs DEF DeltaWithin, g
<1>19. DeltaWithin(set, RowsOf(set)) = SumOf(f, legs)
  BY <1>2, <1>3, <1>4, DeltaOverLegs DEF DeltaWithin, f
<1> QED
  BY <1>1, <1>2, <1>10, <1>17, <1>18, <1>19

-----------------------------------------------------------------------------
(***************************************************************************)
(* A fill that the gate judged on a book that held no less.                *)
(***************************************************************************)

\* What a run has read, to the gate.
HasRead(p) == p \in PortfolioType /\ p.nav = Nav /\ p.spot = Missing /\ p.netDelta \in Int

Judged(s, n, p) == HasRead(p) /\ R3_portfolio_delta(s, p, n) /\ R5_duplicate(s, p)

ShortsOf(set) ==
    {[leg |-> leg, contracts |-> -HeldOf(set, leg)] : leg \in {x \in RowsOf(set) : HeldOf(set, x) < 0}}

\* Orders that hold nothing are no part of the book.
LEMMA BookOfRest ==
    ASSUME NEW set, TypedOrders(set), NEW rest \in SUBSET set,
           \A o \in set : o \notin rest => o.legs = {}
    PROVE  /\ TypedOrders(rest)
           /\ \A leg : HeldOf(set, leg) = HeldOf(rest, leg)
           /\ RowsOf(set) = RowsOf(rest)
           /\ DeltaWithin(set, RowsOf(set)) = DeltaWithin(rest, RowsOf(rest))
<1>1. TypedOrders(rest)
  BY FS_Subset DEF TypedOrders
<1>2. \A leg : HeldOf(set, leg) = HeldOf(rest, leg)
  BY HeldOfRest DEF TypedOrders
<1>3. \A leg : leg \in RowsOf(set) <=> leg \in RowsOf(rest)
  BY <1>1, <1>2, RowsAreHeld
<1>4. PICK rows : rows = RowsOf(set) /\ rows = RowsOf(rest)
  <2>1. RowsOf(set) = RowsOf(rest)
    BY <1>3
  <2> QED
    BY <2>1
<1>5. [leg \in rows |-> Worth(set, leg)] = [leg \in rows |-> Worth(rest, leg)]
  BY <1>2 DEF Worth
<1>6. DeltaWithin(set, rows) = DeltaWithin(rest, rows)
  BY <1>5 DEF DeltaWithin
<1> QED
  BY <1>1, <1>2, <1>4, <1>6

\* |d + t| <= |z + t| when d is z, or has moved from z towards 0, or beyond t.
LEMMA RoomKept ==
    ASSUME NEW d \in Int, NEW z \in Int, NEW t \in Int, NEW e \in Int, NEW limit \in Int,
           d = z \/ (t >= 0 /\ d \in 0 .. z), 100 * Abs(z + t) <= limit
    PROVE  100 * Abs(d + (t + e)) <= limit + 100 * Abs(e)
  BY DEF Abs

LEMMA FillKeepsBudget ==
    ASSUME NEW o, OrderType(o), NEW p, Judged(o.spread, o.contracts, p), NEW d \in Int,
           d = p.netDelta \/ (o.spread.netDelta >= 0 /\ d \in 0 .. p.netDelta)
    PROVE  100 * Abs(d + o.spread.netDelta * SpotOf[o.spread.ticker] * o.contracts)
              <= Nav * MaxDeltaPct + 100 * Unseen(o)
<1>1. PICK n \in Nat \ {0}, k \in Int, spot \in Int, sell \in Nat \ {0}, z \in Int :
        /\ n = o.contracts /\ k = o.spread.netDelta /\ spot = SpotOf[o.spread.ticker]
        /\ sell = o.spread.sell /\ z = p.netDelta
  <2>1. /\ o.contracts \in Nat \ {0} /\ p.netDelta \in Int
        /\ o.spread \in Offers /\ o.spread \in SpreadType
    BY CycleAssumption DEF OrderType, Judged, HasRead
  <2>2. o.spread.netDelta \in Int /\ o.spread.sell \in Nat \ {0}
    BY <2>1 DEF SpreadType
  <2>3. SpotOf[o.spread.ticker] \in Int
    BY <2>1, QuoteAssumption
  <2> QED
    BY <2>1, <2>2, <2>3
<1>2. PICK limit \in Int : limit = Nav * MaxDeltaPct
  BY CycleAssumption, GateAssumption
<1>3. 100 * Abs(z + k * sell * n) <= limit
  <2>1. Or(p.nav, 0) = Nav
    <3>1. Nav \in Int /\ Nav # 0
      BY CycleAssumption
    <3> QED
      BY <3>1, GateAssumption DEF Judged, HasRead, Or
  <2>2. Or(p.netDelta, 0) = z
    BY <1>1, GateAssumption DEF Or
  <2>3. TradeDelta(o.spread, p, o.contracts) = k * sell * n
    <3>1. Spot(o.spread, p) = sell
      BY <1>1 DEF Spot, Or, Judged, HasRead
    <3> QED
      BY <1>1, <3>1 DEF TradeDelta
  <2> QED
    BY <1>2, <2>1, <2>2, <2>3 DEF Judged, R3_portfolio_delta
<1>4. PICK t \in Int, e \in Int : t = k * sell * n /\ e = k * (spot - sell) * n
  OBVIOUS
<1>5. k * spot * n = t + e
  BY <1>4
<1>6. k >= 0 => t >= 0
  <2> SUFFICES ASSUME k >= 0 PROVE t >= 0
    OBVIOUS
  <2>1. k \in Nat /\ sell \in Nat /\ n \in Nat
    OBVIOUS
  <2>2. k * sell \in Nat
    BY <2>1
  <2>3. PICK j \in Nat : j = k * sell
    BY <2>2
  <2>4. j * n \in Nat
    BY <2>1
  <2> QED
    BY <1>4, <2>3, <2>4
<1>7. Unseen(o) = Abs(e)
  BY <1>1, <1>4 DEF Unseen
<1>8. d = z \/ (t >= 0 /\ d \in 0 .. z)
  BY <1>1, <1>6
<1>9. 100 * Abs(z + t) <= limit
  BY <1>3, <1>4
<1>10. 100 * Abs(d + (t + e)) <= limit + 100 * Abs(e)
  BY <1>8, <1>9, RoomKept
<1> QED
  BY <1>1, <1>2, <1>5, <1>7, <1>10

LEMMA BookIsOfOrders ==
    /\ ShortPositions = ShortsOf(orders)
    /\ BookDelta = DeltaWithin(orders, RowsOf(orders))
    /\ Rows = RowsOf(orders)
<1>1. Rows = RowsOf(orders) /\ BookDelta = DeltaWithin(orders, RowsOf(orders))
  BY AccountIsOfOrders DEF BookDelta
<1>2. \A leg : Held(leg) = HeldOf(orders, leg)
  BY HeldIsASum
<1> QED
  BY <1>1, <1>2 DEF ShortPositions, ShortsOf

\* The short leg of an order passed by Rule 5 is on no row the book still has.
LEMMA SellLegIsNew ==
    ASSUME NEW o, OrderType(o), NEW p, R5_duplicate(o.spread, p), NEW rows \in SUBSET p.positions
    PROVE  SellLeg(o) \notin rows
  BY DEF R5_duplicate, SellLeg, Leg

\* An order fills that the gate judged on a snapshot that still covers the book.
LEMMA FillIsSafe ==
    ASSUME TypedOrders(orders), NEW rest \in SUBSET orders,
           \A o \in orders : o \notin rest => o.legs = {},
           NEW new, OrderType(new), new \notin rest, new.legs = {"sell", "buy"},
           orders' = rest \cup {new},
           Judged(new.spread, new.contracts, snapshot[new.run]), StillCovers(new)
    PROVE  BookOfCycle(Unseen(new))!Next
<1>1. /\ TypedOrders(rest)
      /\ \A leg : HeldOf(orders, leg) = HeldOf(rest, leg)
      /\ RowsOf(orders) = RowsOf(rest)
      /\ DeltaWithin(orders, RowsOf(orders)) = DeltaWithin(rest, RowsOf(rest))
  BY BookOfRest
<1>2. PICK more : more = rest \cup {new}
  OBVIOUS
<1>3. TypedOrders(more)
  BY <1>1, <1>2, DeltaOfMore
<1>4. /\ ShortPositions = ShortsOf(rest)
      /\ BookDelta = DeltaWithin(rest, RowsOf(rest)) /\ Rows = RowsOf(rest)
  BY <1>1, BookIsOfOrders DEF ShortsOf
<1>5. ShortPositions' = ShortsOf(more) /\ BookDelta' = DeltaWithin(more, RowsOf(more))
  <2>1. (/\ ShortPositions = ShortsOf(orders)
         /\ BookDelta = DeltaWithin(orders, RowsOf(orders))
         /\ Rows = RowsOf(orders))'
    BY BookIsOfOrders, PTL
  <2> QED
    BY <1>2, <2>1
<1>6. PICK k \in Nat \ {0} : k = new.contracts
  BY DEF OrderType
<1>7. PICK a, b : a = SellLeg(new) /\ b = BuyLeg(new) /\ a # b
  BY LegsDiffer
<1>8. \A leg : HeldOf(rest, leg) \in Int /\ HeldOf(more, leg) = HeldOf(rest, leg) + Quantity(new, leg)
  BY <1>1, <1>2, HeldOfMore, HeldOfType DEF TypedOrders
<1>9. /\ Quantity(new, a) = -k /\ Quantity(new, b) = k
      /\ \A leg : leg # a /\ leg # b => Quantity(new, leg) = 0
  BY <1>6, <1>7, QuantityFacts
<1>10. HeldOf(rest, a) = 0 /\ a \notin RowsOf(rest)
  <2>1. a \notin Rows
    BY <1>7, SellLegIsNew DEF Judged, StillCovers
  <2> QED
    BY <1>1, <1>4, <2>1, RowsAreHeld
<1>11. HeldOf(more, a) = -k /\ a \in RowsOf(more)
  <2>1. HeldOf(more, a) = -k
    BY <1>8, <1>9, <1>10
  <2>2. HeldOf(more, a) # 0
    BY <2>1
  <2> QED
    BY <1>3, <2>1, <2>2, RowsAreHeld
<1> DEFINE open == [leg |-> a, contracts |-> k]
<1>12. open \in ShortsOf(more)
  BY <1>11 DEF ShortsOf
<1>13. \A old \in ShortsOf(rest) : old.leg # a
  BY <1>10 DEF ShortsOf
<1>14. ASSUME NEW s \in ShortsOf(more), s # open
       PROVE  \E old \in ShortsOf(rest) : old.leg = s.leg /\ s.contracts <= old.contracts
  <2>1. PICK leg \in RowsOf(more) :
          HeldOf(more, leg) < 0 /\ s = [leg |-> leg, contracts |-> -HeldOf(more, leg)]
    BY DEF ShortsOf
  <2>2. leg # a
    BY <1>11, <1>14, <2>1
  <2>3. PICK h \in Int, m \in Int : h = HeldOf(rest, leg) /\ m = HeldOf(more, leg)
    BY <1>8, <1>9, <2>2
  <2>4. h <= m /\ m < 0
    BY <1>8, <1>9, <2>1, <2>2, <2>3
  <2>5. leg \in RowsOf(rest)
    BY <1>1, <2>3, <2>4, RowsAreHeld
  <2>6. [leg |-> leg, contracts |-> -h] \in ShortsOf(rest)
    BY <2>3, <2>4, <2>5 DEF ShortsOf
  <2> QED
    BY <2>1, <2>3, <2>4, <2>6
<1>15. 100 * Abs(BookDelta') <= Nav * MaxDeltaPct + 100 * Unseen(new)
  <2>1. BookDelta' = BookDelta + new.spread.netDelta * SpotOf[new.spread.ticker] * new.contracts
    BY <1>1, <1>2, <1>4, <1>5, DeltaOfMore
  <2>2. BookDelta \in Int
    BY <1>1, <1>4, DeltaType DEF RowsOf
  <2> QED
    BY <2>1, <2>2, FillKeepsBudget DEF StillCovers
<1>16. BookOfCycle(Unseen(new))!Open
  <2>1. /\ open \in ShortPositions'
        /\ \A old \in ShortPositions : old.leg # open.leg
        /\ \A s \in ShortPositions' \ {open} :
              \E old \in ShortPositions : old.leg = s.leg /\ s.contracts <= old.contracts
    BY <1>4, <1>5, <1>12, <1>13, <1>14
  <2>2. 100 * BookOfCycle(Unseen(new))!Magnitude(BookDelta')
           <= (Nav * MaxDeltaPct + 100 * Unseen(new))'
    BY <1>15 DEF BookOfCycle!Magnitude, Abs
  <2> QED
    BY <2>1, <2>2 DEF BookOfCycle!Open, BookOfCycle!NotEnlarged
<1> QED
  BY <1>16 DEF BookOfCycle!Next

-----------------------------------------------------------------------------
(***************************************************************************)
(* Whatever was sent was judged on the snapshot its run still has.         *)
(***************************************************************************)

Reading(r) == pc[r] \in {"exits", "analyse"} \/ Executing(r)

\* The run is past the one read of the portfolio, or it is dead.
Begun(r) == pc[r] \notin {"idle", "clock", "portfolio"}

Sound(s, n, p) == s \in Offers /\ n \in Nat \ {0} /\ Judged(s, n, p)

HaveRead == \A r \in Runs : Reading(r) => HasRead(snapshot[r])

PlansJudged ==
    \A r \in Runs : Executing(r) => Sound(plan[r].spread, plan[r].contracts, snapshot[r])

JudgedWhenSent(q) ==
    q.run \in Runs /\ Begun(q.run) /\ Sound(q.spread, q.contracts, snapshot[q.run])

SentJudged == \A q \in wire \cup orders : JudgedWhenSent(q)

BookTyped == IsFiniteSet(orders) /\ \A o \in orders : o.status = "open" => o.legs = {}

JudgedInv ==
    /\ DOMAIN snapshot = Runs
    /\ HaveRead /\ PlansJudged /\ SentJudged /\ BookTyped

LEMMA JudgedAreTyped ==
    ASSUME JudgedInv
    PROVE  TypedOrders(orders)
  BY DEF JudgedInv, SentJudged, JudgedWhenSent, BookTyped, Sound, TypedOrders, OrderType

\* Orders changed in place: none more, and what the gate judged is as it was.
Relabels ==
    /\ \A p \in orders' : \E o \in orders :
          p.run = o.run /\ p.spread = o.spread /\ p.contracts = o.contracts
    /\ BookTyped'

\* No run that has begun reads another snapshot or begins again.
SnapshotsStay ==
    \A r \in Runs : Begun(r) => Begun(r)' /\ snapshot'[r] = snapshot[r]

LEMMA SentStays ==
    ASSUME JudgedInv, SnapshotsStay, wire' \subseteq wire, Relabels
    PROVE  SentJudged'
<1> SUFFICES ASSUME NEW q \in wire' \cup orders' PROVE JudgedWhenSent(q)'
  BY DEF SentJudged
<1>1. PICK p \in wire \cup orders : q.run = p.run /\ q.spread = p.spread /\ q.contracts = p.contracts
  BY DEF Relabels
<1>2. JudgedWhenSent(p)
  BY DEF JudgedInv, SentJudged
<1> QED
  BY <1>1, <1>2 DEF JudgedWhenSent, SnapshotsStay, Begun

LEMMA UnchangedRelabelled ==
    ASSUME JudgedInv, orders' = orders
    PROVE  Relabels
  BY DEF JudgedInv, BookTyped, Relabels

\* A run moves on without a new plan.
LEMMA MoveJudged ==
    ASSUME JudgedInv, IInv, NEW r \in Runs, NEW where,
           pc' = [pc EXCEPT ![r] = where], snapshot' = snapshot,
           \/ plan' = plan
           \/ where \notin {"lookup", "place", "await"} /\ plan' = [plan EXCEPT ![r] = NoPlan],
           where \in {"lookup", "place", "await"} => Executing(r),
           where \in {"exits", "analyse"} => Reading(r),
           where \in {"idle", "clock", "portfolio"} => ~ Begun(r),
           wire' \subseteq wire, Relabels
    PROVE  JudgedInv'
<1>1. \A x \in Runs : pc'[x] = IF x = r THEN where ELSE pc[x]
  BY DEF IInv, Shape
<1>2. HaveRead'
  BY <1>1 DEF JudgedInv, HaveRead, Reading, Executing, HasRead
<1>3. PlansJudged'
  <2> SUFFICES ASSUME NEW x \in Runs, Executing(x)'
               PROVE  Sound(plan'[x].spread, plan'[x].contracts, snapshot[x])
    BY DEF PlansJudged
  <2>1. Executing(x) /\ plan'[x] = plan[x]
    BY <1>1 DEF Executing, IInv, Shape
  <2> QED
    BY <2>1 DEF JudgedInv, PlansJudged
<1>4. SnapshotsStay
  BY <1>1 DEF SnapshotsStay, Begun
<1>5. SentJudged'
  BY <1>4, SentStays
<1> QED
  BY <1>2, <1>3, <1>5 DEF JudgedInv, Relabels

LEMMA FinishJudged ==
    ASSUME JudgedInv, IInv, NEW r \in Runs, NEW outcome, Finish(r, outcome),
           Reading(r), wire' = wire, orders' = orders
    PROVE  JudgedInv'
<1>1. /\ pc' = [pc EXCEPT ![r] = NextStop(r)] /\ plan' = [plan EXCEPT ![r] = NoPlan]
      /\ snapshot' = snapshot
  BY DEF Finish
<1>2. NextStop(r) \in {"analyse", "summary"}
  BY DEF NextStop
<1> QED
  BY <1>1, <1>2, UnchangedRelabelled, MoveJudged

\* The portfolio as the gate takes it, with numbers in it.
LEMMA ReadPortfolioJudged ==
    ASSUME JudgedInv, IInv, NEW r \in Runs, ReadPortfolio(r), ~ Skip(r)
    PROVE  JudgedInv'
<1>1. PICK account \in Accounts, groups, known \in SUBSET Rows :
        /\ snapshot' = [snapshot EXCEPT ![r] =
              [nav |-> Nav, spot |-> Missing,
               netDelta |-> DeltaOf(known),
               dailyPnl |-> account.dailyPnl,
               buyingPower |-> account.buyingPower, startingBp |-> account.startingBp,
               positions |-> Rows]]
        /\ pc' = [pc EXCEPT ![r] = IF groups = {} THEN FirstStop ELSE "exits"]
        /\ UNCHANGED <<turn, opened, plan, reply, journal>>
  BY DEF ReadPortfolio
<1>2. pc[r] = "portfolio" /\ plan' = plan /\ wire' = wire /\ orders' = orders
  BY <1>1 DEF ReadPortfolio, broker
<1> DEFINE read == [nav |-> Nav, spot |-> Missing,
               netDelta |-> DeltaOf(known),
               dailyPnl |-> account.dailyPnl,
               buyingPower |-> account.buyingPower, startingBp |-> account.startingBp,
               positions |-> Rows]
<1>3. HasRead(read)
  <2>1. TypedOrders(orders)
    BY JudgedAreTyped
  <2>2. Rows \subseteq LegsOf(orders)
    BY AccountIsOfOrders DEF RowsOf
  <2>3. Rows \subseteq PositionType
    BY <2>1, <2>2, LegsOfFacts
  <2>4. DeltaOf(known) \in Int
    BY <2>1, <2>2, AccountIsOfOrders, DeltaType
  <2>5. /\ Nav \in Int /\ account.dailyPnl \in Int /\ account.buyingPower \in Int
        /\ account.startingBp \in Int
    BY CycleAssumption
  <2> QED
    BY <2>3, <2>4, <2>5 DEF HasRead, PortfolioType, Amount
<1>4. \A x \in Runs : snapshot'[x] = IF x = r THEN read ELSE snapshot[x]
  BY <1>1 DEF JudgedInv
<1> HIDE DEF read
<1>5. /\ \A x \in Runs : x # r => pc'[x] = pc[x]
      /\ pc'[r] \notin {"lookup", "place", "await"}
  BY <1>1 DEF IInv, Shape, FirstStop
<1>6. HaveRead'
  BY <1>3, <1>4, <1>5 DEF JudgedInv, HaveRead, Reading, Executing, HasRead
<1>7. PlansJudged'
  <2> SUFFICES ASSUME NEW x \in Runs, Executing(x)'
               PROVE  Sound(plan[x].spread, plan[x].contracts, snapshot'[x])
    BY <1>2 DEF PlansJudged
  <2>1. x # r /\ Executing(x)
    BY <1>5 DEF Executing
  <2> QED
    BY <1>4, <2>1 DEF JudgedInv, PlansJudged
<1>8. SnapshotsStay
  <2> SUFFICES ASSUME NEW x \in Runs, Begun(x) PROVE Begun(x)' /\ snapshot'[x] = snapshot[x]
    BY DEF SnapshotsStay
  <2>1. x # r
    BY <1>2 DEF Begun
  <2> QED
    BY <1>4, <1>5, <2>1 DEF Begun
<1>9. SentJudged'
  BY <1>2, <1>8, SentStays, UnchangedRelabelled
<1>10. DOMAIN snapshot' = Runs
  BY <1>1 DEF JudgedInv
<1> QED
  BY <1>2, <1>6, <1>7, <1>9, <1>10 DEF JudgedInv, BookTyped

\* An approval was judged, all nine rules of it, on the snapshot of the run.
LEMMA DecideJudged ==
    ASSUME JudgedInv, IInv, NEW r \in Runs, Decide(r)
    PROVE  JudgedInv'
<1>1. PICK s \in Offers, requested \in Requests :
        LET verdict == RiskGateCheck(s, snapshot[r], requested)
            n == verdict.contracts
        IN  \/ Finish(r, "rejected") \/ Finish(r, "not_executed") \/ Finish(r, "dry_run")
            \/ /\ verdict.approved
               /\ plan' = [plan EXCEPT ![r] =
                     [spread |-> s, contracts |-> n, id |-> ClientOrderId(s, n)]]
               /\ pc' = [pc EXCEPT ![r] = "lookup"]
               /\ snapshot' = snapshot
  BY Zenon DEF Decide
<1>2. pc[r] = "analyse" /\ wire' = wire /\ orders' = orders
  BY DEF Decide, broker
<1> DEFINE verdict == RiskGateCheck(s, snapshot[r], requested)
           n == verdict.contracts
           planned == [spread |-> s, contracts |-> n, id |-> ClientOrderId(s, n)]
<1>3. CASE Finish(r, "rejected") \/ Finish(r, "not_executed") \/ Finish(r, "dry_run")
  BY <1>2, <1>3, FinishJudged DEF Reading
<1>4. CASE /\ verdict.approved /\ plan' = [plan EXCEPT ![r] = planned]
           /\ pc' = [pc EXCEPT ![r] = "lookup"] /\ snapshot' = snapshot
  <2>1. HasRead(snapshot[r])
    BY <1>2 DEF JudgedInv, HaveRead, Reading
  <2>2. /\ n \in Nat \ {0} /\ R3_portfolio_delta(s, snapshot[r], n)
        /\ R5_duplicate(s, snapshot[r])
    <3>1. s \in SpreadType /\ requested \in Nat \ {0} /\ snapshot[r] \in PortfolioType
      BY <2>1, CycleAssumption DEF HasRead
    <3> QED
      BY <1>4, <3>1, ApprovalIsSafe
  <2>3. planned.spread = s /\ planned.contracts = n
    OBVIOUS
  <2> HIDE DEF verdict, n, planned
  <2>4. Sound(s, n, snapshot[r])
    BY <2>1, <2>2 DEF Sound, Judged
  <2>5. /\ \A x \in Runs : pc'[x] = IF x = r THEN "lookup" ELSE pc[x]
        /\ \A x \in Runs : plan'[x] = IF x = r THEN planned ELSE plan[x]
    BY <1>4 DEF IInv, Shape
  <2>6. HaveRead'
    BY <1>4, <2>1, <2>5 DEF JudgedInv, HaveRead, Reading, Executing, HasRead
  <2>7. PlansJudged'
    <3> SUFFICES ASSUME NEW x \in Runs, Executing(x)'
                 PROVE  Sound(plan'[x].spread, plan'[x].contracts, snapshot[x])
      BY <1>4 DEF PlansJudged
    <3>1. CASE x = r
      BY <2>3, <2>4, <2>5, <3>1
    <3>2. CASE x # r
      BY <2>5, <3>2 DEF JudgedInv, PlansJudged, Executing
    <3> QED
      BY <3>1, <3>2
  <2>8. SnapshotsStay
    BY <1>2, <1>4, <2>5 DEF SnapshotsStay, Begun
  <2>9. SentJudged'
    BY <1>2, <2>8, SentStays, UnchangedRelabelled
  <2> QED
    BY <1>2, <1>4, <2>6, <2>7, <2>9 DEF JudgedInv, BookTyped
<1> QED
  BY <1>1, <1>3, <1>4

\* What goes on the wire is the plan.
LEMMA PlaceOrderJudged ==
    ASSUME JudgedInv, IInv, NEW r \in Runs, PlaceOrder(r)
    PROVE  JudgedInv'
<1> DEFINE placement == [id |-> plan[r].id, run |-> r, ticker |-> Ticker(r),
                         spread |-> plan[r].spread, contracts |-> plan[r].contracts]
<1>1. /\ pc[r] = "place" /\ pc' = [pc EXCEPT ![r] = "await"] /\ plan' = plan
      /\ snapshot' = snapshot /\ orders' = orders /\ wire' = wire \cup {placement}
  BY DEF PlaceOrder
<1>2. placement.run = r /\ placement.spread = plan[r].spread /\ placement.contracts = plan[r].contracts
  OBVIOUS
<1> HIDE DEF placement
<1>3. \A x \in Runs : pc'[x] = IF x = r THEN "await" ELSE pc[x]
  BY <1>1 DEF IInv, Shape
<1>4. HaveRead'
  BY <1>1, <1>3 DEF JudgedInv, HaveRead, Reading, Executing, HasRead
<1>5. \A x \in Runs : Executing(x)' => Executing(x)
  BY <1>1, <1>3 DEF Executing
<1>6. PlansJudged'
  BY <1>1, <1>5 DEF JudgedInv, PlansJudged
<1>7. \A x \in Runs : Begun(x) => Begun(x)'
  BY <1>1, <1>3 DEF Begun
<1>8. SentJudged'
  <2> SUFFICES ASSUME NEW q \in wire' \cup orders' PROVE JudgedWhenSent(q)'
    BY DEF SentJudged
  <2>1. CASE q = placement
    <3>1. Sound(plan[r].spread, plan[r].contracts, snapshot[r])
      BY <1>1 DEF JudgedInv, PlansJudged, Executing
    <3>2. Begun(r)'
      BY <1>3 DEF Begun
    <3> QED
      BY <1>1, <1>2, <2>1, <3>1, <3>2 DEF JudgedWhenSent, Begun
  <2>2. CASE q \in wire \cup orders
    <3>1. JudgedWhenSent(q)
      BY <2>2 DEF JudgedInv, SentJudged
    <3> QED
      BY <1>1, <1>7, <3>1 DEF JudgedWhenSent, Begun
  <2> QED
    BY <1>1, <2>1, <2>2
<1> QED
  BY <1>1, <1>4, <1>6, <1>8 DEF JudgedInv, BookTyped

\* Closing contracts leaves an order what the gate judged.
LEMMA ClosedRelabelled ==
    ASSUME JudgedInv, OrdersWhole, NEW legs, orders' = Closed(legs)
    PROVE  Relabels
<1> DEFINE Stripped(o) == [o EXCEPT !.legs = {side \in @ : Leg(o.spread, side) \notin legs}]
<1>1. \A o \in orders : /\ Stripped(o).run = o.run /\ Stripped(o).spread = o.spread
                        /\ Stripped(o).contracts = o.contracts
                        /\ Stripped(o).status = o.status /\ Stripped(o).legs \subseteq o.legs
  BY DEF OrdersWhole, Whole
<1>2. orders' = {Stripped(o) : o \in orders}
  BY DEF Closed
<1>3. IsFiniteSet(orders')
  <2>1. [o \in orders |-> Stripped(o)] \in Surjection(orders, orders')
    BY <1>2 DEF Surjection, Range
  <2> QED
    BY <2>1, FS_Surjection DEF JudgedInv, BookTyped
<1> HIDE DEF Stripped
<1>4. \A o \in orders' : o.status = "open" => o.legs = {}
  BY <1>1, <1>2 DEF JudgedInv, BookTyped
<1> QED
  BY <1>1, <1>2, <1>3, <1>4 DEF Relabels, BookTyped

LEMMA ManageExitsJudged ==
    ASSUME JudgedInv, IInv, OrdersWhole, NEW r \in Runs, ManageExits(r)
    PROVE  JudgedInv'
<1>1. /\ pc[r] = "exits" /\ plan' = plan /\ snapshot' = snapshot /\ wire' = wire
      /\ orders' = orders \/ \E legs : orders' = Closed(legs)
  BY DEF ManageExits
<1>2. PICK g \in due[r] : pc' = [pc EXCEPT ![r] = IF due[r] = {g} THEN FirstStop ELSE @]
  BY DEF ManageExits
<1>3. PICK where : where \in {"analyse", "summary", "exits"} /\ pc' = [pc EXCEPT ![r] = where]
  BY <1>1, <1>2 DEF FirstStop
<1>4. Relabels
  BY <1>1, ClosedRelabelled, UnchangedRelabelled
<1> QED
  BY <1>1, <1>3, <1>4, MoveJudged DEF Reading

\* What the broker and the calendar do to the orders alone.
LEMMA WorldJudged ==
    ASSUME JudgedInv, pc' = pc, plan' = plan, snapshot' = snapshot, wire' \subseteq wire, Relabels
    PROVE  JudgedInv'
<1>1. HaveRead' /\ PlansJudged'
  BY DEF JudgedInv, HaveRead, PlansJudged, Reading, Executing, HasRead
<1>2. SnapshotsStay
  BY DEF SnapshotsStay, Begun
<1> QED
  BY <1>1, <1>2, SentStays DEF JudgedInv, Relabels

\* An accepted placement is an order for what was sent.
LEMMA AcceptedOrder ==
    ASSUME NEW q \in wire, Accept(q)
    PROVE  \E new : /\ orders' = orders \cup {new}
                    /\ new.id = q.id /\ new.run = q.run /\ new.spread = q.spread
                    /\ new.contracts = q.contracts
                    /\ \/ new.status = "open" /\ new.legs = {}
                       \/ new.status = "filled" /\ new.legs = {"sell", "buy"}
<1>1. PICK filled \in {TRUE, FALSE} : orders' = orders \cup
        {[id |-> q.id, run |-> q.run, ticker |-> q.ticker, spread |-> q.spread,
          contracts |-> q.contracts, status |-> IF filled THEN "filled" ELSE "open",
          legs |-> IF filled THEN {"sell", "buy"} ELSE {}]}
  BY Zenon DEF Accept
<1> DEFINE new == [id |-> q.id, run |-> q.run, ticker |-> q.ticker, spread |-> q.spread,
          contracts |-> q.contracts, status |-> IF filled THEN "filled" ELSE "open",
          legs |-> IF filled THEN {"sell", "buy"} ELSE {}]
<1>2. /\ new.id = q.id /\ new.run = q.run /\ new.spread = q.spread /\ new.contracts = q.contracts
      /\ new.status = IF filled THEN "filled" ELSE "open"
      /\ new.legs = IF filled THEN {"sell", "buy"} ELSE {}
  OBVIOUS
<1>3. orders' = orders \cup {new}
  BY <1>1
<1> HIDE DEF new
<1> QED
  BY <1>2, <1>3

LEMMA AcceptJudged ==
    ASSUME JudgedInv, NEW q \in wire, Accept(q)
    PROVE  JudgedInv'
<1>1. PICK new : /\ orders' = orders \cup {new}
                 /\ new.run = q.run /\ new.spread = q.spread /\ new.contracts = q.contracts
                 /\ new.status = "open" => new.legs = {}
  BY AcceptedOrder
<1>2. /\ pc' = pc /\ plan' = plan /\ snapshot' = snapshot /\ wire' = wire \ {q}
  BY DEF Accept, Answer
<1>3. HaveRead' /\ PlansJudged'
  BY <1>2 DEF JudgedInv, HaveRead, PlansJudged, Reading, Executing, HasRead
<1>4. SentJudged'
  <2> SUFFICES ASSUME NEW o \in wire' \cup orders' PROVE JudgedWhenSent(o)'
    BY DEF SentJudged
  <2>1. PICK p \in wire \cup orders : o.run = p.run /\ o.spread = p.spread /\ o.contracts = p.contracts
    BY <1>1, <1>2
  <2>2. JudgedWhenSent(p)
    BY DEF JudgedInv, SentJudged
  <2> QED
    BY <1>2, <2>1, <2>2 DEF JudgedWhenSent, Begun
<1>5. BookTyped'
  <2>1. IsFiniteSet(orders')
    BY <1>1, FS_AddElement DEF JudgedInv, BookTyped
  <2> QED
    BY <1>1, <2>1 DEF JudgedInv, BookTyped
<1> QED
  BY <1>2, <1>3, <1>4, <1>5 DEF JudgedInv

\* A fill marks one open order, and with it comes its two legs.
LEMMA FilledOrder ==
    ASSUME OrdersWhole, NEW o \in orders, Fill(o)
    PROVE  \E new : /\ orders' = (orders \ {o}) \cup {new}
                    /\ new.id = o.id /\ new.run = o.run /\ new.spread = o.spread
                    /\ new.contracts = o.contracts
                    /\ new.status = "filled" /\ new.legs = {"sell", "buy"}
<1> DEFINE marked == [o EXCEPT !.status = "filled"]
           new == [marked EXCEPT !.legs = {"sell", "buy"}]
<1>1. orders' = (orders \ {o}) \cup {new}
  BY DEF Fill
<1>2. /\ DOMAIN marked = DOMAIN o /\ marked.id = o.id /\ marked.run = o.run
      /\ marked.spread = o.spread /\ marked.contracts = o.contracts /\ marked.status = "filled"
  BY DEF OrdersWhole, Whole
<1> HIDE DEF marked
<1>3. /\ new.id = o.id /\ new.run = o.run /\ new.spread = o.spread
      /\ new.contracts = o.contracts /\ new.status = "filled" /\ new.legs = {"sell", "buy"}
  BY <1>2 DEF OrdersWhole, Whole
<1> HIDE DEF new
<1> QED
  BY <1>1, <1>3

LEMMA FillJudged ==
    ASSUME JudgedInv, OrdersWhole, NEW o \in orders, Fill(o)
    PROVE  JudgedInv'
<1>1. PICK new : /\ orders' = (orders \ {o}) \cup {new}
                 /\ new.run = o.run /\ new.spread = o.spread /\ new.contracts = o.contracts
                 /\ new.status = "filled"
  BY FilledOrder
<1>2. pc' = pc /\ plan' = plan /\ snapshot' = snapshot /\ wire' = wire
  BY DEF Fill, runVars
<1>3. BookTyped'
  <2>1. IsFiniteSet(orders \ {o})
    BY FS_Subset DEF JudgedInv, BookTyped
  <2>2. IsFiniteSet(orders')
    BY <1>1, <2>1, FS_AddElement
  <2>3. "filled" # "open"
    OBVIOUS
  <2> QED
    BY <1>1, <2>2, <2>3 DEF JudgedInv, BookTyped
<1>4. Relabels
  BY <1>1, <1>3 DEF Relabels
<1> QED
  BY <1>2, <1>4, WorldJudged

LEMMA NextDayJudged ==
    ASSUME JudgedInv, OrdersWhole, NextDay
    PROVE  JudgedInv'
<1> DEFINE Aged(o) == IF o.status = "open" THEN [o EXCEPT !.status = "expired"] ELSE o
<1>1. \A o \in orders : /\ Aged(o).run = o.run /\ Aged(o).spread = o.spread
                        /\ Aged(o).contracts = o.contracts /\ Aged(o).status # "open"
  BY DEF OrdersWhole, Whole
<1>2. orders' = {Aged(o) : o \in orders}
  BY DEF NextDay
<1>3. IsFiniteSet(orders')
  <2>1. [o \in orders |-> Aged(o)] \in Surjection(orders, orders')
    BY <1>2 DEF Surjection, Range
  <2> QED
    BY <2>1, FS_Surjection DEF JudgedInv, BookTyped
<1> HIDE DEF Aged
<1>4. Relabels
  BY <1>1, <1>2, <1>3 DEF Relabels, BookTyped
<1>5. pc' = pc /\ plan' = plan /\ snapshot' = snapshot /\ wire' = wire
  BY DEF NextDay, runVars
<1> QED
  BY <1>4, <1>5, WorldJudged

LEMMA ReadClockJudged ==
    ASSUME JudgedInv, IInv, NEW r \in Runs, Start(r) \/ ReadClock(r) \/ Skip(r), wire' = wire,
           orders' = orders, pc[r] \in {"idle", "clock", "portfolio"}
    PROVE  JudgedInv'
<1>1. Relabels
  BY UnchangedRelabelled
<1>2. ~ Begun(r)
  BY DEF Begun
<1>3. /\ \E where \in {"clock", "portfolio", "done"} : pc' = [pc EXCEPT ![r] = where]
      /\ plan' = plan /\ snapshot' = snapshot
  BY DEF Start, ReadClock, Skip
<1> QED
  BY <1>1, <1>2, <1>3, MoveJudged

LEMMA LookUpJudged ==
    ASSUME JudgedInv, IInv, NEW r \in Runs, FindExistingOrder(r)
    PROVE  JudgedInv'
<1>1. pc[r] = "lookup" /\ wire' = wire /\ orders' = orders
  BY DEF FindExistingOrder, broker
<1>2. CASE Finish(r, "duplicate")
  BY <1>1, <1>2, FinishJudged DEF Reading, Executing
<1>3. CASE pc' = [pc EXCEPT ![r] = "place"] /\ plan' = plan /\ snapshot' = snapshot
  BY <1>1, <1>3, UnchangedRelabelled, MoveJudged DEF Executing
<1> QED
  BY <1>2, <1>3 DEF FindExistingOrder

LEMMA RunJudged ==
    ASSUME JudgedInv, IInv, OrdersWhole, NEW r \in Runs, Run(r)
    PROVE  JudgedInv'
<1>1. CASE ReadClock(r)
  <2>1. pc[r] = "clock" /\ wire' = wire /\ orders' = orders
    BY <1>1 DEF ReadClock, broker
  <2> QED
    BY <1>1, <2>1, ReadClockJudged
<1>2. CASE ReadPortfolio(r)
  <2>1. CASE Skip(r)
    <3>1. pc[r] = "portfolio" /\ wire' = wire /\ orders' = orders
      BY <1>2 DEF ReadPortfolio, broker
    <3> QED
      BY <2>1, <3>1, ReadClockJudged
  <2>2. CASE ~ Skip(r)
    BY <1>2, <2>2, ReadPortfolioJudged
  <2> QED
    BY <2>1, <2>2
<1>3. CASE ManageExits(r)
  BY <1>3, ManageExitsJudged
<1>4. CASE Decide(r)
  BY <1>4, DecideJudged
<1>5. CASE FindExistingOrder(r)
  BY <1>5, LookUpJudged
<1>6. CASE PlaceOrder(r)
  BY <1>6, PlaceOrderJudged
<1>7. CASE NoTrade(r) \/ GetReply(r) \/ CycleTimeout(r)
  <2>1. /\ Reading(r) /\ wire' = wire /\ orders' = orders
        /\ \E outcome : Finish(r, outcome)
    BY <1>7 DEF NoTrade, GetReply, CycleTimeout, Reading, Executing, broker
  <2> QED
    BY <2>1, FinishJudged
<1>8. CASE LogCycle(r)
  <2>1. /\ pc' = [pc EXCEPT ![r] = "done"] /\ plan' = plan /\ snapshot' = snapshot
        /\ wire' = wire /\ orders' = orders
    BY <1>8 DEF LogCycle, broker
  <2> QED
    BY <2>1, UnchangedRelabelled, MoveJudged
<1> QED
  BY <1>1, <1>2, <1>3, <1>4, <1>5, <1>6, <1>7, <1>8 DEF Run

LEMMA NextJudged == JudgedInv /\ IInv /\ OrdersWhole /\ [Next]_vars => JudgedInv'
<1> SUFFICES ASSUME JudgedInv, IInv, OrdersWhole, [Next]_vars PROVE JudgedInv'
  OBVIOUS
<1>1. CASE \E r \in Runs : Start(r)
  <2>1. PICK r \in Runs : Start(r)
    BY <1>1
  <2>2. pc[r] = "idle" /\ wire' = wire /\ orders' = orders
    BY <2>1 DEF Start, broker
  <2> QED
    BY <2>1, <2>2, ReadClockJudged
<1>2. CASE \E r \in Runs : Run(r)
  BY <1>2, RunJudged
<1>3. CASE \E r \in Runs : Crash(r)
  <2>1. PICK r \in Runs : /\ pc' = [pc EXCEPT ![r] = "crashed"] /\ plan' = plan
                          /\ snapshot' = snapshot /\ wire' = wire /\ orders' = orders
    BY <1>3 DEF Crash, broker
  <2> QED
    BY <2>1, UnchangedRelabelled, MoveJudged
<1>4. CASE \E q \in wire : Accept(q)
  BY <1>4, AcceptJudged
<1>5. CASE \E q \in wire : Reject(q)
  BY <1>5, WorldJudged, UnchangedRelabelled DEF Reject, Answer
<1>6. CASE \E o \in orders : Fill(o)
  BY <1>6, FillJudged
<1>7. CASE NextDay
  BY <1>7, NextDayJudged
<1>8. CASE CloseMarket \/ UNCHANGED vars
  <2>1. pc' = pc /\ plan' = plan /\ snapshot' = snapshot /\ wire' = wire /\ orders' = orders
    BY <1>8 DEF CloseMarket, vars, runVars, broker
  <2> QED
    BY <2>1, WorldJudged, UnchangedRelabelled
<1> QED
  BY <1>1, <1>2, <1>3, <1>4, <1>5, <1>6, <1>7, <1>8 DEF Next, Broker

LEMMA InitJudged == Init => JudgedInv
<1> SUFFICES ASSUME Init PROVE JudgedInv
  OBVIOUS
<1>1. IsFiniteSet(orders)
  BY FS_EmptySet DEF Init
<1> QED
  BY <1>1 DEF Init, JudgedInv, HaveRead, PlansJudged, SentJudged, BookTyped, Reading, Executing

\* An order is filled for the first time by its acceptance or by a fill, which
\* add what was judged to orders that are otherwise as they were.
LEMMA NewFillIsSafe ==
    ASSUME JudgedInv, OrdersWhole, [Next]_vars, NEW new \in orders', new.status = "filled",
           new.id \notin Filled, StillCovers(new)
    PROVE  BookOfCycle(Unseen(new))!Next
<1>1. new \notin orders
  BY DEF Filled
<1>2. CASE \E q \in wire : Accept(q)
  <2>1. PICK q \in wire : Accept(q)
    BY <1>2
  <2>2. /\ orders' = orders \cup {new}
        /\ new.run = q.run /\ new.spread = q.spread /\ new.contracts = q.contracts
        /\ new.legs = {"sell", "buy"}
    BY <1>1, <2>1, AcceptedOrder
  <2>3. JudgedWhenSent(q)
    BY DEF JudgedInv, SentJudged
  <2>4. OrderType(new) /\ Judged(new.spread, new.contracts, snapshot[new.run])
    BY <2>2, <2>3 DEF JudgedWhenSent, Sound, OrderType
  <2>5. orders \in SUBSET orders /\ \A o \in orders : o \notin orders => o.legs = {}
    OBVIOUS
  <2>6. TypedOrders(orders)
    BY JudgedAreTyped
  <2> QED
    BY <1>1, <2>2, <2>4, <2>5, <2>6, FillIsSafe
<1>3. CASE \E o \in orders : Fill(o)
  <2>1. PICK o \in orders : Fill(o)
    BY <1>3
  <2>2. /\ orders' = (orders \ {o}) \cup {new}
        /\ new.run = o.run /\ new.spread = o.spread /\ new.contracts = o.contracts
        /\ new.legs = {"sell", "buy"}
    BY <1>1, <2>1, FilledOrder
  <2>3. JudgedWhenSent(o)
    BY DEF JudgedInv, SentJudged
  <2>4. OrderType(new) /\ Judged(new.spread, new.contracts, snapshot[new.run])
    BY <2>2, <2>3 DEF JudgedWhenSent, Sound, OrderType
  <2>5. PICK rest \in SUBSET orders : rest = orders \ {o}
    OBVIOUS
  <2>6. new \notin rest /\ \A p \in orders : p \notin rest => p.legs = {}
    BY <1>1, <2>1, <2>5 DEF Fill, JudgedInv, BookTyped
  <2>7. TypedOrders(orders) /\ orders' = rest \cup {new}
    BY <2>2, <2>5, JudgedAreTyped
  <2> QED
    BY <2>2, <2>4, <2>6, <2>7, FillIsSafe
<1>4. ASSUME NEW r \in Runs, ManageExits(r) PROVE FALSE
  <2>1. PICK legs : orders' = Closed(legs)
    BY <1>1, <1>4 DEF ManageExits
  <2>2. PICK o \in orders : new = [o EXCEPT !.legs = {side \in @ : Leg(o.spread, side) \notin legs}]
    BY <2>1 DEF Closed
  <2>3. new.id = o.id /\ new.status = o.status
    BY <2>2 DEF OrdersWhole, Whole
  <2> QED
    BY <2>3 DEF Filled
<1>5. CASE NextDay
  <2>1. PICK o \in orders : new = IF o.status = "open" THEN [o EXCEPT !.status = "expired"] ELSE o
    BY <1>5 DEF NextDay
  <2>2. new = o \/ new.status = "expired"
    BY <2>1 DEF OrdersWhole, Whole
  <2> QED
    BY <1>1, <2>2
<1>6. CASE orders' = orders
  BY <1>1, <1>6
<1>7. ASSUME NEW r \in Runs, Run(r), ~ ManageExits(r) PROVE orders' = orders
  BY <1>7 DEF Run, ReadClock, ReadPortfolio, NoTrade, Decide, FindExistingOrder, PlaceOrder,
              GetReply, CycleTimeout, LogCycle, broker
<1>8. \A r \in Runs : Start(r) \/ Crash(r) => orders' = orders
  BY DEF Start, Crash, broker
<1>9. \A q \in wire : Reject(q) => orders' = orders
  BY DEF Reject
<1>10. CloseMarket \/ UNCHANGED vars => orders' = orders
  BY DEF CloseMarket, vars, broker
<1> QED
  BY <1>2, <1>3, <1>4, <1>5, <1>6, <1>7, <1>8, <1>9, <1>10 DEF Next, Broker

\* An order that fills while its run's snapshot still covers the book opens one
\* short position, at a strike that was not held, and leaves the delta within Rule
\* 3's limit, but for what the two prices of a spread differ by: however runs
\* overlap, exits change the book, replies are lost and orders rest
\* (orchestrator.py:164, risk_gate.py:124).
THEOREM FillsKeepPromise == Spec => SafeUnlessOutgrown
<1>1. Init => IInv /\ OrdersWhole /\ JudgedInv
  BY InitIInv, InitJudged DEF Init, OrdersWhole
<1>2. IInv /\ OrdersWhole /\ JudgedInv /\ [Next]_vars => IInv' /\ OrdersWhole' /\ JudgedInv'
  BY NextIInv, NextRefines, NextJudged
<1>3. JudgedInv /\ OrdersWhole /\ [Next]_vars =>
        [ \A o \in orders' :
            o.status = "filled" /\ o.id \notin Filled /\ StillCovers(o)
              => BookOfCycle(Unseen(o))!Next ]_orders
  BY NewFillIsSafe
<1> QED
  BY <1>1, <1>2, <1>3, PTL DEF Spec, SafeUnlessOutgrown
=============================================================================
