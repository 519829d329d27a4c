---------------------------- MODULE TradingCycle ----------------------------
(***************************************************************************)
(* The orchestrator's cycle (agent/orchestrator.py, started by cron        *)
(* through cron_runner.py) against the Alpaca account.                     *)
(*                                                                         *)
(* A run reads the market clock and the account, closes the spreads that   *)
(* are due, and then takes the underlyings one after the other: the        *)
(* analysis of each ends without a trade, or with a spread that goes       *)
(* through the risk gate, the look-up of an existing order and the         *)
(* placement.  The one portfolio snapshot of the run is used throughout.   *)
(* Model turns are module ModelLoop's business, leg-by-leg closing module  *)
(* Exits'; here an analysis and the closing of one spread are single steps *)
(* whose result is any the code can produce.                               *)
(***************************************************************************)
EXTENDS RiskGate, FiniteSets, Functions, Sequences

CONSTANTS
    Runs,       \* cron invocations
    Live,       \* the runs started with --live
    Forced,     \* the runs started with --force
    Tickers,    \* the configured underlyings, in order
    Offers,     \* the spreads leg validation may price
    Requests,   \* the contract counts the model may ask for
    MaxNew,     \* max_new_positions_per_cycle
    Nav,        \* net liquidation value
    Accounts,   \* what the account read may say, with Rule 9's baseline
    LegDelta,   \* delta of one share of a leg, in hundredths
    SpotOf,     \* price of an underlying
    Faults,     \* what may go wrong, see AllFaults
    MaxCrashes, \* bound on crashes
    LastDay     \* bound on the calendar

AllFaults ==
    { "read",     \* a read of the clock, the account or the orders fails
      "greeks",   \* Greeks or spot prices of held contracts do not arrive
      "reply",    \* the reply to an order, or to a close, is lost
      "timeout",  \* cycle_timeout_seconds expires
      "resting",  \* an accepted order waits at its limit price
      "overlap",  \* cron starts a run while another is still going
      "bell" }    \* the market closes during a run

Underlyings == {Tickers[i] : i \in DOMAIN Tickers}

ASSUME CycleAssumption ==
    /\ Tickers \in Seq(Underlyings)
    /\ Live \subseteq Runs /\ Forced \subseteq Runs
    /\ Offers \subseteq SpreadType /\ Requests \subseteq Nat \ {0}
    /\ \A i, j \in DOMAIN Tickers : Tickers[i] = Tickers[j] => i = j
    /\ MaxNew \in Nat /\ MaxCrashes \in Nat /\ LastDay \in Nat \ {0}
    /\ Nav \in Nat \ {0}
    /\ Accounts \subseteq [dailyPnl : Int, buyingPower : Nat, startingBp : Nat]
    /\ Faults \subseteq AllFaults

VARIABLES
    pc,        \* where each run is
    turn,      \* index of the underlying each run is at
    snapshot,  \* the portfolio each run has read
    due,       \* the (ticker, expiry) groups each run still has to close
    opened,    \* positions each run counts against MaxNew
    plan,      \* the approved trade a run is executing
    reply,     \* the broker's answer waiting for each run
    outcomes,  \* summary["outcomes"] of each run, by underlying
    approvals, \* journal: gate decisions to trade
    summary,   \* journal: cycle summaries
    wire,      \* placements sent and not yet decided by the broker
    orders,    \* the broker's orders and what is left of their positions
    marketOpen, today, crashes

runVars == <<pc, turn, snapshot, due, opened, plan, reply>>
journal == <<outcomes, approvals, summary>>
broker  == <<wire, orders>>
world   == <<marketOpen, today, crashes>>
vars    == <<runVars, journal, broker, world>>

NoReply == "none"
NoPlan  == [spread |-> Missing, contracts |-> 0, id |-> <<>>]

-----------------------------------------------------------------------------
(***************************************************************************)
(* The account.  A filled order leaves a sell leg and a buy leg; Alpaca    *)
(* reports one row per contract, netted over all orders.                   *)
(***************************************************************************)

Leg(s, side) ==
    [ticker |-> s.ticker, expiry |-> s.expiry,
     strike |-> IF side = "sell" THEN s.sell ELSE s.buy]

\* The market prices the legs and the underlyings; validate_legs makes a spread's
\* net delta of those of its legs.
ASSUME QuoteAssumption ==
    \A s \in Offers :
       /\ s.buy < s.sell
       /\ LegDelta[Leg(s, "sell")] \in Int /\ LegDelta[Leg(s, "buy")] \in Int
       /\ s.netDelta = LegDelta[Leg(s, "buy")] - LegDelta[Leg(s, "sell")]
       /\ SpotOf[s.ticker] \in Nat

\* Signed contracts of an order that are of this leg.
Quantity(o, leg) ==
    CASE "sell" \in o.legs /\ leg = Leg(o.spread, "sell") -> -o.contracts
      [] "buy" \in o.legs /\ leg = Leg(o.spread, "buy") -> o.contracts
      [] OTHER -> 0

Held(leg) == SumFunction([o \in orders |-> Quantity(o, leg)])

Rows == {leg \in {Leg(o.spread, side) : o \in orders, side \in {"sell", "buy"}} :
            Held(leg) # 0}

\* build_portfolio_state: signed by contract count, valued at the spot price; a
\* row whose Greeks or whose spot price did not arrive counts as having none.
DeltaOf(rows) ==
    SumFunction([leg \in rows |-> LegDelta[leg] * Held(leg) * SpotOf[leg.ticker]])

BookDelta == DeltaOf(Rows)

Group(leg) == <<leg.ticker, leg.expiry>>

\* The groups' contracts are closed: their legs disappear from every order.
Closed(legs) ==
    {[o EXCEPT !.legs = {side \in @ : Leg(o.spread, side) \notin legs}] : o \in orders}

-----------------------------------------------------------------------------
(***************************************************************************)
(* The cycle.                                                              *)
(***************************************************************************)

Ended(r) == pc[r] \in {"idle", "done", "crashed"}

\* Mutant: the loop keeps working on the first underlying.
TickerFirst(r) == Tickers[1]

Ticker(r) == Tickers[turn[r]]

\* Mutant: an order that was placed is not counted.
CountsDuplicate(outcome) == outcome = "duplicate"

CountsAgainstCap(outcome) == outcome \in {"submitted", "duplicate"}

\* Mutant: the loop is left after a trade.
StopsAtTrade(r) ==
    IF turn[r] < Len(Tickers) /\ plan[r] = NoPlan THEN "analyse" ELSE "summary"

\* Mutant: the last underlying ends the process without a summary.
StopsAtLast(r) == IF turn[r] < Len(Tickers) THEN "analyse" ELSE "done"

NextStop(r) == IF turn[r] < Len(Tickers) THEN "analyse" ELSE "summary"

\* Where the loop over the underlyings begins, which may be none.
FirstStop == IF Tickers = <<>> THEN "summary" ELSE "analyse"

\* The outcome of the current underlying is recorded and the next one begins.
Finish(r, outcome) ==
    /\ outcomes' = [outcomes EXCEPT ![r][Ticker(r)] = outcome]
    /\ opened' = [opened EXCEPT ![r] =
                    IF CountsAgainstCap(outcome) THEN @ + 1 ELSE @]
    /\ turn' = [turn EXCEPT ![r] = @ + 1]
    /\ pc' = [pc EXCEPT ![r] = NextStop(r)]
    /\ plan' = [plan EXCEPT ![r] = NoPlan]
    /\ reply' = [reply EXCEPT ![r] = NoReply]
    /\ UNCHANGED <<snapshot, due, summary>>

\* cron starts the script; nothing locks out a run that is still going.
Start(r) ==
    /\ pc[r] = "idle"
    /\ "overlap" \in Faults \/ \A other \in Runs : Ended(other)
    /\ pc' = [pc EXCEPT ![r] = "clock"]
    /\ UNCHANGED <<turn, snapshot, due, opened, plan, reply, journal, broker, world>>

\* A run that cannot start on the underlyings still journals a summary.
Skip(r) ==
    /\ pc' = [pc EXCEPT ![r] = "done"]
    /\ summary' = [summary EXCEPT ![r] = "skipped"]
    /\ UNCHANGED <<turn, snapshot, due, opened, plan, reply, outcomes, approvals>>

ReadClock(r) ==
    /\ pc[r] = "clock"
    /\ \/ "read" \in Faults /\ Skip(r)
       \/ ~ marketOpen /\ r \notin Forced /\ Skip(r)
       \/ /\ marketOpen \/ r \in Forced
          /\ pc' = [pc EXCEPT ![r] = "portfolio"]
          /\ UNCHANGED <<turn, snapshot, due, opened, plan, reply, journal>>
    /\ UNCHANGED <<broker, world>>

\* The snapshot of the whole run, and the groups decide_exits picks from it.
ReadPortfolio(r) ==
    /\ pc[r] = "portfolio"
    /\ \/ "read" \in Faults /\ Skip(r)
       \/ \E account \in Accounts, groups \in SUBSET {Group(leg) : leg \in Rows},
             known \in IF "greeks" \in Faults THEN SUBSET Rows ELSE {Rows} :
          /\ snapshot' = [snapshot EXCEPT ![r] =
                [nav |-> Nav, spot |-> Missing,
                 netDelta |-> DeltaOf(known),
                 dailyPnl |-> account.dailyPnl,
                 buyingPower |-> account.buyingPower, startingBp |-> account.startingBp,
                 positions |-> Rows]]
          /\ due' = [due EXCEPT ![r] = groups]
          /\ pc' = [pc EXCEPT ![r] = IF groups = {} THEN FirstStop ELSE "exits"]
          /\ UNCHANGED <<turn, opened, plan, reply, journal>>
    /\ UNCHANGED <<broker, world>>

\* One group of manage_exits: each contract is closed by a call of its own, and
\* a call that fails is journalled and passed over.
ManageExits(r) ==
    /\ pc[r] = "exits"
    /\ \E g \in due[r] :
          /\ due' = [due EXCEPT ![r] = @ \ {g}]
          /\ pc' = [pc EXCEPT ![r] = IF due[r] = {g} THEN FirstStop ELSE @]
          /\ LET legs == {leg \in snapshot[r].positions : Group(leg) = g}
             IN  \E failed \in IF "reply" \in Faults THEN SUBSET legs ELSE {{}} :
                    orders' = IF r \in Live THEN Closed(legs \ failed) ELSE orders
    /\ UNCHANGED <<turn, snapshot, opened, plan, reply, journal, wire, world>>

\* The analysis of an underlying ends without a trade: the model declined, its
\* proposal was malformed or unquotable, or a read or the model failed.
NoTrade(r) ==
    /\ pc[r] = "analyse"
    /\ \E outcome \in {"no_proposal", "error"} : Finish(r, outcome)
    /\ UNCHANGED <<approvals, broker, world>>

ClientOrderId(s, n) == <<s.ticker, s.expiry, s.sell, s.buy, today, n>>

\* Mutant: a decision that will be executed is left to the execution to record.
LogUnexecuted(r, s, verdict) ==
    IF verdict.approved /\ (r \notin Live \/ opened[r] >= MaxNew)
    THEN approvals \cup {[run |-> r, spread |-> s, contracts |-> verdict.contracts]}
    ELSE approvals

LogGateDecision(r, s, verdict) ==
    IF verdict.approved
    THEN approvals \cup {[run |-> r, spread |-> s, contracts |-> verdict.contracts]}
    ELSE approvals

\* A validated proposal meets the gate, on the snapshot taken before the exits.
\* Nothing ties the proposal's underlying to the one being analysed.
Decide(r) ==
    /\ pc[r] = "analyse"
    /\ \E s \in Offers, requested \in Requests :
          LET verdict == RiskGateCheck(s, snapshot[r], requested)
              n == verdict.contracts
          IN  /\ approvals' = LogGateDecision(r, s, verdict)
              /\ \/ ~ verdict.approved /\ Finish(r, "rejected")
                 \/ verdict.approved /\ opened[r] >= MaxNew /\ Finish(r, "not_executed")
                 \/ verdict.approved /\ opened[r] < MaxNew /\ r \notin Live /\ Finish(r, "dry_run")
                 \/ /\ verdict.approved /\ opened[r] < MaxNew /\ r \in Live
                    /\ plan' = [plan EXCEPT ![r] =
                          [spread |-> s, contracts |-> n, id |-> ClientOrderId(s, n)]]
                    /\ pc' = [pc EXCEPT ![r] = "lookup"]
                    /\ UNCHANGED <<turn, snapshot, due, opened, reply, outcomes, summary>>
    /\ UNCHANGED <<broker, world>>

KnownId(id) == \E o \in orders : o.id = id

\* _find_existing_order: an order of any status counts; a failed look-up does
\* not block the placement.
FindExistingOrder(r) ==
    /\ pc[r] = "lookup"
    /\ \/ KnownId(plan[r].id) /\ Finish(r, "duplicate")
       \/ /\ ~ KnownId(plan[r].id) \/ "read" \in Faults
          /\ pc' = [pc EXCEPT ![r] = "place"]
          /\ UNCHANGED <<turn, snapshot, due, opened, plan, reply, outcomes, summary>>
    /\ UNCHANGED <<approvals, broker, world>>

PlaceOrder(r) ==
    /\ pc[r] = "place"
    /\ pc' = [pc EXCEPT ![r] = "await"]
    /\ wire' = wire \cup {[id |-> plan[r].id, run |-> r, ticker |-> Ticker(r),
                           spread |-> plan[r].spread, contracts |-> plan[r].contracts]}
    /\ UNCHANGED <<turn, snapshot, due, opened, plan, reply, journal, orders, world>>

\* Mutant: execute does not catch the failure of the placement.
GetReplyRaises(r) ==
    /\ pc[r] = "await"
    /\ \/ reply[r] = "accepted" /\ Finish(r, "submitted")
       \/ reply[r] = "rejected" /\ Finish(r, "error")
       \/ "reply" \in Faults /\ Finish(r, "error")
    /\ UNCHANGED <<approvals, broker, world>>

GetReply(r) ==
    /\ pc[r] = "await"
    /\ \/ reply[r] = "accepted" /\ Finish(r, "submitted")
       \/ reply[r] = "rejected" /\ Finish(r, "failed")
       \/ "reply" \in Faults /\ Finish(r, "failed")
    /\ UNCHANGED <<approvals, broker, world>>

\* asyncio.wait_for cancels the analysis wherever it is waiting, a placement
\* that is already on the wire included.
CycleTimeout(r) ==
    /\ "timeout" \in Faults
    /\ pc[r] \in {"analyse", "lookup", "place", "await"}
    /\ Finish(r, "timeout")
    /\ UNCHANGED <<approvals, broker, world>>

\* What the journal's last event for an underlying says of its order, by the outcome
\* of its analysis.  A timeout is logged with log_no_proposal, as a turn limit of no
\* turns; only the summary at the end of the cycle calls it a timeout.
Entry(outcome) ==
    [event |-> CASE outcome \in {"submitted", "duplicate"} -> "order_submitted"
                 [] outcome = "failed" -> "order_failed"
                 [] outcome \in {"no_proposal", "timeout"} -> "no_order"
                 [] OTHER -> outcome,
     namesTurns |-> outcome # "timeout"]

LogCycle(r) ==
    /\ pc[r] = "summary"
    /\ pc' = [pc EXCEPT ![r] = "done"]
    /\ summary' = [summary EXCEPT ![r] = "complete"]
    /\ UNCHANGED <<turn, snapshot, due, opened, plan, reply, outcomes, approvals, broker, world>>

\* The process dies, or an exception nothing in run_cycle handles ends it.
Crash(r) ==
    /\ crashes < MaxCrashes
    /\ ~ Ended(r)
    /\ crashes' = crashes + 1
    /\ pc' = [pc EXCEPT ![r] = "crashed"]
    /\ UNCHANGED <<turn, snapshot, due, opened, plan, reply, journal, broker, marketOpen, today>>

-----------------------------------------------------------------------------
(***************************************************************************)
(* The broker and the calendar.                                            *)
(***************************************************************************)

\* A reply reaches a run only while it waits for that placement.
Answer(q, answer) ==
    /\ wire' = wire \ {q}
    /\ reply' = [reply EXCEPT ![q.run] =
                   IF pc[q.run] = "await" /\ Ticker(q.run) = q.ticker THEN answer ELSE @]

\* Alpaca takes a client_order_id once.
Accept(q) ==
    /\ ~ KnownId(q.id)
    /\ Answer(q, "accepted")
    /\ \E filled \in IF "resting" \in Faults THEN {FALSE} ELSE {TRUE} :
          orders' = orders \cup
            {[id |-> q.id, run |-> q.run, ticker |-> q.ticker, spread |-> q.spread,
              contracts |-> q.contracts, status |-> IF filled THEN "filled" ELSE "open",
              legs |-> IF filled THEN {"sell", "buy"} ELSE {}]}
    /\ UNCHANGED <<pc, turn, snapshot, due, opened, plan, journal, world>>

Reject(q) ==
    /\ Answer(q, "rejected")
    /\ UNCHANGED <<pc, turn, snapshot, due, opened, plan, journal, orders, world>>

Fill(o) ==
    /\ o.status = "open" /\ marketOpen
    /\ orders' = (orders \ {o}) \cup
                 {[o EXCEPT !.status = "filled", !.legs = {"sell", "buy"}]}
    /\ UNCHANGED <<runVars, journal, wire, world>>

CloseMarket ==
    /\ "bell" \in Faults /\ marketOpen
    /\ marketOpen' = FALSE
    /\ UNCHANGED <<runVars, journal, broker, today, crashes>>

\* The next trading day: day orders that did not fill are gone.
NextDay ==
    /\ today < LastDay
    /\ today' = today + 1
    /\ marketOpen' = TRUE
    /\ orders' = {IF o.status = "open" THEN [o EXCEPT !.status = "expired"] ELSE o : o \in orders}
    /\ UNCHANGED <<runVars, journal, wire, crashes>>

-----------------------------------------------------------------------------

Init ==
    /\ pc = [r \in Runs |-> "idle"]
    /\ turn = [r \in Runs |-> 1]
    /\ snapshot = [r \in Runs |-> Missing]
    /\ due = [r \in Runs |-> {}]
    /\ opened = [r \in Runs |-> 0]
    /\ plan = [r \in Runs |-> NoPlan]
    /\ reply = [r \in Runs |-> NoReply]
    /\ outcomes = [r \in Runs |-> [t \in Underlyings |-> "none"]]
    /\ approvals = {}
    /\ summary = [r \in Runs |-> "none"]
    /\ wire = {} /\ orders = {}
    /\ marketOpen = TRUE /\ today = 1 /\ crashes = 0

Run(r) ==
    \/ ReadClock(r) \/ ReadPortfolio(r) \/ ManageExits(r)
    \/ NoTrade(r) \/ Decide(r)
    \/ FindExistingOrder(r) \/ PlaceOrder(r) \/ GetReply(r) \/ CycleTimeout(r)
    \/ LogCycle(r)

Broker ==
    \/ \E q \in wire : Accept(q) \/ Reject(q)
    \/ \E o \in orders : Fill(o)

Next ==
    \/ \E r \in Runs : Start(r) \/ Run(r) \/ Crash(r)
    \/ Broker
    \/ CloseMarket \/ NextDay

Spec == Init /\ [][Next]_vars

\* A run keeps going: whatever it awaits ends, since every MCP and model call
\* has a timeout of its own.  Nothing is assumed of the broker.
FairSpec == Spec /\ \A r \in Runs : WF_vars(Run(r))

-----------------------------------------------------------------------------
(***************************************************************************)
(* Properties.                                                             *)
(***************************************************************************)

\* The cycle implements Desk: whatever crashes, times out, overlaps or is
\* answered late, an order at the broker carries out a gate approval of the
\* same live run at the approved size, and an id is placed once.
DeskOfCycle == INSTANCE Desk WITH
    approved <- {a \in approvals : a.run \in Live},
    placed <- {[id |-> o.id, run |-> o.run, spread |-> o.spread,
                contracts |-> o.contracts] : o \in orders}

ImplementsDesk == DeskOfCycle!Spec

\* run_cycle counts an order against max_new_positions_per_cycle only when its
\* reply arrives, so a run has more orders than the cap allows only if as many
\* of its outcomes are a failed placement or a timeout (orchestrator.py:183-203).
OrdersWithinCap ==
    \A r \in Runs :
       Cardinality({o \in orders : o.run = r})
          <= MaxNew + Cardinality({t \in DOMAIN outcomes[r] :
                                     outcomes[r][t] \in {"failed", "timeout"}})

\* The journal has an entry for every order, unless the run still waits for the
\* reply, or died waiting: the placement was journalled as submitted or failed.
\* Against "four ways a cycle can end without an order" (journal.py:57) and "one of
\* the four no-order outcomes" (247), it may be one of those four instead, but only
\* one that names no turns, which a run that looked for a trade and found none
\* always does: a reader can tell which no-order entries may hide an order.
EveryOrderExplained ==
    \A o \in orders :
       LET entry == Entry(outcomes[o.run][o.ticker])
       IN  \/ entry.event \in {"order_submitted", "order_failed"}
           \/ entry.event = "no_order" /\ ~ entry.namesTurns
           \/ /\ outcomes[o.run][o.ticker] = "none" /\ Ticker(o.run) = o.ticker
              /\ pc[o.run] \in {"await", "crashed"}

\* "Analyse EVERY underlying. Only execution is capped" (orchestrator.py:168):
\* a complete summary means one outcome for each of them, and an outcome, once
\* recorded, is never revised, also not by a reply that comes late.
EveryTickerAnalysed ==
    \A r \in Runs : summary[r] = "complete" =>
       \A t \in DOMAIN outcomes[r] : outcomes[r][t] # "none"

OutcomesAreFinal ==
    [][ \A r \in Runs : \A t \in DOMAIN outcomes[r] :
          outcomes[r][t] # "none" => outcomes'[r][t] = outcomes[r][t] ]_vars

\* A run that starts ends with a journalled summary unless its process dies:
\* no order of replies, timeouts and failures leaves it waiting.
RunsEnd == \A r \in Runs : pc[r] = "clock" ~> (summary[r] # "none" \/ pc[r] = "crashed")

\* The decisions of a run all use the snapshot it began with, although its exits
\* change the book (comment at orchestrator.py:164) and nothing locks out another
\* run; and the gate values a spread at its short strike (risk_gate.py:124), the
\* book at the spot price.  What was closed since does no harm: an order keeps
\* SafeBook's promise, to within the difference of the two prices, unless the
\* book holds more, when it fills, than the snapshot of its run.
ShortPositions == {[leg |-> leg, contracts |-> -Held(leg)] : leg \in {x \in Rows : Held(x) < 0}}

StillCovers(o) ==
    LET seen == snapshot[o.run]
    IN  /\ Rows \subseteq seen.positions
        /\ \/ BookDelta = seen.netDelta
           \/ o.spread.netDelta >= 0 /\ BookDelta \in 0 .. seen.netDelta

\* The delta-dollars of an order that the gate did not see.
Unseen(o) ==
    Abs(o.spread.netDelta * (SpotOf[o.spread.ticker] - o.spread.sell) * o.contracts)

Filled == {o.id : o \in {x \in orders : x.status = "filled"}}

BookOfCycle(unseen) == INSTANCE SafeBook WITH
    shorts <- ShortPositions,
    delta <- BookDelta,
    deltaBudget <- Nav * MaxDeltaPct + 100 * unseen

SafeUnlessOutgrown ==
    [][ \A o \in orders' :
          o.status = "filled" /\ o.id \notin Filled /\ StillCovers(o)
            => BookOfCycle(Unseen(o))!Next ]_orders
=============================================================================
