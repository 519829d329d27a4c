------------------------------- MODULE Exits -------------------------------
(***************************************************************************)
(* Exit management, agent/position_manager.py and manage_exits in          *)
(* agent/orchestrator.py, day after day against the account.               *)
(*                                                                         *)
(* The account reports one row per option contract.  A run groups the rows *)
(* by (underlying, expiry), judges each group's P&L against its credit and *)
(* closes the due groups contract by contract, each by a call of its own.  *)
(* Prices are dollars per contract.                                        *)
(***************************************************************************)
EXTENDS Integers, FiniteSetsExt

CONSTANTS
    Runs,       \* agent processes; each may run cycle after cycle
    Live,       \* the ones started with --live
    Spreads,    \* the put spreads that may be opened: [ticker, expiry, sell, buy]
    ProfitPct,  \* exit_if_profit_pct
    LossPct,    \* exit_if_loss_pct, negative
    DteFloor,   \* exit_if_dte_below
    Scenarios   \* bound: the combinations of runs, spreads, prices and faults considered

AllFaults ==
    { "refuse",   \* the broker refuses a close
      "reply",    \* the reply to a close that was carried out is lost
      "resting",  \* an accepted close waits at the broker
      "overlap" } \* runs, and entries, overlap

Leg(s, side) ==
    [ticker |-> s.ticker, expiry |-> s.expiry,
     strike |-> IF side = "sell" THEN s.sell ELSE s.buy]

Contracts == UNION {{Leg(s, "sell"), Leg(s, "buy")} : s \in Spreads}

ASSUME ExitsAssumption ==
    /\ Live \subseteq Runs
    /\ IsFiniteSet(Spreads)
    /\ Spreads \subseteq [ticker : STRING, expiry : Nat, sell : Nat, buy : Nat]
    /\ \A s \in Spreads : s.sell > s.buy
    /\ ProfitPct \in Int /\ LossPct \in Int
    /\ DteFloor \in Nat
    /\ \A one \in Scenarios :
          /\ one.runs \subseteq Runs /\ one.spreads \subseteq Spreads
          /\ one.markets # {} /\ one.markets \subseteq [Contracts -> Nat]
          /\ one.faults \subseteq AllFaults /\ one.crashes \in Nat

VARIABLES
    stage,   \* where each run is
    view,    \* the position rows each run has read
    due,     \* the groups each run still has to close
    left,    \* the contracts left of the group it is closing
    lots,    \* history: the spreads opened, with their credit
    qty,     \* the account: signed number of each contract
    basis,   \* the account: cost basis, negative for cash received
    mark,    \* the market
    resting, \* the broker: how many of each contract a close order waits for
    events,  \* journal: exit events [symbol, status]
    today, crashes,
    scenario \* one of Scenarios, for good: what may happen in this behaviour

runVars == <<stage, view, due, left>>
account == <<lots, qty, basis, resting>>
vars == <<runVars, account, mark, events, today, crashes, scenario>>

Faults == scenario.faults

Group(c) == <<c.ticker, c.expiry>>
Groups == {Group(c) : c \in Contracts}
LastDay == CHOOSE d \in {s.expiry : s \in Spreads} : \A s \in Spreads : s.expiry <= d

\* parse_position, from the account's row.
Row(c) ==
    [symbol |-> c, contracts |-> qty[c], costBasis |-> basis[c],
     unrealizedPl |-> qty[c] * mark[c] - basis[c], dte |-> c.expiry - today]

Positions == {Row(c) : c \in {x \in Contracts : qty[x] # 0}}

-----------------------------------------------------------------------------
(***************************************************************************)
(* The decision.                                                           *)
(***************************************************************************)

\* group_into_spreads: whatever shares underlying and expiry is one spread.
GroupIntoSpreads(positions) ==
    [g \in {Group(p.symbol) : p \in positions} |->
        LET legs == {p \in positions : Group(p.symbol) = g}
        IN  [symbols      |-> {p.symbol : p \in legs},
             dte          |-> (CHOOSE p \in legs : TRUE).dte,
             costBasis    |-> MapThenSumSet(LAMBDA p : p.costBasis, legs),
             unrealizedPl |-> MapThenSumSet(LAMBDA p : p.unrealizedPl, legs)]]

Credit(group) == IF group.costBasis < 0 THEN -group.costBasis ELSE group.costBasis

AtTarget(group) == 100 * group.unrealizedPl >= Credit(group) * ProfitPct

\* Mutant: the stop is one step too far.
BeyondStop(group) == 100 * group.unrealizedPl < Credit(group) * LossPct

AtStop(group) == 100 * group.unrealizedPl <= Credit(group) * LossPct

\* Mutant: a group without credit is skipped before the DTE floor is looked at.
CreditFirst(group) ==
    Credit(group) > 0 /\ (group.dte <= DteFloor \/ AtTarget(group) \/ AtStop(group))

\* The DTE floor comes first and needs no credit; the other two need one.
IsDue(group) ==
    \/ group.dte <= DteFloor
    \/ Credit(group) > 0 /\ (AtTarget(group) \/ AtStop(group))

DecideExits(positions) ==
    LET groups == GroupIntoSpreads(positions) IN {g \in DOMAIN groups : IsDue(groups[g])}

-----------------------------------------------------------------------------
(***************************************************************************)
(* A run.                                                                  *)
(***************************************************************************)

Idle(r) == stage[r] \in {"idle", "done"}

\* The account is read and decide_exits picks from it.
BuildPortfolio(r) ==
    /\ r \in scenario.runs /\ Idle(r)
    /\ "overlap" \in Faults \/ \A other \in Runs : Idle(other)
    /\ view' = [view EXCEPT ![r] = Positions]
    /\ due' = [due EXCEPT ![r] = DecideExits(Positions)]
    /\ stage' = [stage EXCEPT ![r] = IF DecideExits(Positions) = {} THEN "done" ELSE "closing"]
    /\ UNCHANGED <<left, account, mark, events, today, crashes, scenario>>

\* Mutant: only the short legs are closed.
UpcomingShorts(r) ==
    IF left[r] # {} THEN {left[r]}
    ELSE {{p.symbol : p \in {q \in view[r] : Group(q.symbol) = g /\ q.contracts < 0}} : g \in due[r]}

\* The contracts of the group in progress or, when it is through, of the next.
Upcoming(r) ==
    IF left[r] # {} THEN {left[r]}
    ELSE {{p.symbol : p \in {q \in view[r] : Group(q.symbol) = g}} : g \in due[r]}

\* Mutant: a close that failed leaves no record.
JournalSuccess(c, status) ==
    events' = IF status = "failed" THEN events ELSE events \cup {[symbol |-> c, status |-> status]}

Journal(c, status) == events' = events \cup {[symbol |-> c, status |-> status]}

\* Of a row, n contracts remain at the cost they had.
Keeps(c, n) ==
    /\ qty' = [qty EXCEPT ![c] = n]
    /\ basis' = [basis EXCEPT ![c] = IF n = 0 THEN 0 ELSE (@ * n) \div qty[c]]

\* The broker gives up the whole row, whatever its size is by now.
GivesUp(c) == Keeps(c, 0)

\* Nothing to close, or an order for it already waits: the broker refuses.
Closable(c) == qty[c] # 0 /\ resting[c] = 0

\* One pass of manage_exits' inner loop.  A failed call is journalled and the
\* loop goes on with the next contract.
ClosePosition(r, c) ==
    \/ /\ r \notin Live
       /\ Journal(c, "dry_run")
       /\ UNCHANGED <<qty, basis, resting>>
    \/ /\ r \in Live /\ Closable(c)
       /\ GivesUp(c) /\ Journal(c, "submitted")
       /\ UNCHANGED resting
    \/ /\ r \in Live /\ Closable(c) /\ "resting" \in Faults
       /\ resting' = [resting EXCEPT ![c] = qty[c]] /\ Journal(c, "submitted")
       /\ UNCHANGED <<qty, basis>>
    \/ /\ r \in Live /\ ("refuse" \in Faults \/ ~ Closable(c))
       /\ Journal(c, "failed")
       /\ UNCHANGED <<qty, basis, resting>>
    \/ /\ r \in Live /\ Closable(c) /\ "reply" \in Faults
       /\ GivesUp(c) /\ Journal(c, "failed")
       /\ UNCHANGED resting

ManageExits(r) ==
    /\ stage[r] = "closing"
    /\ \E symbols \in Upcoming(r) : \E c \in symbols :
          LET remaining == due[r] \ {Group(c)}
          IN  /\ ClosePosition(r, c)
              /\ left' = [left EXCEPT ![r] = symbols \ {c}]
              /\ due' = [due EXCEPT ![r] = remaining]
              /\ stage' = [stage EXCEPT ![r] =
                    IF symbols = {c} /\ remaining = {} THEN "done" ELSE @]
    /\ UNCHANGED <<view, lots, mark, today, crashes, scenario>>

\* The process dies between two calls, or after the broker has carried one out
\* and before it is journalled.
Crash(r) ==
    /\ crashes < scenario.crashes /\ ~ Idle(r)
    /\ crashes' = crashes + 1
    /\ stage' = [stage EXCEPT ![r] = "idle"]
    /\ due' = [due EXCEPT ![r] = {}]
    /\ left' = [left EXCEPT ![r] = {}]
    /\ \/ UNCHANGED <<qty, basis>>
       \/ r \in Live /\ \E symbols \in Upcoming(r) : \E c \in symbols : Closable(c) /\ GivesUp(c)
    /\ UNCHANGED <<view, lots, resting, mark, events, today, scenario>>

-----------------------------------------------------------------------------
(***************************************************************************)
(* The account and the market.                                             *)
(***************************************************************************)

\* An entry order fills.  Rule 5 keeps its short strike off every held
\* contract; entries that would net against a held contract are left out.  Each
\* spread is opened once, which bounds the history.
OpenSpread(s) ==
    LET sell == Leg(s, "sell")
        buy == Leg(s, "buy")
    IN  /\ (\A l \in lots : l.spread # s) /\ s.expiry - today > DteFloor
        /\ "overlap" \in Faults \/ \A r \in Runs : Idle(r)
        /\ qty[sell] = 0 /\ qty[buy] >= 0 /\ mark[sell] > mark[buy]
        /\ qty' = [qty EXCEPT ![sell] = -1, ![buy] = @ + 1]
        /\ basis' = [basis EXCEPT ![sell] = -mark[sell], ![buy] = @ + mark[buy]]
        /\ lots' = lots \cup {[spread |-> s, credit |-> mark[sell] - mark[buy]]}
        /\ UNCHANGED <<runVars, resting, mark, events, today, crashes, scenario>>

\* A close that waited is for the contracts there were when it was placed.
FillClose(c) ==
    /\ resting[c] # 0
    /\ resting' = [resting EXCEPT ![c] = 0]
    /\ Keeps(c, qty[c] - resting[c])
    /\ UNCHANGED <<runVars, lots, mark, events, today, crashes, scenario>>

MoveMarket ==
    /\ mark' \in scenario.markets \ {mark}
    /\ UNCHANGED <<runVars, account, events, today, crashes, scenario>>

\* Close orders are day orders; what expires leaves the account.
NextDay ==
    /\ today < LastDay
    /\ today' = today + 1
    /\ resting' = [c \in Contracts |-> 0]
    /\ qty' = [c \in Contracts |-> IF c.expiry <= today THEN 0 ELSE qty[c]]
    /\ basis' = [c \in Contracts |-> IF c.expiry <= today THEN 0 ELSE basis[c]]
    /\ UNCHANGED <<runVars, lots, mark, events, crashes, scenario>>

Init ==
    /\ stage = [r \in Runs |-> "idle"] /\ view = [r \in Runs |-> {}]
    /\ due = [r \in Runs |-> {}] /\ left = [r \in Runs |-> {}]
    /\ lots = {} /\ events = {}
    /\ qty = [c \in Contracts |-> 0] /\ basis = [c \in Contracts |-> 0]
    /\ resting = [c \in Contracts |-> 0]
    /\ scenario \in Scenarios /\ mark \in scenario.markets
    /\ today = 0 /\ crashes = 0

Next ==
    \/ \E r \in Runs : BuildPortfolio(r) \/ ManageExits(r) \/ Crash(r)
    \/ \E s \in scenario.spreads : OpenSpread(s)
    \/ \E c \in Contracts : FillClose(c)
    \/ MoveMarket \/ NextDay

Spec == Init /\ [][Next]_vars

\* cron starts a run every 15 minutes, and a close call ends, answered or not.
FairSpec == Spec /\ \A r \in Live : WF_vars(BuildPortfolio(r)) /\ WF_vars(ManageExits(r))

-----------------------------------------------------------------------------
(***************************************************************************)
(* Properties.                                                             *)
(***************************************************************************)

Journalled(g, status) == \E e \in events : e.status = status /\ Group(e.symbol) = g

Net(g) == MapThenSumSet(LAMBDA c : qty[c], {c \in Contracts : Group(c) = g})

Legs(l) == {Leg(l.spread, "sell"), Leg(l.spread, "buy")}

\* Some contract of the group that is still held is being closed, or the journal
\* holds a close of it.
Explained(g) ==
    \E c \in Contracts :
        /\ Group(c) = g /\ qty[c] # 0
        /\ \/ \E r \in Runs : c \in left[r]
           \/ \E e \in events : e.symbol = c /\ e.status # "dry_run"

\* The whole row is closed, so an entry that fills after the row was read loses
\* the leg it shares with what is being closed (orchestrator.py:260).
LegShared(g) ==
    "overlap" \in Faults /\
        \E l, m \in lots : l # m /\ \E c \in Legs(l) \cap Legs(m) : Group(c) = g

\* A group that has lost a leg of a spread is still being closed, or the journal
\* holds the close that failed or was never filled, or a run has crashed: an
\* orphaned leg never goes unrecorded.
OrphansExplained ==
    \A g \in Groups : Net(g) # 0 => Explained(g) \/ LegShared(g) \/ crashes > 0

\* An opened spread that a live cycle has seen, as it still is, and spared.
Spared(r, l) ==
    LET sell == Leg(l.spread, "sell")
        buy == Leg(l.spread, "buy")
    IN  /\ stage[r] = "done" /\ {Row(sell), Row(buy)} \subseteq view[r]
        /\ qty[sell] = -1 /\ qty[buy] = 1 /\ basis[sell] + basis[buy] = -l.credit
        /\ resting[sell] = 0 /\ resting[buy] = 0 /\ ~ Journalled(Group(sell), "failed")

\* What closing the spread at the market would gain, against its own credit.
InBand(l) ==
    LET sell == Leg(l.spread, "sell")
        gain == l.credit - (mark[sell] - mark[Leg(l.spread, "buy")])
    IN  /\ sell.expiry - today > DteFloor
        /\ 100 * gain < l.credit * ProfitPct
        /\ 100 * gain > l.credit * LossPct

\* What a complete live cycle leaves open is a spread between its profit target
\* and its stop and above the DTE floor, when no other spread shares its
\* underlying and expiry.
SparedSpreadsInBand ==
    \A r \in Live, l \in lots :
        /\ Spared(r, l)
        /\ \A m \in lots : Group(Leg(m.spread, "sell")) = Group(Leg(l.spread, "sell")) => m = l
        => InBand(l)

\* A contract at the DTE floor does not stay with the account for want of a
\* profit target or a credit: it is closed, a close of it waits, or a failed
\* close of it is journalled, however the market moves.
FloorIsServed ==
    \A c \in Contracts :
        scenario.runs \subseteq Live /\ qty[c] # 0 /\ c.expiry - today <= DteFloor
            ~> qty[c] = 0 \/ resting[c] # 0 \/ [symbol |-> c, status |-> "failed"] \in events

\* Without failures, crashes and overlap the leg-by-leg loop is atomic.  A group
\* being closed counts as held, as the run has read it, until its last leg.
InProgress == [g \in Groups |-> {r \in Live : \E c \in left[r] : Group(c) = g}]

Holding(g) ==
    LET rows == IF InProgress[g] = {} THEN Positions ELSE UNION {view[r] : r \in InProgress[g]}
    IN  {<<p.symbol, p.contracts>> : p \in {q \in rows :
            Group(q.symbol) = g /\ q.symbol.expiry >= today}}

Atomic == INSTANCE AtomicExits WITH
    NoPosition <- {},
    book <- [g \in Groups |-> Holding(g)],
    judged <- (UNION {due[r] : r \in Live}) \cup {g \in Groups : InProgress[g] # {}},
    day <- today

Calm == Faults = {} /\ scenario.crashes = 0

ImplementsAtomicExits ==
    (Calm => Atomic!Init) /\ [][ Calm => Atomic!Next ]_(Atomic!vars)

(***************************************************************************)
(* What the documentation says and exit management does not do.            *)
(***************************************************************************)

\* "a short leg in profit can never be closed without its long wing"
\* (orchestrator.py:249-250): between runs, a group is closed whole or not at all.
LegsClosedTogether ==
    (\A r \in Runs : Idle(r)) => \A g \in Groups : Net(g) = 0
=============================================================================
