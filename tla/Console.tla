------------------------------ MODULE Console ------------------------------
(***************************************************************************)
(* The dashboard (streamlit_app.py) over the journal that cron's runs      *)
(* write: what a run appends for every underlying, and what the panels     *)
(* make of it.  Runs overlap, so their events interleave; each has read    *)
(* the configuration when it started.  The page keeps the configuration    *)
(* for good, and the journal for a minute: a page that is not fresh shows  *)
(* the journal of an earlier state.  Events no panel here looks at are     *)
(* left out: those of contexts, exits, errors, switches and summaries.     *)
(***************************************************************************)
EXTENDS Configuration, Sequences, FiniteSets, FiniteSetsExt, Functions

AllFaults == {"lookup", "reply", "timeout", "error"}

CONSTANTS
    Runs,         \* cron invocations
    Tickers,      \* the underlyings of each run, in order
    Installed,    \* the configuration files as they are at first
    Configs,      \* what they may become
    MaxTurns,     \* max_turns_per_ticker
    MaxNew,       \* max_new_positions_per_cycle
    Observations, \* of each underlying, what the gate may be asked about, in dollars: a
                  \* spread's credit, loss and delta, the book's delta, the size wanted
    Nav,          \* net liquidation value
    Faults,       \* of AllFaults, what may go wrong
    MaxEdits,     \* bound on edits of the configuration
    MaxEvents,    \* bound on the journal
    Missing       \* nothing loaded yet

ASSUME ConsoleAssumption ==
    /\ MaxTurns \in Nat \ {0} /\ MaxNew \in Nat /\ Nav \in Nat \ {0}
    /\ Faults \subseteq AllFaults /\ MaxEdits \in Nat /\ MaxEvents \in Nat
    /\ IsFiniteSet(Runs)
    /\ \A c \in Configs \cup {Installed} :
          c.minCredit \in Int /\ c.maxLossPct \in Int /\ c.maxDeltaPct \in Int
    /\ \A r \in Runs : Tickers[r] \in Seq(STRING) /\ IsInjective(Tickers[r])
    /\ \A r \in Runs : \A k \in DOMAIN Tickers[r] :
          Observations[Tickers[r][k]] \subseteq
             [credit : Int, loss : Int, delta : Int, book : Int, wanted : Int]

VARIABLES
    disk,    \* the configuration files
    live,    \* the runs started with --live
    config,  \* what each run has loaded
    stage,   \* where each run is with its underlying
    at,      \* index of that underlying
    turns,   \* turns the model has taken on it
    events,  \* the journal
    orders,  \* the broker's client order ids
    page,    \* the configuration the dashboard has cached
    edits

vars == <<disk, live, config, stage, at, turns, events, orders, page, edits>>

-----------------------------------------------------------------------------
(***************************************************************************)
(* What a run journals.                                                    *)
(***************************************************************************)

Ticker(r) == Tickers[r][at[r]]

\* Every event carries its run, its underlying and what it is about: the number of
\* the turn, the turns used, the checks of the gate or the status of an order.
Logs(r, type, about) ==
    /\ Len(events) < MaxEvents
    /\ events' = Append(events,
        [type |-> type, run |-> r, ticker |-> Ticker(r), about |-> about])

Moves(r, to) == stage' = [stage EXCEPT ![r] = to]

\* The next underlying, or the end of the run.
NextTicker(r) ==
    /\ at' = [at EXCEPT ![r] = @ + 1]
    /\ turns' = [turns EXCEPT ![r] = 0]
    /\ Moves(r, IF at[r] < Len(Tickers[r]) THEN "context" ELSE "done")

Stays(r) == UNCHANGED <<at, turns>>

\* Nothing is journalled of a run whose configuration does not load, nor of one
\* that a missing key ends.
Start(r) ==
    /\ stage[r] = "idle"
    /\ config' = [config EXCEPT ![r] = disk]
    /\ Moves(r, IF ~ Loads(disk, TRUE) THEN "refused"
                ELSE IF Stumbles("start", disk) THEN "stumbled"
                ELSE IF Tickers[r] = <<>> THEN "done" ELSE "context")
    /\ UNCHANGED <<disk, live, at, turns, events, orders, page, edits>>

MarketContext(r) ==
    /\ stage[r] = "context"
    /\ Moves(r, IF Stumbles("analysis", config[r]) \/ Stumbles("loop", config[r])
                THEN "stumbled" ELSE "turns")
    /\ Stays(r) /\ UNCHANGED <<disk, live, config, events, orders, page, edits>>

\* One turn: more tools, an end without a proposal (declined; a malformed one,
\* which is journalled in the same way, is not told apart), or a proposal.
AgentTurn(r) ==
    /\ stage[r] = "turns"
    /\ turns' = [turns EXCEPT ![r] = @ + 1]
    /\ Logs(r, "agent_turn", turns[r] + 1)
    /\ \E next \in {"turns", "no_proposal_declined", "agent_proposal"} :
          Moves(r, IF next = "turns" /\ turns[r] + 1 = MaxTurns
                   THEN "no_proposal_turn_limit" ELSE next)
    /\ UNCHANGED <<disk, live, config, at, orders, page, edits>>

NoProposal == {"no_proposal_declined", "no_proposal_turn_limit"}

LogNoProposal(r) ==
    /\ stage[r] \in NoProposal
    /\ Logs(r, stage[r], turns[r])
    /\ NextTicker(r)
    /\ UNCHANGED <<disk, live, config, orders, page, edits>>

\* The proposal is journalled before its legs are looked at.
LogAgentProposal(r) ==
    /\ stage[r] = "agent_proposal" /\ Moves(r, "legs")
    /\ Logs(r, "agent_proposal", turns[r])
    /\ Stays(r) /\ UNCHANGED <<disk, live, config, orders, page, edits>>

LogInvalidProposal(r) ==
    /\ stage[r] = "legs"
    /\ Logs(r, "invalid_proposal", turns[r])
    /\ NextTicker(r)
    /\ UNCHANGED <<disk, live, config, orders, page, edits>>

Abs(x) == IF x < 0 THEN -x ELSE x
AtLeastZero(x) == IF x < 0 THEN 0 ELSE x
Lesser(x, y) == IF x <= y THEN x ELSE y

\* Rules 2 and 3 are configured as shares of NAV and journalled in dollars.
LossBudget(c) == (c.maxLossPct * Nav) \div 100
DeltaLimit(c) == (c.maxDeltaPct * Nav) \div 100

Affordable(seen, c) == IF seen.loss > 0 THEN LossBudget(c) \div seen.loss ELSE 0

DeltaAffordable(seen, c) ==
    IF seen.delta = 0 THEN Affordable(seen, c)
    ELSE AtLeastZero(DeltaLimit(c) - Abs(seen.book)) \div Abs(seen.delta)

\* The size wanted, cut to both budgets.
Size(seen, c) ==
    AtLeastZero(Lesser(seen.wanted, Lesser(Affordable(seen, c), DeltaAffordable(seen, c))))

\* The rows of the sizing rules and of the premium.  Rule 2 judges what the loss
\* budget alone allows, and shows the loss of the size there is.
Checks(seen, c) ==
    LET size == Size(seen, c)
        affordable == Affordable(seen, c)
        projected == seen.book + seen.delta * size
    IN  [R2 |-> [observed |-> seen.loss * size, limit |-> LossBudget(c),
                 passed |-> affordable >= 1 /\ seen.loss * affordable <= LossBudget(c)],
         R3 |-> [observed |-> projected, limit |-> DeltaLimit(c),
                 passed |-> size >= 1 /\ Abs(projected) <= DeltaLimit(c)],
         R4 |-> [observed |-> seen.credit, limit |-> c.minCredit,
                 passed |-> seen.credit >= c.minCredit]]

\* The events of some kinds, by their place in the journal.
OfType(seen, types) == {i \in DOMAIN seen : seen[i].type \in types}

Opened(r) == Cardinality({i \in OfType(events, {"order_submitted"}) : events[i].run = r})

LogGateDecision(r) ==
    /\ stage[r] = "legs"
    /\ IF Stumbles("gate", config[r])
       THEN Moves(r, "stumbled") /\ Stays(r) /\ UNCHANGED events
       ELSE \E seen \in Observations[Ticker(r)] :
               LET checks == Checks(seen, config[r])
                   approved == \A rule \in DOMAIN checks : checks[rule].passed
               IN  /\ Logs(r, IF approved THEN "trade_approved" ELSE "trade_rejected", checks)
                   /\ IF approved /\ Opened(r) < MaxNew
                      THEN Moves(r, "execute") /\ Stays(r) ELSE NextTicker(r)
    /\ UNCHANGED <<disk, live, config, orders, page, edits>>

\* log_execution: the kind of event an answer becomes.
\* Mutant: a dry run succeeds, so it counts as submitted.
EventOfStatus(result) ==
    IF ~ result.success THEN "order_failed"
    ELSE IF result.status = "filled" THEN "order_filled" ELSE "order_submitted"

EventOf(result) ==
    IF result.dryRun THEN "order_dry_run"
    ELSE IF ~ result.success THEN "order_failed"
    ELSE IF result.status = "filled" THEN "order_filled" ELSE "order_submitted"

Result(r, success, status) ==
    [success |-> success, status |-> status, dryRun |-> r \notin live]

LogExecution(r, result) == Logs(r, EventOf(result), result.status)

\* All proposals of a day for one underlying are the same trade here.
Known(r) == Ticker(r) \in orders

\* A dry run, or the look-up finds the order; a look-up that fails finds nothing.
ExecuteWithoutPlacing(r) ==
    /\ stage[r] = "execute"
    /\ \/ r \notin live /\ LogExecution(r, Result(r, TRUE, "dry_run")) /\ NextTicker(r)
       \/ r \in live /\ Known(r) /\ LogExecution(r, Result(r, TRUE, "duplicate")) /\ NextTicker(r)
       \/ /\ r \in live /\ (~ Known(r) \/ "lookup" \in Faults)
          /\ Moves(r, "place") /\ Stays(r) /\ UNCHANGED events
    /\ UNCHANGED <<disk, live, config, orders, page, edits>>

\* The broker takes an id once; its answer may be lost.
Place(r) ==
    /\ stage[r] = "place"
    /\ orders' = orders \cup {Ticker(r)}
    /\ Moves(r, IF Known(r) THEN "failed" ELSE "placed")
    /\ Stays(r) /\ UNCHANGED <<disk, live, config, events, page, edits>>

LogPlacement(r) ==
    /\ stage[r] \in {"placed", "failed"}
    /\ \/ stage[r] = "placed" /\ LogExecution(r, Result(r, TRUE, "submitted"))
       \/ /\ stage[r] = "failed" \/ "reply" \in Faults
          /\ LogExecution(r, Result(r, FALSE, "failed"))
    /\ NextTicker(r)
    /\ UNCHANGED <<disk, live, config, orders, page, edits>>

\* wait_for gives up: the outcome is journalled as one of no turns, whatever was
\* journalled or placed before.
Timeout(r) ==
    /\ "timeout" \in Faults
    /\ stage[r] \in {"context", "turns", "legs", "execute", "place", "placed", "failed"}
    /\ Logs(r, "no_proposal_turn_limit", 0)
    /\ NextTicker(r)
    /\ UNCHANGED <<disk, live, config, orders, page, edits>>

\* A read or the whole chain of providers fails: the underlying is passed over.
\* The error that is journalled is no outcome to a panel.
LogError(r) ==
    /\ "error" \in Faults
    /\ stage[r] \in {"context", "turns"}
    /\ NextTicker(r)
    /\ UNCHANGED <<disk, live, config, events, orders, page, edits>>

-----------------------------------------------------------------------------
(***************************************************************************)
(* What the panels make of the events seen, oldest first.                  *)
(***************************************************************************)

AllTickers == UNION {Range(Tickers[r]) : r \in Runs}

AgentEvents == NoProposal \cup {"agent_proposal", "invalid_proposal"}

OfTicker(seen, types, ticker) == {i \in OfType(seen, types) : seen[i].ticker = ticker}

HasOutcome(seen, ticker) == OfTicker(seen, AgentEvents, ticker) # {}

\* latest_by_ticker: the first match of the list it is given, which is oldest first.
LatestByTicker(seen, ticker) == seen[Min(OfTicker(seen, AgentEvents, ticker))]

\* Mutant: every turn the agent has ever taken on the underlying.
TurnsOfTicker(seen, outcome) == OfTicker(seen, {"agent_turn"}, outcome.ticker)

\* latest_turns: the turns of the run whose outcome is shown, oldest first.
LatestTurns(seen, outcome) ==
    {i \in OfTicker(seen, {"agent_turn"}, outcome.ticker) : seen[i].run = outcome.run}

\* Where the panel prints a turn's tool calls: it goes through the list from its end.
PrintedAt(shown, i) == Cardinality({j \in shown : j >= i})

GateEvents(seen) == OfType(seen, {"trade_approved", "trade_rejected"})

Configured(c) ==
    [R2 |-> <<"percent", c.maxLossPct>>, R3 |-> <<"percent", c.maxDeltaPct>>,
     R4 |-> <<"dollars", c.minCredit>>]

\* Mutant: the row shows the limit as it is configured today.
ThresholdOfToday(rule, check, c) == Configured(c)[rule]

\* The limit that was journalled with the verdict goes before the configured one.
Threshold(rule, check, c) == <<"dollars", check.limit>>

\* latest_checks: of the newest verdict.
LatestChecks(seen) == seen[Max(GateEvents(seen))].about

\* A row of the risk-gate panel.
RuleRow(rule, checks, c) ==
    [threshold |-> Threshold(rule, checks[rule], c),
     state |-> IF checks[rule].passed THEN "pass" ELSE "fail",
     observed |-> checks[rule].observed]

\* stats_from_events, as far as orders go: no event is ever an order_filled.
OrdersSubmitted(seen) == Cardinality(OfType(seen, {"order_filled", "order_submitted"}))

-----------------------------------------------------------------------------
(***************************************************************************)
(* The page and the configuration files.                                   *)
(***************************************************************************)

\* get_config is cached without an end; while it fails the page stops there.
GetConfig ==
    /\ page = Missing /\ Loads(disk, FALSE)
    /\ page' = disk
    /\ UNCHANGED <<disk, live, config, stage, at, turns, events, orders, edits>>

\* Bounded to edits that a run is still to load; the page may have loaded the files
\* before, or load them after.
EditConfig ==
    /\ edits < MaxEdits /\ edits' = edits + 1
    /\ \E r \in Runs : stage[r] = "idle"
    /\ disk' \in Configs \ {disk}
    /\ UNCHANGED <<live, config, stage, at, turns, events, orders, page>>

Init ==
    /\ disk = Installed
    /\ live \in SUBSET Runs
    /\ config = [r \in Runs |-> Missing]
    /\ stage = [r \in Runs |-> "idle"]
    /\ at = [r \in Runs |-> 1]
    /\ turns = [r \in Runs |-> 0]
    /\ events = <<>> /\ orders = {} /\ edits = 0
    /\ page = Missing

Run(r) ==
    \/ Start(r) \/ MarketContext(r) \/ AgentTurn(r) \/ LogNoProposal(r)
    \/ LogAgentProposal(r) \/ LogInvalidProposal(r) \/ LogGateDecision(r)
    \/ ExecuteWithoutPlacing(r) \/ Place(r) \/ LogPlacement(r)
    \/ Timeout(r) \/ LogError(r)

Next == (\E r \in Runs : Run(r)) \/ GetConfig \/ EditConfig

Spec == Init /\ [][Next]_vars

-----------------------------------------------------------------------------
(***************************************************************************)
(* Properties.                                                             *)
(***************************************************************************)

\* "Only the turns belonging to the SAME cycle as the outcome shown above"
\* (streamlit_app.py:478).  Whatever runs were journalled in between, the turns
\* printed are all that led to the outcome, unless it is a timeout, which is
\* journalled as an outcome of no turns.  They are printed from the last to the
\* first, although the heading says "in order" (548): the list that is reversed to
\* have the oldest first (550) had it first.
TurnsMakeTheOutcome ==
    \A ticker \in AllTickers : HasOutcome(events, ticker) =>
       LET outcome == LatestByTicker(events, ticker)
           shown == LatestTurns(events, outcome)
       IN  outcome.about # 0 =>
              /\ Cardinality(shown) = outcome.about
              /\ \A i \in shown : events[i].about = outcome.about + 1 - PrintedAt(shown, i)

InDollars(threshold) ==
    IF threshold[1] = "percent" THEN (threshold[2] * Nav) \div 100 ELSE threshold[2]

\* What a row shows as observed keeps the limit it shows.
Satisfied(rule, row) ==
    LET limit == InDollars(row.threshold)
    IN  CASE rule = "R2" -> row.observed <= limit
          [] rule = "R3" -> Abs(row.observed) <= limit
          [] rule = "R4" -> row.observed >= limit

\* A rule is never "marked FAILED against a limit it plainly satisfies"
\* (streamlit_app.py:608), nor passed against one it does not, although the
\* configuration may have changed before the verdict, after it, or since the page
\* has loaded it.  But against that comment, it is so marked whenever the size came
\* to nothing: Rule 2, which fails in no other way, then shows a loss of 0 and Rule 3
\* the delta of the book as it is (risk_gate.py:183 and 209), both within the limit.
RowsAgreeWithLimits ==
    page # Missing /\ GateEvents(events) # {} =>
       LET checks == LatestChecks(events)
           sizeZero == RuleRow("R2", checks, page).observed = 0
       IN  \A rule \in DOMAIN Configured(page) :
              LET row == RuleRow(rule, checks, page)
              IN  IF row.state = "pass" THEN Satisfied(rule, row)
                  ELSE ~ Satisfied(rule, row) \/ (rule # "R4" /\ sizeZero)

\* Dry runs "never inflate the orders submitted" (journal.py:169), and a
\* duplicate counts as a second order, which it is not.  The count, without the
\* duplicates, is at most the orders the broker has; it misses one only for a
\* placement journalled as failed, timed out, or not journalled yet.
OrdersAreCounted ==
    LET counted == OrdersSubmitted(events)
                     - Cardinality({i \in OfType(events, {"order_submitted"}) :
                                       events[i].about = "duplicate"})
        missed == Cardinality(OfType(events, {"order_failed"}))
                    + Cardinality({i \in OfType(events, AgentEvents) : events[i].about = 0})
                    + Cardinality({r \in Runs : stage[r] = "placed"})
    IN  counted <= Cardinality(orders) /\ Cardinality(orders) <= counted + missed

\* load_config asks for the keys "so a typo surfaces at startup rather than three
\* hours into an unattended session" (config.py:138): once it has accepted a
\* configuration, neither a run nor the page misses a key, but for one it does not
\* ask for, the limit of the chain.
TyposSurfaceAtStart ==
    /\ \A r \in Runs : stage[r] = "stumbled" => "chain.limit" \notin config[r].keys
    /\ page # Missing => ~ Stumbles("sidebar", page)

\* "Most recent matching event per underlying" (latest_by_ticker's docstring).
LatestIsShown ==
    \A ticker \in AllTickers : HasOutcome(events, ticker) =>
       LatestByTicker(events, ticker) = events[Max(OfTicker(events, AgentEvents, ticker))]
=============================================================================
