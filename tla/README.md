# Verification of the Alpaca options agent

This directory holds TLA+ models of the trading agent in `src/`, the TLC
configurations that check them, and TLAPS proofs of their main properties. The
agent sells out-of-the-money put credit spreads: cron starts it every 15
minutes, a language model studies each underlying through read-only tools and
proposes a spread, and a deterministic gate of nine rules decides. Only the
orchestrator places orders.

All models are translated from the code. Line numbers refer to `src/` at the
commit this directory sits beside; `PROJECT.json` maps every definition to its
lines.

## 1. Inventory

| Component | Code | State it keeps | Operations | Modelled in |
|---|---|---|---|---|
| Risk gate | `agent/risk_gate.py` | none (pure) | `risk_gate_check`: sizing, nine rules | `RiskGate`, `GateSession` |
| Trading cycle | `agent/orchestrator.py` | run id, one portfolio snapshot per run, count of opened positions | `run_cycle`, `analyse_ticker`, `execute`, `_find_existing_order` | `TradingCycle` |
| Exit management | `orchestrator.manage_exits`, `position_manager.group_into_spreads`, `decide_exits` | none of its own; acts on the account | group, judge, close contract by contract | `Exits` |
| Model loop | `orchestrator.run_model_loop`, `_dispatch` | the conversation, the turn | chat, dispatch tool calls, stop on a proposal | `ModelLoop` |
| Language-model client | `agent/llm.py` | provider chain; Gemini's signature table | retry, failover, translate | `ModelLoop` |
| MCP client | `agent/mcp_client.py` | session, allowlist | `call_read`, `call_write`, `unwrap` | `ModelLoop` (allowlist), `Snapshot` (answers) |
| Trade journal | `agent/journal.py` | `data/journal.jsonl` | append an event, read all, statistics | `Journal`, `Console` (what a run appends, the count of orders) |
| Buying-power baseline | `position_manager._starting_buying_power` | `data/account_baseline.json` | read, or write at the first run | `Baseline` |
| Portfolio snapshot | `orchestrator.build_portfolio`, `position_manager.build_portfolio_state` | none | read account, positions, Greeks, prices; rows, delta-dollars, P&L | `Snapshot`; its use in `TradingCycle`, `Exits` |
| Analysis, leg validation, pricing | `orchestrator.market_context`, `analyse_ticker`, `validate_legs`, `compute_limit_price` | the context of one analysis | fetch and diagnose a chain, price a proposal from fresh quotes | `Analysis` |
| Proposal schema | `agent/tools.py` | none | `parse_proposal` | `Analysis` (`WellFormed`) |
| Adapters | `agent/adapters.py` | none | requests, parsing of answers, `diagnose_bracket`, `summarise_chain` | `OptionChain`, `Snapshot` |
| Candidate filter | `agent/options_calculator.py` | none | `calculate_options_opportunities` | `OptionChain` |
| Spread builder | `agent/spread_builder.py` | none | pair and rank spreads; only `spikes/gate_stage4.py` calls it | `OptionChain` (`BuildSpreads`) |
| Implied volatility | `agent/iv.py` | `data/iv_history` | rank and classify; append (never called) | `ImpliedVolatility`, `Analysis` |
| Configuration | `agent/config.py`, `config/*.json` | three files, read once a run | load and validate | `Configuration`, `Console`; the thresholds are the other modules' constants |
| Journal publishing | `scripts/push_journal.sh`, `agent/journal_source.py` | git branch `data`, local and remote; the snapshot file | copy, compare, commit, push; choose a source | `Publication` |
| Dashboard | `streamlit_app.py`, `dashboard_*.py` | the configuration, cached for good; the journal, for a minute | panels over the journal; live mode reads the account | `Console`, `Snapshot` |
| Cron entry point | `cron_runner.py`, `install_cron.sh` | none | start a run | `TradingCycle` (`Start`, `Crash`), `Console` (`Start`) |
| Prompts, spikes, demo, tests | | | | not modelled |

### How they interact

    cron ──starts──> run_cycle ──reads──> clock, account, positions, orders (Alpaca through MCP)
                        │  writes the baseline file on the first snapshot
                        ├── manage_exits ── close_position, one call per contract
                        ├── for each underlying, under wait_for(cycle_timeout_seconds):
                        │      run_model_loop <──chat──> provider chain
                        │           └── call_read (allowlist) ──> MCP server
                        │      propose_spread ─> validate_legs ─> risk_gate_check
                        │      execute: look-up by client_order_id ─> place_option_order
                        └── journal events all along; log_cycle at the end
    dashboard ──reads──> journal, configuration;  in live mode takes the portfolio
                         snapshot too, and so writes the baseline file

The process is single-threaded asyncio: what interleaves are whole processes
(cron starts a run every 15 minutes and nothing locks out one that is still
going; the dashboard is another), the broker, which accepts and fills at its own
time, and the cancellation of an analysis by its timeout at any `await`.

### What is hard about it, and what makes it correct

* **Gate**: fails closed, sizes down but never up, and keeps capital and strike
  uniqueness over a whole session, not only per call.
* **Cycle**: one stale snapshot per run; an order whose reply is lost, or whose
  analysis is cancelled while it is on the wire; a crash between placing and
  journalling; overlapping runs proposing the same trade; orders that rest.
  Correct means: every order carries out an approval, ids are placed once, the
  journal accounts for every order, every underlying gets one final outcome.
* **Exits**: one call per leg, each of which can be refused, lost or left
  resting; judgement per (underlying, expiry). Correct means: what is spared is
  inside its band, nothing stays past the DTE floor for want of a credit, and a
  leg left alone leaves a trace.
* **Model loop**: failures at every level (tool, attempt, provider, turn limit).
  Correct means: requests are well-formed, only reads are served, a provider is
  passed over only after it has failed for good, and every analysis ends.
* **Snapshot**: four kinds of reads at four moments, each of which may fail, raise,
  be empty, be of another kind, or come in another shape. Correct means: the book
  that is judged is one that was held, and a failure is reported.
* **Analysis**: the chain is read for the journal, read again by the model, and
  the legs are quoted once more before the gate, with turns in between and a limit
  on every response. Correct means: an empty candidate list is blamed on the right
  party, compaction keeps the candidates, the gate sees quotes of one moment, the
  filters agree with it, the order keeps to what was judged, and an IV rank comes
  with the population its source names.
* **Files**: writes are not atomic and processes die. Correct means: completed
  records stay readable, and the baseline stays fixed.
* **Publishing**: the journal is copied while it is written, by scripts that may
  overlap and fail between commit and push. Correct means: whatever source a
  dashboard falls back to, it shows first records of the journal, and the branch
  serves all of it in the end.
* **Dashboard**: overlapping runs journal into one another, and limits are tuned
  between a verdict and its display. Correct means: what is shown side by side
  belongs together.

`PROJECT.json` lists the hazards one by one, each at its line.

## 2. Modules

| Module | What it is | EXTENDS / INSTANCE |
|---|---|---|
| `RiskGate` | the gate as operators: sizing, `R1_delta` .. `R9_buying_power`, `RiskGateCheck` | |
| `GateSession` | a session of gate calls on fresh snapshots | `RiskGate`; instances `SafeBook` |
| `SafeBook` | abstract: what the gate promises about the book | |
| `TradingCycle` | overlapping runs against the broker | `RiskGate`; instances `Desk`, `SafeBook` |
| `Desk` | abstract: orders carry out approvals, ids are placed once | |
| `OptionChain` | the chain request, the candidate filter, the diagnosis, the compaction and the spread builder, as operators | `RiskGate` |
| `ImpliedVolatility` | today's volatility, its rank and its regime, as operators | |
| `Analysis` | one underlying from the chain to the limit order, against moving quotes | `OptionChain`, `ImpliedVolatility` |
| `Exits` | runs that judge and close, against the account and the market | instances `AtomicExits` |
| `AtomicExits` | abstract: a group is given up whole, once judged due | |
| `ModelLoop` | the loop, the provider chain and the tool allowlist | |
| `Journal` | the append-only file under torn writes and kills | |
| `Publication` | the way of that file to a dashboard | `Journal` |
| `Baseline` | the baseline file under overlapping callers and kills, and the reserve taken from it | |
| `Snapshot` | the portfolio read by read, down to the baseline | `Baseline` |
| `Configuration` | what `load_config` asks for, and what is then read | |
| `Console` | what runs journal, and what the dashboard makes of it | `Configuration` |
| `MCGateSession`, `MCTradingCycle`, `MCAnalysis`, `MCExits`, `MCModelLoop`, `MCSnapshot`, `MCConsole` | values for TLC | the module they check |
| `RiskGateProofs`, `GateSessionProofs` | theorems and proofs | the module they prove about |
| `AnalysisProofs` | the model's part: what the loop may do, and what becomes of its proposal | `Analysis`, `ModelLoop`, `RiskGateProofs` |
| `TradingCycleProofs` | orders, the journal of a cycle, and the book that fills leave | `TradingCycle`, `RiskGateProofs`, `SumTheorems` |
| `ExitsProofs` | atomic closing, the band, and what is left of spreads | `Exits`, `SumTheorems` |
| `SumTheorems` | sums over finite sets, as the account's rows and totals need them | |
| `ConsoleProofs` | the journal, what is published of it, and what the dashboard makes of it | `Console`, `Publication` |
| `SnapshotProofs` | the baseline, and the snapshots that end in it | `Snapshot` |

Each module keeps the mutants of its own operators beside them, marked
`Mutant:`; no specification uses them. They are plausible bugs that must break a
property, and `PROJECT.json` says which.

### From code to model

**RiskGate.** `Checks` is the list `results` of `risk_gate_check`; all nine rules
are evaluated even after one fails, as in the code. Money is whole dollars, deltas
are hundredths of a share, and percentages are cross-multiplied, so that integer
arithmetic is exact. `Or` is Python's `value or default`: zero and missing are the
same thing, which is what the code does. The code's tolerances of 1e-9 and 1e-6
absorb float noise and are dropped.

**GateSession.** `Judge` is one gate call and, on approval, the fill;
`CloseLot`, `Drift` and `NextSession` are the account and the market. The
snapshot is fresh, which is what the rules are written for; in `TradingCycle` it
is as stale as in the code.

**TradingCycle.** `pc[r]` is where run `r` is: `clock`, `portfolio`, `exits`,
`analyse`, `lookup`, `place`, `await`, `summary`. One action per `await` that
matters: `ReadClock`, `ReadPortfolio`, `ManageExits` (one group, with any of its
closes failing), `NoTrade`/`Decide` (the analysis and the gate),
`FindExistingOrder`, `PlaceOrder` (the request leaves), `GetReply`,
`CycleTimeout` (enabled at every `await` of an analysis), `LogCycle`, `Crash`.
The broker decides a placement (`Accept`, `Reject`) whether or not anyone still
waits. `outcomes` is what the summary at the end of a run says of each
underlying, and `Entry` what the journal says of it by then, which is not the same:
a timeout is journalled with `log_no_proposal`, as an ending without an order.
`approvals` and `summary` are journal events as well. Alpaca reports one row per
contract, netted over all orders (`Held`, `Rows`).

**OptionChain, Analysis.** A board is what every listed put quotes, and
`MoveQuotes` exchanges it at any moment. `MarketContext` takes a response to
`ChainRequest`, of which the limit leaves the lowest strikes, and keeps
`DiagnoseBracket` of it; `ReadChain` is a chain the model asks for and the rows
`summarise_chain` leaves of it; `Propose` is `parse_proposal`; `ValidateLegs` is
`validate_legs`, the gate and the limit price, between which the code does not
wait; `Execute` is the placement, which `TradingCycle` has in detail. `since`
records what the market has quoted since the proposal. Strikes are whole dollars,
quotes are cents, and half a cent of a limit may round either way.
`MarketContext` also ranks today's volatility, by `ComputeIvRank` of module
**ImpliedVolatility**: the mean of the two contracts nearest the money, ranked
against the samples of the underlying, or against the realized volatilities of the
closes when the samples are too few. What a value is ranked in is a function from
the days, or the lines of the file, to volatilities, so that a day is counted once
for each of its values. What a window of returns is worth is
abstracted to the close that ends it; which windows there are is not.

**Exits.** `BuildPortfolio` reads and judges; each `ManageExits` is one pass of
the inner loop: one contract closed, refused, lost or left resting, and one journal
event. Groups are taken in any order but each is finished before the next.
Entries appear through `OpenSpread`, under the conditions Rule 5 and the DTE rules
leave. A close that rests is for as many contracts as there were when it was
placed (`resting`), and what an entry has added since stays (`Keeps`); a close that
is carried out at once gives up the row as it is by then (`GivesUp`). A run of TLC
begins in one of the scenarios of its MC module, each of which
fixes the runs, the spreads, the markets and the faults. A `Crash` may fall between
a carried-out close and its journal entry.

**ModelLoop.** `ChatFails` is one failed attempt of `LLMClient.chat`,
`ChatAnswers` an answer with any calls the model may name, `Dispatch` one tool
call, `AnalyseTicker` the next underlying with the same client (and, therefore,
the same signature table). `BodyGarbled` is the exception nobody handles. A failed
attempt carries what the client looks at: the status, whether the body speaks of a
limit, and the three places in which a provider says how long to wait
(`RetryAfter`); a status of 0 is a timeout. `Keys` are the providers that may have
a key, `Allowlists` what the file may say, which `Accepts` (the constructor) may
refuse, and `CallRead` is the door every tool call passes. Its specification is
called `LoopSpec`, and its initial states and steps alike, since its proofs share a
module with those of `Analysis`.

**Journal.** A record reaches the file in one piece or two; a kill or an
`OSError` leaves any prefix of them. The file is its ended lines and the open one.
`BeginWrite` is `_needs_newline`, which looks at the file before it is opened.

**Publication.** Journal's steps interleave with those of the script: `CopyJournal`,
`Compare` (`git diff --cached`), `Commit` (`--amend`), `Push` (`--force`), and
`Abort` between any two. All worktrees share the local branch, so `Compare` looks
at what the branch is by then and `Push` sends what it is by then. `LoadJournal`
tries the local file, the branch and the snapshot in the code's order.

**Baseline.** Each step of `_starting_buying_power` is an action:
`ReadAccount`, `Look`, `Truncate` (`open("w")`), `Write`, with a kill after each
and an error in each. `ReserveBase` is what Rule 9 makes of the number.

**Snapshot.** One action per read of `build_portfolio` and `get_live_state`, which
read in different orders (`AgentOrder`, `PageOrder`), with `Trade` between any
two. An answer is what the server sends, in its envelope; `Unwrap`,
`AdaptAccount` and `AdaptPositions` are the code's, and `Outcomes` adds what a
call of a `flaky` caller may come to: null, a text or a JSON scalar (`Scalar`), a
list where an object is expected and the other way round (`OtherAccounts`,
`OtherPositions`), an object without the field or of another shape, an `MCPError`
(`Failed`), or any other exception of the session (`Raised`), which `_call` does
not convert. What `MCPBrokerView` will not take (`AdaptableAccount`, and the Greeks of
`ReadsOther`) is found out only after the last read. `Abandons` ends the snapshot as the
code does: an `MCPError` is journalled and the run skipped, another exception ends
the run, and the page shows that there is no live data. `BuildPortfolioState` hands over
to `Baseline`'s steps, so module `Snapshot` refines module `Baseline`.

**Configuration, Console.** A configuration is the files that parse, the keys they
hold and the values somebody compares. `Loads` is `load_config`, `Reads` the keys
that are read without a default later on. A run loads the files at `Start`, the
page at `GetConfig`, once; `EditConfig` changes them at any moment until the last run
has started, before or after the page has loaded them. One action per
event a run appends (`AgentTurn`, `LogNoProposal`, `LogAgentProposal`,
`LogInvalidProposal`, `LogGateDecision`, `ExecuteWithoutPlacing`, `LogPlacement`,
`Timeout`), and the panels are operators of the events: `LatestByTicker`,
`LatestTurns`, `RuleRow`, `OrdersSubmitted`. A list of events a panel picks is the set
of their places in the journal, and an event carries one thing it is about: the
number of the turn, the turns used, the checks or the order's status. `Checks` are
the rows of Rules 2, 3 and 4 as `risk_gate_check` fills them at the size it arrives at
(`Size`), which may be zero; `PrintedAt` is the place at which the page, which goes
through the turns from the end, prints one. The page reads the journal as it was
at some moment, which is a state of the model, so no copy of it is kept.

## 3. What is checked

Counts are distinct states.

| Run | Question | Bounds |
|---|---|---|
| `GateSession` | Do nine rules on fresh data keep the book safe over a session? | five offers that share strikes, requests of 1 and 3, delta up to ±2700, P&L in {-6,-5,0}; 12,576 |
| `TradingCycle` | Two overlapping live runs with every communication fault and a crash: orders, journal, and the book | 2 runs, 2 underlyings, 2 offers that share a strike, at a spot price a quarter above it; 1.1 million |
| `CycleDays` | A live and a dry run, resting orders, missing Greeks, the bell, two days, liveness | 2 runs, 1 underlying, 2 days; 27,152 |
| `Exits` | Safety and the DTE floor against a failing account; without failures, is leg-by-leg closing atomic? | three scenarios of 2 markets each: 1 spread, 1 crash, closes refused, lost or resting; 2 spreads in one group, a live and a dry run, no fault; and the same 2 spreads, which share their long leg, entries that overlap the closes, and closes that rest; 174,556 |
| `ExitsApart` | Can a spread lose one leg only? Yes. | 2 groups, refusals |
| `ModelLoop` | Failover, keys, allowlists, tool calls and termination | 2 providers, 3 sets of keys, 2 allowlists, 3 attempts, 5 kinds of failure, 2 turns, 2 calls an answer, 2 underlyings; 145,659 |
| `ModelLoopSignatures` | Does every call go back with its own signature? No. | Gemini, 3 turns, 1 underlying |
| `Analysis` | From the chain to the order: right diagnosis, candidates shown, fresh quotes, filters and limit in line with the gate, founded ranks | 6 boards (calm, two expiries, volatile, thin, crossed, more strikes than the limit of 5), each with its own past, 9 proposals, 2 portfolios; 1.1 million |
| `Publication` | Are completed records always read back, and does the branch catch up? | 2 writers, 1 record each, 1 kill; 2 overlapping pushes, 1 failing; 1.2 million |
| `Snapshot` | Is the book that is judged one that was held, and is the gate only handed the persisted baseline? | the agent and the page, of which one is flaky; 2 contracts, one with a root of four letters; 2 levels, 0 among them; 1 move of the book; 2.6 million |
| `Console` | Does what the panels show side by side belong together? | 2 runs, live or dry, 2 underlyings, one whose spread fits and one whose book leaves its delta no room, 2 turns, 7 events, 1 edit out of three, while a run has yet to start; 2.6 million |
| `ConsoleLatest` | Is the outcome shown the latest? No. | as `Console` |

Why the bounds are enough. Two runs already show every interleaving of a pair of
placements with the same id, and two underlyings show an order of one analysis
answered in the next. Two legs are what a group loses one at a time; two spreads
share a contract or a group, and in each scenario of `Exits` one market brings the
target or the stop to one of them. The provider chain's properties compare the first
provider with a later one, and signatures need three requests: the first two are
answered with signed calls, and the third sends them back; the five
failures are one of each class the client tells apart (a rate limit, a 413 that
is one and a 413 that is none, a server in trouble, no answer). A torn record
needs one writer to tear and another to append behind it, and a branch that goes
back in time needs two pushes of two records. The six boards each make another
branch of the diagnosis or the validation happen, their pasts every source of a
rank and every regime, and any of them may follow any other between two reads.
In `TradingCycle` the delta budget of 1100 lets the wide spread in behind the narrow
one (900 and 125 as the gate and the book value them), so that it is Rule 5 that
keeps the two apart, and alone the wide one is worth 1125 at the spot price, more
than the budget; in `CycleDays`, with 1000, it is the budget that keeps two
underlyings apart; in the session either budget binds. A snapshot
reads four times, and one move of the book already falls between any two of
them; the baseline needs two levels to differ, and two callers to race. Seven
events hold a verdict of either run, an order and its duplicate, or the full
turn limit of one run between the turns of another.

### The properties

* `OneShortPerStrike`, `CapitalKept`, `LargestFit`, `BlamesTheRightBudget`: the
  gate over a session. `ImplementsSafeBook`: refinement of `SafeBook` by the gate
  session. `SafeUnlessOutgrown`: the same promise of every fill of the overlapping
  cycle, as long as the book does not hold more than the snapshot its run judged, and
  to within what the two prices that delta is valued at differ by.
* `ImplementsDesk`: every order carries out an approval of its own live run at the
  approved size; ids are placed once. `EveryOrderExplained`, `OrdersWithinCap`,
  `EveryTickerAnalysed`, `OutcomesAreFinal`: the journal against the broker.
  `RunsEnd`: a run that starts ends in a summary or a crash.
* `NothingIsLostInSilence` (the diagnosis fits what the response left out, and the
  table shows the candidates), `JudgedOnFreshQuotes`, `FiltersAgreeWithGate`
  (candidates and built spreads), `OrderWithinJudgement`, `RanksAreFounded`: the
  analysis.
* `SparedSpreadsInBand`, `OrphansExplained`, `FloorIsServed`,
  `ImplementsAtomicExits`: exit management.
* `RequestsWellFormed`, `OnlyReadsServed`, `FailoverIsEarned` (nobody is passed over,
  and nothing ends in an error, before a provider failed for good; nobody is asked
  again too early; the journal tells who drove a turn), `AnalysisEnds`: the loop.
* `BookIsSeen`, `FailuresAreReported`; `BaselineIsFixed`, `FloorIsAnchored`,
  `RaceEndsAtFirstBaseline`: the snapshot and the baseline.
* `CompletedAreRead`, `HistoryIsKept` (neither what is read back nor what the branch
  serves ever loses a record), `ViewsAreOfTheJournal`, `PublishingCatchesUp`: the
  journal and what dashboards get of it.
* `TurnsMakeTheOutcome`, `RowsAgreeWithLimits`, `OrdersAreCounted`,
  `TyposSurfaceAtStart`: what dashboards make of it.

A type invariant is checked of the gate session (`TypeOK`) and proved of it and of
the baseline (`TypeInv`); the other modules state none of their own, since their
properties already compare every part of the state.

### Fairness

`CycleDays`: weak fairness of each run's own steps, since every MCP and model
call has a timeout of its own and so ends; nothing is assumed of the broker, of
cron or of the calendar. `Exits`: weak fairness of starting and of continuing a
cycle, which is cron's schedule and the calls' timeouts; none for fills, the
market or the day. `ModelLoop`: weak fairness of `Next`, since every step is a
call with a timeout or local code. `Publication`: weak fairness of starting the
script that cron starts and of every step of a script that runs; aborts are
bounded, and nothing is assumed of the writers. `Snapshot` and `Console` state
safety only and assume no fairness.

`CHECK_DEADLOCK FALSE` stands where the modelled system ends: the runs are
used up, the last analysis is over, the records are written, the journal is at its
bound.

### Where the code and its documentation differ

Three are runs of their own, with TLC's counterexample:

* `ExitsApart`: `orchestrator.py:249-250` says a short leg can never be closed
  without its wing; one refused close of two leaves one.
* `ModelLoopSignatures`: `llm.py:251` says a signature is kept by call id and
  re-attached; ids start over in every answer (288), so the second turn's signature
  overwrites the first's, and the third request sends the first turn's call back
  with it.
* `ConsoleLatest`: `streamlit_app.py:467` says the most recent event per underlying,
  and 469 that the events are newest first; line 476 hands over the list that is
  oldest first (only `events_all` of 228 is reversed), so the panel stays with the
  first outcome there is. An `invalid_proposal` is therefore never shown, since its
  `agent_proposal` comes before it, and 507 takes the model and the mode of the
  oldest cycle.

Others were met while modelling, and the properties above are stated so as to
hold in spite of them:

* The snapshot is read before the exits, so the capital they free is not visible
  to the gate (`orchestrator.py:166`; the comment at 164 says it is).
* An order whose reply is lost is not counted, so a run may place another
  (`orchestrator.py:201`; `tests/test_orchestrator.py:410` says only one).
  `OrdersWithinCap` allows as many as have the outcome failed or timeout.
* An analysis cancelled while its order is on the wire is journalled as
  `no_proposal_turn_limit` (`orchestrator.py:186-189`), one of the "four ways a cycle
  can end without an order" (`journal.py:57`, and 247); only the summary at the end
  of the run calls it a timeout. `EveryOrderExplained` allows for exactly that
  entry: it names no turns, and one of a run that found no trade names at least one.
* A resting order is no position, so Rule 5 does not see it
  (`config/risk_config.json:23` says strikes are never stacked).
  `SafeUnlessOutgrown` therefore speaks of fills into a book that has not outgrown
  the snapshot of their run, as a resting order that fills makes it do.
* The price of a position's underlying is asked for under the first three letters of
  its symbol (`orchestrator.py:237`), so a root of another length gets none; its
  delta, and that of every position whose Greeks or price do not arrive, counts as
  zero in Rule 3. `BookIsSeen` names these cases, and two answers that pass for a
  flat book: an empty one and an object of a shape nobody knows.
* `orchestrator.py:126-130` wants a journalled reason for every run that fails. Of
  what a call may raise, `_call` converts a timeout and a tool error only
  (`mcp_client.py:247`, 257): a protocol error or a closed transport passes `except
  MCPError` (133, 152) and ends the run with nothing journalled. So does an answer
  that is no JSON, which is handed on as text (`mcp_client.py:318`), and JSON of
  another kind, which the adapters do not expect: a list or a number for the account,
  for the positions a number or an object that holds one.
  `FailuresAreReported` allows for these two and nothing else.
* The check for tools listed as both (`mcp_client.py:101`) compares the read list
  with `write_tools`, not with `orchestrator_write_tools`, so an order tool left out
  of the former could stand in both; `OnlyReadsServed` presumes that it is there.
* The snapshot carries no spot price, so Rule 3 values a spread's delta at its short
  strike (`risk_gate.py:124`, `config/risk_config.json:14`), while the book's is
  valued at the spot price: the first order into an empty book may already be over
  Rule 3's limit. `SafeUnlessOutgrown` allows for that difference (`Unseen`).
* The clock is read once a run, so an order may be placed after the close
  (`cron_runner.py:6` says market hours only).
* A close gives up the whole row (`orchestrator.py:260`), so an entry that fills after
  the row was read loses the long leg it shares with what is being closed, and
  nothing in the journal says so. `OrphansExplained` names it as `LegShared`: with
  one spread alone, nothing is ever lost without a trace.
* Two spreads of one underlying and expiry are judged as one
  (`position_manager.py:192-193`); `SparedSpreadsInBand` speaks of spreads that
  are alone in their group.
* `risk_gate.py:99` says missing keys fail closed; a missing book delta, P&L or
  position list would be read as zero or empty. `build_portfolio_state` always
  supplies them, so no modelled snapshot lacks one.
* The limit gives slippage back from the mid (`orchestrator.py:736`), so with
  narrow quotes it may lie below the credit the gate judged, and a position filled
  there may exceed Rule 2's budget (`config/risk_config.json:10`) and miss Rule 4's
  minimum, each by at most the slippage. `OrderWithinJudgement` allows for it.
* `validate_legs` takes a crossed quote, whose mids bring less than the gate
  judged; `OrderWithinJudgement` speaks of quotes that are not crossed.
* `adapters.py:259-262` says the market is blamed only when the strikes straddled
  the window; strikes inside it that quote badly, and those of another expiry,
  count as well (`adapters.py:298`).
* The kill switch is recomputed per call and lets go when the P&L recovers
  (`risk_gate.py:296` says until the next session).
* `llm.py:17` says a retryable failure is retried once; the code tries three times.
* `_needs_newline` looks before the file is opened (`journal.py:105`): a record can
  still share a line with one that another process tears in between.
* "Journal unchanged since the last push" (`push_journal.sh:96`) compares with the
  last commit: after a failed push nothing is sent until the journal changes, which
  `PublishingCatchesUp` allows for. In the schedule the next cycle journals
  something, so only a last push stays behind.
* A first account read without a buying power persists a baseline of 0
  (`position_manager.py:171`), which Rule 9 treats as none (`risk_gate.py:306`): the
  reserve then follows the current buying power for good. `FloorIsAnchored` names it.
* `config.py:138` says that a typo surfaces at startup; `chain.limit` is read
  without a default (`orchestrator.py:358`) and not asked for, so a file without it
  loads, and the first analysis ends the run. `TyposSurfaceAtStart` names it.
* `agent_config.json` holds the timeout of one underlying (600 s) below the interval
  (900 s), which is all that load_config compares; three underlyings may take twice
  the interval.
* The turns are printed last one first under "Tools it called, in order"
  (`streamlit_app.py:548`): 550 reverses a list that is oldest first already, to have
  "oldest first". `TurnsMakeTheOutcome` says that it is the whole list, from the last
  to the first; a turn without tool calls takes its place but prints no line. A
  timed-out analysis names no turns, whatever turns it took
  (`orchestrator.py:182`), and the property excuses it.
* "Marked FAILED against a limit it plainly satisfies" (`streamlit_app.py:608`) is
  what Rule 2 is whenever it fails: it is observed at the size that it has cut to
  nothing (`risk_gate.py:183`), so the row shows a loss of 0. Rule 3 shows the
  book's own delta then (209), which may be within its limit.
  `RowsAgreeWithLimits` allows for a size of zero in these two rows and for nothing
  else: the row of Rule 4, and those of a verdict of some size, never say so.
* The verdict beside an outcome is looked up by underlying alone
  (`streamlit_app.py:565`), so it may be another run's.
* Nothing is ever journalled as `order_filled`, since a placement is answered
  before it fills: "Orders filled", and "orders submitted" of
  `streamlit_app.py:690`, which prints the same number, stay 0. A duplicate counts
  as submitted (`journal.py:175`), a close counts as a position closed for each leg,
  and in a dry run and when it failed as well (`journal.py:366`), and nothing ever
  writes the `realized_pnl` that 335 adds up.
* The configuration is cached without an end (`streamlit_app.py:64`), so the sidebar
  shows the limits of the page's start, and "until the next cycle runs" (662) is
  not when they agree again. That caption appears with any verdict, since Rules 2, 3
  and 9 are configured in percent and journalled in dollars.
* `iv.py:9-12` says every cycle appends today's implied volatility; only tests call
  `append_iv_sample`, so the rank always falls back to its proxy, and the
  "20 sessions of history" of `streamlit_app.py:776` never accumulate.
* "At the money" (`atm_implied_volatility`) is the mean of the two nearest contracts
  that have a volatility, which may lie on one side or share a strike; and of a
  response cut off at the limit, lowest strikes first, they are not near the money.
  `RanksAreFounded` speaks of responses that are complete.
* `spread_builder.py:73` asks of the long leg an ask price only, `validate_legs` two
  sides and Greeks, so not every spread the builder makes could be proposed.
* `position_manager.py:154-156` takes a configured `starting_buying_power` before the
  file; the shipped configuration leaves it null, and it is not modelled.
* A read error of the baseline file replaces the baseline by the current buying
  power (`position_manager.py:163`), the drift that 147-150 warns of.
* `install_cron.sh:65` speaks of every 5 minutes; line 80 installs every 15.

## 4. What is proved

All proofs are checked by TLAPS for all values of the constants that satisfy
the modules' named assumptions. Every inductive invariant was checked by TLC, as
an invariant of the run of its module, before it was proved.

**The gate.** `RiskGateProofs!ApprovalIsSafe`: an approval has a positive size no
larger than asked, within the loss budget, the delta budget and the reserve, at a
strike that is not held. It rests on a lemma about integer division,
`DivideFloor`, and on what `Sized` returns.

**The gate over a session.** `GateSessionProofs!TypeCorrect`,
`ShortStrikesDistinct`, `CapitalIsKept` and `SessionImplementsSafeBook`. The
inductive invariant `IInv` adds to the two invariants that every open lot's
collateral is non-negative, which a close needs to give capital back rather than
take it, and that there are no lots without a baseline, since Rule 9 falls back to
the current buying power when the baseline is zero. `RightBudgetBlamed` and
`SizedToTheLargest` need no more than the types: they follow from what the sizing
returns, by `DivideFloor` for either budget.

**Orders.** `TradingCycleProofs!CycleImplementsDesk`: for any runs, underlyings,
offers and faults. The invariant says that what a run plans, what is on the wire and
what the broker holds each carry an approval of the same live run; that an id is
placed once follows from the broker's acceptance.

**The journal of a cycle.** `TradingCycleProofs!CycleExplainsOrders`,
`CycleKeepsCap`, `CycleAnalysesAll` and `CycleOutcomesFinal`, all from
`JournalIsKept`. Its invariant, `Journalled`, says for each run that the
underlyings before its turn are exactly the ones journalled; that what counts
against its cap is the number of its outcomes submitted or duplicate; and that what
it has sent to the broker was sent once for an underlying, and is journalled or
waited for. Only so does a reply that comes after the timeout leave the journal
alone, and the cap is exceeded only by as many outcomes as are failed or timeouts.
`EveryOrderExplained` is about the journal's events and not about the summary's
outcomes: `Entry` says which event an outcome is, and that of an order is never a
no-order event that names turns. The list of underlyings is assumed to hold each once; it may be empty (`FirstStop`).

**The book of overlapping runs.** `TradingCycleProofs!FillsKeepPromise`: whatever
overlaps, is lost, rests, is closed meanwhile or is answered late, an order that fills
while the book is still covered by the snapshot of its run opens one short position
at a strike that was not held, enlarges no other, and leaves the delta within Rule 3's
limit, but for the difference of the two prices. Its invariant, `JudgedInv`, is that a
verdict stays true of what it was given on: what a run plans to execute
(`PlansJudged`), and what it has on the wire or at the broker, also after it has died
(`SentJudged`), passed Rules 3 and 5 on the snapshot that the run still has, since a
run reads the portfolio once and is not begun twice; and an order has no positions
before it fills (`BookTyped`). What a fill then does to the account is sums: the rows
net the orders contract by contract, so one order more changes the holdings of its two
contracts only (`HeldOfMore`), and the delta-dollars of the book by what its own spread
is worth at the spot price (`DeltaOfMore`), whether a row appears, grows or nets out.
Rule 5 and `StillCovers` make the short contract a new row, Rule 3 and `StillCovers`
bound the sum (`FillKeepsBudget`). A long leg may land on a contract that is held
short: that position shrinks, which the promise permits. It is assumed that a spread's
net delta is what its legs' deltas make it, as `validate_legs` computes it
(`QuoteAssumption`).

**Exits.** `ExitsProofs!ExitsAreAtomic`: while nothing fails, crashes or overlaps,
`Exits` implements `AtomicExits`, step by step. The invariant `Undisturbed` says that
one run is active at a time, that what it has still to close is as it has read it,
and that of the group it has begun the account holds no more than what is left.
`ExitsProofs!SparedStayInBand` holds with every fault, crash and overlap. Its
invariant `BandInv` says that every contract held and every row read is a leg of a
spread that was opened (`RowsAreOfLots`), and that what a live run found due is still
to be closed or was attempted (`DueAreSeenTo`): it is gone, a close of it waits or has
failed, the day has changed, or another spread has joined the group. A spread that
is alone, unattempted and still as it was read was therefore not due, and `SumOfTwo`
turns the sums over its two rows into its own gain and credit.
`ExitsProofs!OrphansAreExplained`, with every fault, crash and overlap as well. While
nobody has crashed (`Accounted`) a close that rests is of a contract that a run is
closing or that the journal names, and such a contract is a leg of an opened spread.
The rest depends on whether runs may overlap. If they do not (`OneAtATime`), the one
run that closes has read all there is of the group, and what has been opened of a
group since it was last begun to be closed nets to nothing and is all there is of a
contract that was never touched (`Since`): what is out of balance is a contract that
was. If they do, of a spread that shares no leg both legs are touched or neither is,
and while neither is the spread is whole (`BothOrNeither`); a group of such spreads
whose contracts are all untouched or gone nets to nothing. Groups may be of any size,
so the sums are reasoned about by the lemmas of `SumTheorems`: a sum over a finite set splits
at any member (`SumSplits`), looks at its members only (`SumOfSame`), keeps what two
members exchange (`SumOfExchange`), and is zero where the members pair off
(`SumOfOpposites`). That the exchange lists finitely many spreads is assumed for them
(`ExitsAssumption`).

**The snapshot and the baseline.** `SnapshotProofs!BaselineStaysFixed`,
`FloorStaysAnchored` and `SettledBaselineIsFinal`, for any callers and levels: the
invariant relates the stage of each caller to whether a baseline is on disk. Without
mishaps, and while there is none, at most one caller is past reading the account, and
it writes what it read; once there is one, nobody is about to write.
`SnapshotImplementsBaseline` and `SnapshotKeepsBaseline`: every step of a snapshot
is a step of the baseline's protocol or leaves it alone, whatever the answers, so the
three facts hold of snapshots as well. What it takes is that `Unwrap` brings an
account's buying power out of its envelope unharmed (`UnwrapsAccount`), and 0 out of
everything else. `SnapshotSeesBook` and `SnapshotReportsFailures` rest on
`SnapshotInv`: the book, and the rows once they are read, lie between what was held
all along and what was held at some moment since the account was read, unless an
answer was strange; and what has crashed anyone is an exception that nobody
converts, or an answer of another kind than the read expects.

**The model loop.** `AnalysisProofs!ModelOnlyReads`: for any providers, keys,
allowlists and model. The invariant adds that a client at work has accepted its list,
since a list that names a tool as both would let a writing tool through the read
door. `FailoverEarned`, from `FInv`, which states the property for every phase and
adds that the provider that is asked has a key and its attempt is within bounds; what
`GivesUp` needs is `GivingUpIsEarned`. `ConversationsComplete`, from `MInv`: before
position b of a conversation everything is answered, and after it come the calls of
one answer, with ids that differ, and the results of the first k of them, while the
calls still pending are the others. The ids of an answer are used before or not; it
is the order that tells the results apart.

**The analysis.** `AnalysisProofs!NothingLostInSilence`, `FreshQuotesAreJudged`,
`FiltersAgree` and `OrderKeepsToJudgement`, from one invariant, `IInv`: the proposal
is well-formed, and some one board quoted since then gives the spread, the verdict
and the limit (`JudgedFrom`); the diagnosis and the table fit the response they were
made from. `FiltersAgree` presumes that the delta window lies within the cap of
Rule 1 (`AnalysisAssumption`), as the shipped configuration has it.
`RanksHavePopulations` needs no invariant but the types: whatever the response, the
closes and the samples are, the part of the population above today's volatility is
the whole less what the rank counts (`RankCounts`), so a regime is that of a share of
the population (`RegimeIsFounded`).

**The journal and its copies.** `ConsoleProofs!RecordsAreKept`, from `JournalInv`. It
says that an open line has one writer at most, who is half way and not yet done with
it, and that whoever is about to write knows whether the line is open
(`OneAtTheOpenLine`); this is what one overtaken or failed check of the file's end
takes away. And it says that what is read back are the completed writes in their order,
none of them twice, and no record still to be written (`ReadsAreWrites`).
`NothingIsTakenBack` and `ViewsAreGenuine`, from `PublicationInv`: every copy, whether
a worktree's, the branch's or the remote's, is an earlier state that the journal continues
(`CopiesAreOfTheJournal`), and as long as no two script runs have overlapped each of
them brings the branch no less than it has (`OnePushAtATime`).

**The dashboard.** `ConsoleProofs!TyposSurface`, `RowsAgree`, `OrdersCounted` and
`TurnsShown`. `StepOf` says once what the twelve actions of a run do to the journal,
the orders and the place of the run, and each theorem adds an invariant of its own.
`VerdictsAgree`: every verdict in the journal agrees with the limit that is journalled
with it, or its size came to nothing, so it does not matter what the files hold by the
time it is shown. It rests on what the sizing returns (`SizeFacts`, `CheckFacts`):
at a size of at least one Rule 2 has not failed, and Rule 3 has failed only for a
delta that is over its limit. `Booked`:
the orders are the submissions journalled, less the duplicates, and those placed and
not journalled yet, but for a failure or a timeout each. `TurnsInv`: a run takes its
turns on an underlying one after the other, none on one that is to come, and none on
one it has journalled an outcome of. Counting them from either end
(`FromBothEnds`) gives the place at which each is printed. It needs that an underlying is named once in a
run's list (`ConsoleAssumption`); named twice, the turns of both visits would stand
under the first outcome.

The assumptions are the named ones of the modules, which TLC evaluates for the
instances above: thresholds are natural numbers, offers are spreads, levels are
natural numbers with 0 among them, the short strike of a spread lies above its long
one, and the like.

Model-checked only are `RunsEnd`, `AnalysisEnds`, `FloorIsServed` and
`PublishingCatchesUp`: liveness under fairness, which the prover cannot do. Every
other property of a passing run is stated by a theorem.

## 5. What is not modelled, and why

Texts, formatting, logging and layout, of which most of the dashboard consists
(`dashboard_theme.py` is markup); prompts; the JSON schema; the spikes, the demo
and the tests. The HTTP payloads of the three providers and the starting of the
MCP server are formats of other parties. Theta, vega and gamma totals are only
displayed. The conversions of single fields in the adapters, and the parsing of a
contract's symbol, are characters; what depends on them, the root of a symbol
against its first three letters, is in `Snapshot`. `append_iv_sample`,
`load_recent` and the spread builder's ranking are called by no part of the agent.
The statistics of the journal other than the count of orders are sums over one
event each. The thresholds themselves are constants of the modules, within what
`Configuration` lets through.

## 6. Plan

1. Market hours: an order placed after the bell, as a run of its own.
