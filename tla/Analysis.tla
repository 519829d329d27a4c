------------------------------ MODULE Analysis ------------------------------
(***************************************************************************)
(* The analysis of one underlying (analyse_ticker in agent/orchestrator.py)*)
(* against a market that moves: the chain is fetched for the journal, the  *)
(* model looks at a chain of its own and proposes, the proposal is parsed  *)
(* (agent/tools.py), its legs are quoted afresh and priced, the gate       *)
(* judges, and a limit order goes out.  What the orders then do is module  *)
(* TradingCycle's business.                                                *)
(***************************************************************************)
EXTENDS OptionChain, ImpliedVolatility

CONSTANTS
    Ticker,         \* the underlying analysed
    SpotPrice,
    Boards,         \* the boards the market moves between
    Past,           \* the closes before each, and the recorded IV samples
    Arguments,      \* what the model may call propose_spread with
    Portfolios,     \* the snapshots a run may have taken
    LimitMode,      \* limit_price_mode
    Slippage        \* limit_price_slippage, in cents

\* A board quotes contracts; a call of propose_spread may leave anything out.
BoardType(b) ==
    /\ IsFiniteSet(DOMAIN b) /\ DOMAIN b \subseteq PositionType
    /\ \A c \in DOMAIN b :
          /\ b[c].bid \in Nat /\ b[c].ask \in Nat /\ b[c].delta \in Amount
          /\ b[c].iv \in Int \cup {Unranked}

ArgumentType ==
    [ticker : STRING, expiry : Amount, short : Amount, long : Amount, contracts : Amount]

ASSUME AnalysisAssumption ==
    /\ \A b \in Boards :
          /\ BoardType(b)
          /\ Past[b].closes \in Seq(Nat)
          /\ Past[b].history \in Seq([ticker : STRING, iv : Nat])
    /\ Arguments \subseteq ArgumentType
    /\ Portfolios \subseteq PortfolioType
    /\ LimitMode \in {"mid", "conservative"} /\ Slippage \in Nat
    \* The window the candidates are taken from lies within Rule 1's cap, as
    \* config/options_config.json and config/risk_config.json have it.
    /\ -MaxAbsDelta <= DeltaLow /\ DeltaHigh <= MaxAbsDelta

VARIABLES
    stage,     \* "context", "research", "validate", "execute", "done"
    board,     \* what the market quotes
    portfolio, \* the run's snapshot
    requested, \* the contracts market_context asked for
    chain,     \* the response, by contract
    diagnosis, \* its bracket diagnosis, in the journal
    volatility, \* the IV rank journalled with it
    seen,      \* the response the model has last looked at
    shown,     \* the rows of it that the model was given
    proposal,  \* the parsed proposal
    since,     \* history: what the market quoted since the proposal
    spread,    \* the priced spread the gate has seen
    verdict,   \* the gate's decision
    order,     \* the order that went out
    outcome

contextVars == <<requested, chain, diagnosis, volatility>>
researchVars == <<seen, shown>>
tradeVars == <<proposal, spread, verdict, order>>
vars == <<stage, board, portfolio, contextVars, researchVars, tradeVars, since, outcome>>

Request == ChainRequest(Ticker, SpotPrice, DOMAIN board)

-----------------------------------------------------------------------------

MarketContext ==
    /\ stage = "context"
    /\ stage' = "research"
    /\ requested' = Request
    /\ \E response \in Responses(board, Request) :
          /\ chain' = response
          /\ diagnosis' = DiagnoseBracket(response)
          /\ \E atm \in AtmImpliedVolatilities(response, SpotPrice) :
                volatility' =
                    ComputeIvRank(Ticker, atm, Past[board].closes, Past[board].history)
    /\ UNCHANGED <<board, portfolio, researchVars, tradeVars, since, outcome>>

\* The model reads a chain, with its own arguments: some keep to the bracket and
\* the expiries, some do not.  The orchestrator compacts the response.
ReadChain ==
    /\ stage = "research"
    /\ \E asked \in {Request, DOMAIN board} : \E response \in Responses(board, asked) :
          /\ seen' = response
          /\ \E rows \in Summaries(response) : shown' = rows
    /\ UNCHANGED <<stage, board, portfolio, contextVars, tradeVars, since, outcome>>

Ends(result) == stage' = "done" /\ outcome' = result

\* parse_proposal: present, positive, the right way round, at least one contract.
\* Nothing ties it to the rows the model was shown, or to this underlying.
WellFormed(a) ==
    /\ \A field \in DOMAIN a : a[field] # Missing
    /\ a.short > 0 /\ a.long > 0
    /\ a.long < a.short
    /\ a.contracts >= 1

Propose(a) ==
    /\ stage = "research"
    /\ \/ /\ WellFormed(a)
          /\ proposal' = a /\ since' = {board}
          /\ stage' = "validate" /\ UNCHANGED outcome
       \/ /\ ~ WellFormed(a)
          /\ Ends("malformed_proposal") /\ UNCHANGED <<proposal, since>>
    /\ UNCHANGED <<board, portfolio, contextVars, researchVars, spread, verdict, order>>

LegOf(a, strike) == [ticker |-> a.ticker, expiry |-> a.expiry, strike |-> strike]
ShortLeg == LegOf(proposal, proposal.short)
LongLeg == LegOf(proposal, proposal.long)

PricedFrom(b) == PricedSpread(b, ShortLeg, LongLeg)

\* Twice the credit between the legs' mids.
TwiceMidCredit(b) ==
    (b[ShortLeg].bid + b[ShortLeg].ask) - (b[LongLeg].bid + b[LongLeg].ask)

Tradeable(b) ==
    /\ \A leg \in {ShortLeg, LongLeg} :
          leg \in DOMAIN b /\ TwoSided(b[leg]) /\ b[leg].delta # Missing
    /\ PricedFrom(b).netCredit > 0

\* Mutant: legs are priced from the chain fetched at the start of the analysis.
QuotesOfContext == IF {ShortLeg, LongLeg} \subseteq DOMAIN chain THEN chain ELSE board

\* Mutant: the credit between the mids with its sign flipped.
LimitsFlipped(b) == {IF -TwiceMidCredit(b) > 2 * (Slippage + 1) THEN -TwiceMidCredit(b) \div 2 - Slippage ELSE 1}

\* compute_limit_price: from the mid, or from the judged credit, and some of it
\* given back.  Half a cent goes either way, by its binary fraction.
Limits(b) ==
    LET twice == (IF LimitMode = "mid" THEN TwiceMidCredit(b)
                  ELSE 2 * PricedFrom(b).netCredit) - 2 * Slippage
    IN  IF twice < 2 THEN {1} ELSE {twice \div 2, (twice + 1) \div 2}

FreshQuotes == board

\* validate_legs on fresh quotes, whose read may fail, and without another wait
\* the gate.  An approval is not executed once the run's cap is reached.
ValidateLegs ==
    LET priced == PricedFrom(FreshQuotes)
        decision == RiskGateCheck(priced, portfolio, proposal.contracts)
    IN  /\ stage = "validate"
        /\ \/ Ends("invalid_proposal")
              /\ UNCHANGED <<spread, verdict, order>>
           \/ /\ Tradeable(FreshQuotes)
              /\ spread' = priced /\ verdict' = decision
              /\ \/ /\ ~ decision.approved /\ Ends("rejected") /\ UNCHANGED order
                 \/ /\ decision.approved /\ Ends("approved_not_executed") /\ UNCHANGED order
                 \/ /\ decision.approved /\ stage' = "execute" /\ UNCHANGED outcome
                    /\ \E limit \in Limits(FreshQuotes) :
                          order' = [legs |-> <<ShortLeg, LongLeg>>, limit |-> limit,
                                    contracts |-> decision.contracts]
        /\ UNCHANGED <<board, portfolio, contextVars, researchVars, proposal, since>>

\* The order id is looked up, and the placement goes out.
Execute ==
    /\ stage = "execute"
    /\ Ends("submitted")
    /\ UNCHANGED <<board, portfolio, contextVars, researchVars, tradeVars, since>>

MoveQuotes ==
    /\ board' \in Boards \ {board}
    /\ since' = IF stage = "validate" THEN since \cup {board'} ELSE since
    /\ UNCHANGED <<stage, portfolio, contextVars, researchVars, tradeVars, outcome>>

Init ==
    /\ stage = "context" /\ outcome = "none"
    /\ board \in Boards /\ portfolio \in Portfolios
    /\ requested = {} /\ chain = <<>> /\ diagnosis = "none" /\ volatility = Missing
    /\ seen = <<>> /\ shown = {}
    /\ proposal = Missing /\ since = {}
    /\ spread = Missing /\ verdict = Missing /\ order = Missing

Next ==
    \/ MarketContext \/ ReadChain
    \/ \E a \in Arguments : Propose(a)
    \/ ValidateLegs \/ Execute
    \/ MoveQuotes

Spec == Init /\ [][Next]_vars

-----------------------------------------------------------------------------
(***************************************************************************)
(* Properties.                                                             *)
(***************************************************************************)

\* "The market" is only blamed for an empty candidate list when the response
\* left nothing out that was asked for, and the request only when the response
\* was at its limit or nowhere near the window (adapters.py:248-261).
DiagnosisFits ==
    /\ diagnosis = "no_candidates_in_delta_window" => DOMAIN chain = requested
    /\ diagnosis = "bracket_too_narrow" =>
          Cardinality(DOMAIN chain) = Limit \/ \A c \in DOMAIN chain : ~ InWindow(chain[c])

\* "Every row is a strike it could legitimately choose", and the rows kept are
\* "the strikes the strategy actually wants" (adapters.py:441-486): a candidate
\* by the calculator's filters is only left out for others in the window.
CandidatesAreShown ==
    Opportunities(seen) \subseteq shown \/ \A c \in shown : InWindow(seen[c])

\* What is left out on the way from the listed contracts to the model's table,
\* by the request, the limit, the filters and the cap on rows, is neither a
\* candidate lost in silence nor blamed on the wrong cause.
NothingIsLostInSilence == DiagnosisFits /\ CandidatesAreShown

\* Everything the gate judged was quoted at one moment since the proposal was
\* made, whatever the model had seen before: "a fresh snapshot rather than the
\* chain the model saw" (orchestrator.py:519-520).
JudgedOnFreshQuotes ==
    spread # Missing => \E b \in since : Tradeable(b) /\ spread = PricedFrom(b)

\* The filters in front of the gate agree with it.  A short leg that was a
\* candidate is not refused for its delta or its expiry as long as its delta is
\* the one it was shown with.  And "there is no reason to hand [the gate] work that
\* cannot pass" (spread_builder.py:54-56): whatever the spread builder makes of the
\* chain passes the rules that look at the spread and the NAV only, but for Rule 4's
\* minimum credit.
CandidatesPass ==
    verdict # Missing /\ ShortLeg \in Opportunities(seen) /\ spread.sellDelta = seen[ShortLeg].delta
        => verdict.failing \cap {"R1_delta", "R6_min_dte", "R7_max_dte"} = {}

BuiltSpreadsPass ==
    \A s \in BuildSpreads(chain, portfolio.nav) :
        FailingRules(s, portfolio, Missing) \cap {"R1_delta", "R2_notional", "R6_min_dte", "R7_max_dte"} = {}

FiltersAgreeWithGate == CandidatesPass /\ BuiltSpreadsPass

Uncrossed(b) == \A leg \in {ShortLeg, LongLeg} : b[leg].bid <= b[leg].ask

\* The order keeps to what the gate judged: at its limit price the whole position
\* risks no more than Rule 2 allows and brings no less than Rule 4 asks for, but
\* for the slippage given back.  It takes quotes that are not crossed, which
\* validate_legs does not check.
OrderWithinJudgement ==
    order # Missing /\ (\A b \in since : Tradeable(b) /\ spread = PricedFrom(b) => Uncrossed(b)) =>
        LET atRisk == 100 * (spread.sell - spread.buy) - order.limit - Slippage
        IN  /\ order.limit >= MinCredit - Slippage
            /\ 100 * (order.contracts * atRisk) <= portfolio.nav * MaxLossPct

\* What an IV rank is ranked against, by the source journalled with it.
Population(source, past) ==
    IF source = "iv_history" THEN LoadIvHistory(past.history, Ticker)
    ELSE LastOf(RealizedVolatilitySeries(past.closes))

Above(atm, population) == Cardinality({i \in DOMAIN population : population[i] > atm})

\* "No downstream consumer can mistake the proxy for the real statistic"
\* (iv.py:192): a rank comes with the population its source names, history only
\* with enough samples of this very underlying; a regime is only high or low when
\* enough of that population lies at, or above, today's volatility; and today's is
\* that of the listed contracts nearest the money, unless the response was cut off
\* at its limit.
RanksAreFounded ==
    [][stage = "context" /\ stage' = "research" =>
         LET got == volatility'
             population == Population(got.source, Past[board])
             above == 100 * Above(got.atm, population)
             size == Size(population)
         IN  /\ got.source = "unavailable" <=> got.regime = "UNKNOWN"
             /\ got.source # "unavailable" => size > 0
             /\ got.source = "iv_history" => size >= MinSamples
             /\ got.source = "rv_proxy" =>
                   Size(LoadIvHistory(Past[board].history, Ticker)) < MinSamples
             /\ got.regime = "HIGH_IV" => above <= (100 - HighMin) * size
             /\ got.regime = "LOW_IV" => above >= (100 - LowMax) * size
             /\ Cardinality(DOMAIN chain') < Limit =>
                   got.atm \in AtmImpliedVolatilities([c \in Request |-> board[c]], SpotPrice)]_vars
=============================================================================
