----------------------------- MODULE OptionChain -----------------------------
(***************************************************************************)
(* What an analysis reads of the option market: the request for a chain    *)
(* (agent/adapters.py), the candidates in the response                     *)
(* (agent/options_calculator.py), the diagnosis of a response without any  *)
(* the table the model is shown instead of it, and the spreads             *)
(* agent/spread_builder.py makes of the candidates.                        *)
(*                                                                         *)
(* A board says what every listed put quotes.  Strikes are whole dollars,  *)
(* bids and asks are cents a share, which are dollars a contract, with 0   *)
(* for a side that does not quote; deltas are hundredths, Missing for a    *)
(* contract that comes without Greeks.  An expiry is its distance in days. *)
(***************************************************************************)
EXTENDS RiskGate, FiniteSets

CONSTANTS
    DeltaLow, DeltaHigh, \* spread_builder.delta_range
    MaxWidthPct,         \* max_bid_ask_spread_pct
    BracketPct,          \* chain.strike_bracket_pct
    MinWidth, MaxWidth,  \* min_spread_width, max_spread_width
    Limit,               \* chain.limit
    ShownLimit           \* rows summarise_chain keeps

\* load_config: delta_range is [low, high].
ASSUME ChainAssumption ==
    /\ DeltaLow \in Int /\ DeltaHigh \in Int /\ DeltaLow <= DeltaHigh
    /\ MaxWidthPct \in Nat /\ BracketPct \in 0 .. 100
    /\ MinWidth \in Nat \ {0} /\ MaxWidth \in Nat
    /\ Limit \in Nat \ {0} /\ ShownLimit \in Nat \ {0}

HasGreeks(chain) == {c \in DOMAIN chain : chain[c].delta # Missing}

InWindow(quote) == quote.delta # Missing /\ DeltaLow <= quote.delta /\ quote.delta <= DeltaHigh

TwoSided(quote) == quote.bid > 0 /\ quote.ask > 0

-----------------------------------------------------------------------------

\* chain_request: the strikes within the bracket, the expiries the gate takes.
ChainRequest(ticker, spot, listed) ==
    {c \in listed :
        /\ c.ticker = ticker
        /\ 100 * c.strike >= spot * (100 - BracketPct)
        /\ 100 * c.strike <= spot * (100 + BracketPct)
        /\ MinDte <= c.expiry /\ c.expiry <= MaxDte}

\* The server answers with the lowest strikes first, and stops at the limit.
Responses(board, request) ==
    LET size == Lesser(Limit, Cardinality(request))
    IN  {[c \in returned |-> board[c]] :
            returned \in {x \in SUBSET request :
                /\ Cardinality(x) = size
                /\ \A c \in x, d \in request \ x : c.strike <= d.strike}}

\* calculate_options_opportunities: the contracts a short leg may be built on.
Opportunities(chain) ==
    {c \in HasGreeks(chain) :
        LET quote == chain[c]
        IN  /\ InWindow(quote)
            /\ MinDte <= c.expiry /\ c.expiry <= MaxDte
            /\ TwoSided(quote)
            /\ 200 * (quote.ask - quote.bid) <= MaxWidthPct * (quote.bid + quote.ask)}

Missed(chain) ==
    LET deltas == {chain[c].delta : c \in HasGreeks(chain)}
    IN  (\A d \in deltas : d > DeltaHigh) \/ (\A d \in deltas : d < DeltaLow)

\* Mutant: a response of exactly the limit counts as complete.
DiagnoseBelowLimit(chain) ==
    IF Opportunities(chain) # {} THEN "ok"
    ELSE IF Cardinality(DOMAIN chain) > Limit \/ Missed(chain) THEN "bracket_too_narrow"
    ELSE "no_candidates_in_delta_window"

\* diagnose_bracket: was it the market or the request?  The deltas of all
\* expiries are looked at together; with none at all, the request.
DiagnoseBracket(chain) ==
    IF Opportunities(chain) # {} THEN "ok"
    ELSE IF Cardinality(DOMAIN chain) >= Limit \/ Missed(chain) THEN "bracket_too_narrow"
    ELSE "no_candidates_in_delta_window"

\* Twice the distance from the middle of the window.
Distance(quote) == Abs(2 * quote.delta - (DeltaLow + DeltaHigh))

\* summarise_chain: the rows the model is shown, nearest to the window first;
\* which of two equally near ones comes first depends on the response's order.
Summaries(chain) ==
    LET rows == HasGreeks(chain)
    IN  {x \in SUBSET rows :
            /\ Cardinality(x) = Lesser(ShownLimit, Cardinality(rows))
            /\ \A c \in x, d \in rows \ x : Distance(chain[c]) <= Distance(chain[d])}

-----------------------------------------------------------------------------

\* A spread sold at the short leg's bid and bought at the long leg's ask, as the
\* gate is to see it.  Sold is subtracted, so the delta of the spread is
\* positive; a long leg without Greeks counts as none.
PricedSpread(chain, short, long) ==
    LET netCredit == chain[short].bid - chain[long].ask
    IN  [ticker |-> short.ticker, expiry |-> short.expiry,
         sell |-> short.strike, buy |-> long.strike,
         sellDelta |-> chain[short].delta,
         netDelta |-> Or(chain[long].delta, 0) - chain[short].delta,
         netCredit |-> netCredit,
         maxLoss |-> 100 * (short.strike - long.strike) - netCredit,
         dte |-> short.expiry]

\* Mutant: what does not fit the budget is left to the gate.
InAnyBudget(spread, nav) == spread.maxLoss > 0

InBudget(spread, nav) == spread.maxLoss > 0 /\ Affordable(spread, [nav |-> nav]) >= 1

\* build_spreads: each candidate with a long leg of every whole-dollar width.  The
\* order in which they are ranked, and how many are returned, are left out.
BuildSpreads(chain, nav) ==
    LET pairs == {p \in Opportunities(chain) \X DOMAIN chain :
            /\ p[2].ticker = p[1].ticker /\ p[2].expiry = p[1].expiry
            /\ p[1].strike - p[2].strike \in MinWidth .. MaxWidth
            /\ chain[p[2]].ask > 0}
    IN  {spread \in {PricedSpread(chain, p[1], p[2]) : p \in pairs} :
            spread.netCredit > 0 /\ InBudget(spread, nav)}
=============================================================================
