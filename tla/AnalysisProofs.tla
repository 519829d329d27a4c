--------------------------- MODULE AnalysisProofs ---------------------------
(***************************************************************************)
(* The analysis of one underlying, its market side (module Analysis) and   *)
(* its conversation with the model (module ModelLoop).                     *)
(*                                                                         *)
(* For every market, every argument the model may call propose_spread with *)
(* and every portfolio: nothing is lost in silence on the way to the       *)
(* model's table, what the gate judges was quoted since the proposal, the  *)
(* filters agree with the gate, the order keeps to the judgement, and a    *)
(* rank of the implied volatility rests on a population.                   *)
(*                                                                         *)
(* For every chain of providers, every allowlist, every failure and        *)
(* whatever the model comes up with: the read door holds, failover is      *)
(* earned, and every request is one that a provider accepts.               *)
(***************************************************************************)
EXTENDS Analysis, ModelLoop, RiskGateProofs, FiniteSetTheorems, SequenceTheorems,
        WellFoundedInduction

Unjudged == spread = Missing /\ verdict = Missing /\ order = Missing

Proposed == proposal \in Arguments /\ WellFormed(proposal)

\* The quotes of board b are what the gate judged, and the order came from.
JudgedFrom(b) ==
    /\ Tradeable(b) /\ spread = PricedFrom(b)
    /\ verdict = RiskGateCheck(spread, portfolio, proposal.contracts)
    /\ order # Missing =>
          /\ verdict.approved
          /\ order.contracts = verdict.contracts
          /\ order.limit \in Limits(b)

IInv ==
    /\ board \in Boards /\ since \subseteq Boards /\ portfolio \in Portfolios
    /\ BoardType(chain) /\ BoardType(seen)
    /\ stage \in {"context", "research", "validate"} => Unjudged
    /\ stage \in {"validate", "execute"} => Proposed
    /\ stage = "validate" => board \in since
    /\ Unjudged \/ (Proposed /\ \E b \in since : JudgedFrom(b))
    /\ DiagnosisFits /\ CandidatesAreShown

-----------------------------------------------------------------------------
(***************************************************************************)
(* The responses, and what is made of them.                                *)
(***************************************************************************)

LEMMA NothingQuoted == BoardType(<<>>) /\ DOMAIN <<>> = {}
<1>1. DOMAIN <<>> = {}
  OBVIOUS
<1> QED
  BY <1>1, FS_EmptySet DEF BoardType

\* A response quotes contracts that were asked for, as many as the limit lets through.
LEMMA ResponseFits ==
    ASSUME NEW b, BoardType(b), NEW request \in SUBSET DOMAIN b,
           NEW response \in Responses(b, request)
    PROVE  /\ BoardType(response) /\ DOMAIN response \subseteq request
           /\ IsFiniteSet(request) /\ Cardinality(request) \in Nat
           /\ Cardinality(DOMAIN response) = Lesser(Limit, Cardinality(request))
<1>1. PICK returned \in SUBSET request :
        /\ Cardinality(returned) = Lesser(Limit, Cardinality(request))
        /\ response = [c \in returned |-> b[c]]
  BY DEF Responses
<1>2. IsFiniteSet(request) /\ Cardinality(request) \in Nat
  BY FS_Subset, FS_CardinalityType DEF BoardType
<1>3. IsFiniteSet(returned)
  BY <1>2, FS_Subset
<1>4. DOMAIN response = returned /\ \A c \in returned : response[c] = b[c]
  BY <1>1
<1>5. BoardType(response)
  BY <1>3, <1>4 DEF BoardType
<1> QED
  BY <1>1, <1>2, <1>4, <1>5

\* The request or the market, whichever it was (diagnose_bracket).
LEMMA DiagnosisOfResponse ==
    ASSUME NEW b, BoardType(b), NEW request \in SUBSET DOMAIN b,
           NEW response \in Responses(b, request)
    PROVE  /\ DiagnoseBracket(response) = "no_candidates_in_delta_window"
                => DOMAIN response = request
           /\ DiagnoseBracket(response) = "bracket_too_narrow" =>
                \/ Cardinality(DOMAIN response) = Limit
                \/ \A c \in DOMAIN response : ~ InWindow(response[c])
<1>1. /\ BoardType(response) /\ DOMAIN response \subseteq request
      /\ IsFiniteSet(request) /\ Cardinality(request) \in Nat
      /\ Cardinality(DOMAIN response) = Lesser(Limit, Cardinality(request))
      /\ Limit \in Nat
  BY ResponseFits, ChainAssumption
<1>2. ASSUME DiagnoseBracket(response) = "no_candidates_in_delta_window"
      PROVE  DOMAIN response = request
  <2>1. ~ Cardinality(DOMAIN response) >= Limit
    BY <1>2 DEF DiagnoseBracket
  <2>2. Cardinality(DOMAIN response) = Cardinality(request)
    BY <1>1, <2>1 DEF Lesser
  <2> QED
    BY <1>1, <2>2, FS_Subset
<1>3. ASSUME DiagnoseBracket(response) = "bracket_too_narrow",
             Cardinality(DOMAIN response) # Limit,
             NEW c \in DOMAIN response, InWindow(response[c])
      PROVE  FALSE
  <2>1. ~ Cardinality(DOMAIN response) >= Limit
    BY <1>1, <1>3 DEF Lesser
  <2>2. Missed(response)
    BY <1>3, <2>1 DEF DiagnoseBracket
  <2>3. response[c].delta \in Int /\ DeltaLow <= response[c].delta /\ response[c].delta <= DeltaHigh
    BY <1>1, <1>3 DEF InWindow, BoardType, Amount
  <2>4. c \in HasGreeks(response)
    BY <1>3 DEF HasGreeks, InWindow
  <2>5. response[c].delta > DeltaHigh \/ response[c].delta < DeltaLow
    BY <2>2, <2>4 DEF Missed
  <2> QED
    BY <2>3, <2>5, ChainAssumption
<1> QED
  BY <1>2, <1>3

\* What is nearer the window's middle than one in the window is in it as well.
LEMMA NearerIsInWindow ==
    ASSUME NEW q, NEW r, q.delta \in Int, r.delta \in Int,
           InWindow(r), Distance(q) <= Distance(r)
    PROVE  InWindow(q)
<1>1. DeltaLow <= r.delta /\ r.delta <= DeltaHigh /\ DeltaLow \in Int /\ DeltaHigh \in Int
  BY ChainAssumption DEF InWindow
<1>2. DeltaLow <= q.delta /\ q.delta <= DeltaHigh
  BY <1>1 DEF Distance, Abs
<1> QED
  BY <1>2, GateAssumption DEF InWindow

\* Rows are kept nearest first (summarise_chain).
LEMMA SummaryShowsCandidates ==
    ASSUME NEW response, BoardType(response), NEW rows \in Summaries(response)
    PROVE  Opportunities(response) \subseteq rows \/ \A c \in rows : InWindow(response[c])
<1> SUFFICES ASSUME NEW o \in Opportunities(response), o \notin rows, NEW c \in rows
             PROVE  InWindow(response[c])
  OBVIOUS
<1>1. o \in HasGreeks(response) /\ InWindow(response[o])
  BY DEF Opportunities
<1>2. c \in HasGreeks(response) /\ Distance(response[c]) <= Distance(response[o])
  BY <1>1 DEF Summaries
<1>3. response[c].delta \in Int /\ response[o].delta \in Int
  BY <1>1, <1>2 DEF HasGreeks, BoardType, Amount
<1> QED
  BY <1>1, <1>2, <1>3, NearerIsInWindow

-----------------------------------------------------------------------------
(***************************************************************************)
(* The invariant.                                                          *)
(***************************************************************************)

LEMMA InitIInv == Init => IInv
<1> SUFFICES ASSUME Init PROVE IInv
  OBVIOUS
<1>1. stage = "context" /\ Unjudged /\ since = {} /\ diagnosis = "none" /\ seen = <<>> /\ chain = <<>>
  BY DEF Init, Unjudged
<1>2. board \in Boards /\ portfolio \in Portfolios
  BY DEF Init
<1>3. DiagnosisFits
  BY <1>1 DEF DiagnosisFits
<1>4. CandidatesAreShown
  BY <1>1, NothingQuoted DEF CandidatesAreShown, Opportunities, HasGreeks
<1> QED
  BY <1>1, <1>2, <1>3, <1>4, NothingQuoted DEF IInv

LEMMA MarketContextIInv == ASSUME IInv, MarketContext PROVE IInv'
<1>1. /\ stage = "context" /\ stage' = "research" /\ requested' = Request /\ Unjudged
      /\ UNCHANGED <<board, portfolio, seen, shown, since>>
      /\ spread' = spread /\ verdict' = verdict /\ order' = order
  BY DEF MarketContext, IInv, researchVars, tradeVars
<1>2. PICK response \in Responses(board, Request) :
        chain' = response /\ diagnosis' = DiagnoseBracket(response)
  BY DEF MarketContext
<1>3. BoardType(board) /\ Request \in SUBSET DOMAIN board
  BY AnalysisAssumption DEF IInv, Request, ChainRequest
<1>4. BoardType(response)
  BY <1>3, ResponseFits
<1>5. DiagnosisFits'
  <2>1. PICK request \in SUBSET DOMAIN board : request = Request
    BY <1>3
  <2>2. /\ DiagnoseBracket(response) = "no_candidates_in_delta_window"
             => DOMAIN response = request
        /\ DiagnoseBracket(response) = "bracket_too_narrow" =>
             \/ Cardinality(DOMAIN response) = Limit
             \/ \A c \in DOMAIN response : ~ InWindow(response[c])
    BY <1>2, <1>3, <2>1, DiagnosisOfResponse
  <2> QED
    BY <1>1, <1>2, <2>1, <2>2 DEF DiagnosisFits
<1>6. CandidatesAreShown'
  BY <1>1 DEF IInv, CandidatesAreShown
<1> QED
  BY <1>1, <1>2, <1>4, <1>5, <1>6 DEF IInv, Unjudged

LEMMA ReadChainIInv == ASSUME IInv, ReadChain PROVE IInv'
<1>1. /\ stage = "research" /\ stage' = stage /\ Unjudged
      /\ UNCHANGED <<board, portfolio, requested, chain, diagnosis, since>>
      /\ spread' = spread /\ verdict' = verdict /\ order' = order
  BY DEF ReadChain, IInv, contextVars, tradeVars
<1>2. PICK asked \in {Request, DOMAIN board} : \E response \in Responses(board, asked) :
        seen' = response /\ \E rows \in Summaries(response) : shown' = rows
  BY DEF ReadChain
<1>3. BoardType(board) /\ asked \in SUBSET DOMAIN board
  BY AnalysisAssumption DEF IInv, Request, ChainRequest
<1>4. PICK response \in Responses(board, asked) :
        seen' = response /\ \E rows \in Summaries(response) : shown' = rows
  BY <1>2
<1>5. BoardType(response)
  BY <1>3, ResponseFits
<1>6. CandidatesAreShown'
  BY <1>4, <1>5, SummaryShowsCandidates DEF CandidatesAreShown
<1>7. DiagnosisFits'
  BY <1>1 DEF IInv, DiagnosisFits
<1> QED
  BY <1>1, <1>4, <1>5, <1>6, <1>7 DEF IInv, Unjudged

\* What the diagnosis and the table rest on stays after the proposal.
LEMMA ResearchKept ==
    ASSUME IInv, UNCHANGED <<contextVars, researchVars>>
    PROVE  BoardType(chain') /\ BoardType(seen') /\ DiagnosisFits' /\ CandidatesAreShown'
  BY DEF IInv, contextVars, researchVars, DiagnosisFits, CandidatesAreShown

LEMMA ProposeIInv == ASSUME IInv, NEW a \in Arguments, Propose(a) PROVE IInv'
<1>1. BoardType(chain') /\ BoardType(seen') /\ DiagnosisFits' /\ CandidatesAreShown'
  BY ResearchKept DEF Propose
<1>2. /\ stage = "research" /\ Unjudged /\ UNCHANGED <<board, portfolio>>
      /\ spread' = spread /\ verdict' = verdict /\ order' = order
  BY DEF Propose, IInv
<1>3. /\ stage' = "validate" \/ stage' = "done"
      /\ stage' = "validate" => proposal' = a /\ since' = {board} /\ WellFormed(a)
      /\ stage' = "done" => since' = since
  BY DEF Propose, Ends
<1>4. board \in Boards /\ since \subseteq Boards /\ portfolio \in Portfolios
  BY DEF IInv
<1>5. since' \subseteq Boards
  BY <1>3, <1>4
<1>6. stage' = "validate" => Proposed' /\ board' \in since'
  BY <1>2, <1>3 DEF Proposed
<1>7. Unjudged'
  BY <1>2 DEF Unjudged
<1> QED
  BY <1>1, <1>2, <1>3, <1>4, <1>5, <1>6, <1>7 DEF IInv

LEMMA ValidateIInv == ASSUME IInv, ValidateLegs PROVE IInv'
<1>1. BoardType(chain') /\ BoardType(seen') /\ DiagnosisFits' /\ CandidatesAreShown'
  BY ResearchKept DEF ValidateLegs
<1>2. /\ stage = "validate" /\ Unjudged /\ Proposed /\ board \in since
      /\ UNCHANGED <<board, portfolio, proposal, since>>
      /\ stage' \in {"done", "execute"}
  BY DEF ValidateLegs, IInv, Ends
<1>3. Proposed'
  BY <1>2 DEF Proposed
<1>4. Unjudged' \/ \E b \in since' : JudgedFrom(b)'
  <2>1. CASE UNCHANGED <<spread, verdict, order>>
    BY <1>2, <2>1 DEF Unjudged
  <2>2. CASE /\ Tradeable(board)
             /\ spread' = PricedFrom(board)
             /\ verdict' = RiskGateCheck(PricedFrom(board), portfolio, proposal.contracts)
             /\ \/ order' = order
                \/ /\ verdict'.approved
                   /\ \E limit \in Limits(board) :
                        order' = [legs |-> <<ShortLeg, LongLeg>>, limit |-> limit,
                                  contracts |-> verdict'.contracts]
    <3>1. PICK b \in since : b = board
      BY <1>2
    <3>2. Tradeable(b)' /\ spread' = PricedFrom(b)'
      BY <1>2, <2>2, <3>1 DEF Tradeable, PricedFrom, ShortLeg, LongLeg
    <3>3. Limits(b)' = Limits(b)
      BY <1>2 DEF Limits, TwiceMidCredit, PricedFrom, ShortLeg, LongLeg
    <3>4. verdict' = RiskGateCheck(spread', portfolio', proposal'.contracts)
      BY <1>2, <2>2
    <3>5. order' # Missing =>
            verdict'.approved /\ order'.contracts = verdict'.contracts /\ order'.limit \in Limits(b)
      <4>1. CASE order' = order
        BY <1>2, <4>1 DEF Unjudged
      <4>2. ASSUME verdict'.approved, NEW limit \in Limits(board),
                   order' = [legs |-> <<ShortLeg, LongLeg>>, limit |-> limit,
                             contracts |-> verdict'.contracts]
            PROVE  order'.contracts = verdict'.contracts /\ order'.limit \in Limits(b)
        BY <3>1, <4>2
      <4> QED
        BY <2>2, <4>1, <4>2
    <3>6. JudgedFrom(b)'
      BY <3>2, <3>3, <3>4, <3>5 DEF JudgedFrom
    <3> QED
      BY <1>2, <3>6
  <2> QED
    BY <2>1, <2>2 DEF ValidateLegs, FreshQuotes
<1>5. since' \subseteq Boards /\ board' \in Boards /\ portfolio' \in Portfolios
  BY <1>2 DEF IInv
<1> QED
  BY <1>1, <1>2, <1>3, <1>4, <1>5 DEF IInv

\* Once judged, a judgement stands; quotes that come later do not touch it.
LEMMA JudgementStands ==
    ASSUME IInv, UNCHANGED <<portfolio, contextVars, researchVars, tradeVars>>,
           since \subseteq since'
    PROVE  Unjudged' \/ (Proposed' /\ \E b \in since' : JudgedFrom(b)')
<1>1. UNCHANGED <<proposal, spread, verdict, order>>
  BY DEF tradeVars
<1>2. CASE Unjudged
  BY <1>1, <1>2 DEF Unjudged
<1>3. CASE Proposed /\ \E b \in since : JudgedFrom(b)
  <2>1. PICK b \in since : JudgedFrom(b)
    BY <1>3
  <2>2. /\ ShortLeg' = ShortLeg /\ LongLeg' = LongLeg
    BY <1>1 DEF ShortLeg, LongLeg
  <2>3. Tradeable(b)' /\ PricedFrom(b)' = PricedFrom(b) /\ Limits(b)' = Limits(b)
    BY <2>1, <2>2 DEF JudgedFrom, Tradeable, PricedFrom, Limits, TwiceMidCredit
  <2>4. JudgedFrom(b)'
    BY <1>1, <2>1, <2>3 DEF JudgedFrom
  <2>5. Proposed'
    BY <1>1, <1>3 DEF Proposed
  <2> QED
    BY <2>4, <2>5
<1> QED
  BY <1>2, <1>3 DEF IInv

LEMMA StepIInv == ASSUME IInv, [Next]_vars PROVE IInv'
<1>1. CASE MarketContext
  BY <1>1, MarketContextIInv
<1>2. CASE ReadChain
  BY <1>2, ReadChainIInv
<1>3. ASSUME NEW a \in Arguments, Propose(a) PROVE IInv'
  BY <1>3, ProposeIInv
<1>4. CASE ValidateLegs
  BY <1>4, ValidateIInv
<1>5. CASE Execute \/ MoveQuotes \/ UNCHANGED vars
  <2>1. UNCHANGED <<portfolio, contextVars, researchVars, tradeVars>>
    BY <1>5 DEF Execute, MoveQuotes, vars
  <2>2. /\ since \subseteq since' /\ since' \subseteq Boards /\ board' \in Boards
        /\ stage' = "validate" => board' \in since'
        /\ stage' = stage \/ stage' = "done"
    BY <1>5 DEF Execute, MoveQuotes, vars, Ends, IInv
  <2>3. Unjudged' \/ (Proposed' /\ \E b \in since' : JudgedFrom(b)')
    BY <2>1, <2>2, JudgementStands
  <2>4. BoardType(chain') /\ BoardType(seen') /\ DiagnosisFits' /\ CandidatesAreShown'
    BY <2>1, ResearchKept
  <2>5. stage' \in {"context", "research", "validate"} => Unjudged'
    BY <2>1, <2>2 DEF IInv, Unjudged, tradeVars
  <2>6. stage' \in {"validate", "execute"} => Proposed'
    BY <2>1, <2>2 DEF IInv, Proposed, tradeVars
  <2> QED
    BY <2>1, <2>2, <2>3, <2>4, <2>5, <2>6 DEF IInv
<1> QED
  BY <1>1, <1>2, <1>3, <1>4, <1>5 DEF Next

LEMMA IInvHolds == Spec => []IInv
  BY InitIInv, StepIInv, PTL DEF Spec

-----------------------------------------------------------------------------
(***************************************************************************)
(* The filters and the gate.                                               *)
(***************************************************************************)

\* A spread priced from a board is one the gate can take.
LEMMA PricedIsSpread ==
    ASSUME NEW b, BoardType(b), NEW short \in DOMAIN b, NEW long \in DOMAIN b,
           b[short].delta # Missing
    PROVE  LET s == PricedSpread(b, short, long)
           IN  /\ s \in SpreadType
               /\ s.sellDelta = b[short].delta /\ s.dte = short.expiry
               /\ s.sell = short.strike /\ s.buy = long.strike
               /\ s.netCredit = b[short].bid - b[long].ask
               /\ s.maxLoss = 100 * (short.strike - long.strike) - s.netCredit
<1>1. /\ short.ticker \in STRING /\ short.expiry \in Int
      /\ short.strike \in Nat \ {0} /\ long.strike \in Nat \ {0}
  BY DEF BoardType, PositionType
<1>2. /\ b[short].bid \in Nat /\ b[long].ask \in Nat
      /\ b[short].delta \in Int /\ b[long].delta \in Amount
  BY DEF BoardType, Amount
<1>3. Or(b[long].delta, 0) - b[short].delta \in Int
  BY <1>2, OrIsInt
<1> QED
  BY <1>1, <1>2, <1>3 DEF PricedSpread, SpreadType

\* A short leg from the candidates passes the rules about it alone.
LEMMA CandidatePasses ==
    ASSUME NEW s \in SpreadType, NEW q, InWindow(q), q.delta \in Int, s.sellDelta = q.delta,
           MinDte <= s.dte, s.dte <= MaxDte
    PROVE  R1_delta(s) /\ R6_min_dte(s) /\ R7_max_dte(s)
<1>1. /\ -MaxAbsDelta <= q.delta /\ q.delta <= MaxAbsDelta
      /\ MaxAbsDelta \in Nat /\ s.dte \in Int /\ MinDte \in Nat /\ MaxDte \in Nat
  BY AnalysisAssumption, ChainAssumption, GateAssumption DEF InWindow, SpreadType
<1> QED
  BY <1>1 DEF R1_delta, R6_min_dte, R7_max_dte, Abs

LEMMA CandidatesPassHolds == ASSUME IInv PROVE CandidatesPass
<1> SUFFICES ASSUME verdict # Missing, ShortLeg \in Opportunities(seen),
                    spread.sellDelta = seen[ShortLeg].delta
             PROVE  verdict.failing \cap {"R1_delta", "R6_min_dte", "R7_max_dte"} = {}
  BY DEF CandidatesPass
<1>1. PICK b \in since : JudgedFrom(b)
  BY DEF IInv, Unjudged
<1>2. BoardType(b) /\ Tradeable(b)
  BY <1>1, AnalysisAssumption DEF IInv, JudgedFrom
<1>3. /\ spread = PricedSpread(b, ShortLeg, LongLeg)
      /\ ShortLeg \in DOMAIN b /\ LongLeg \in DOMAIN b /\ b[ShortLeg].delta # Missing
  BY <1>1, <1>2 DEF JudgedFrom, Tradeable, PricedFrom
<1>4. spread \in SpreadType /\ spread.dte = ShortLeg.expiry
  BY <1>2, <1>3, PricedIsSpread
<1>5. /\ InWindow(seen[ShortLeg]) /\ seen[ShortLeg].delta \in Int
      /\ MinDte <= ShortLeg.expiry /\ ShortLeg.expiry <= MaxDte
  BY DEF Opportunities, HasGreeks, IInv, BoardType, Amount
<1>6. R1_delta(spread) /\ R6_min_dte(spread) /\ R7_max_dte(spread)
  BY <1>4, <1>5, CandidatePasses
<1>7. verdict.failing \in {{"R0_preconditions"}, FailingRules(spread, portfolio, proposal.contracts)}
  BY <1>1 DEF JudgedFrom, RiskGateCheck
<1> QED
  BY <1>6, <1>7, FailingRuleFails

LEMMA BuiltSpreadsPassHolds == ASSUME IInv PROVE BuiltSpreadsPass
<1> SUFFICES ASSUME NEW s \in BuildSpreads(chain, portfolio.nav)
             PROVE  FailingRules(s, portfolio, Missing)
                      \cap {"R1_delta", "R2_notional", "R6_min_dte", "R7_max_dte"} = {}
  BY DEF BuiltSpreadsPass
<1>1. BoardType(chain) /\ portfolio \in PortfolioType
  BY AnalysisAssumption DEF IInv
<1>2. PICK p \in Opportunities(chain) \X DOMAIN chain : s = PricedSpread(chain, p[1], p[2])
  BY DEF BuildSpreads
<1>3. InBudget(s, portfolio.nav)
  BY DEF BuildSpreads
<1>4. p[1] \in DOMAIN chain /\ p[2] \in DOMAIN chain /\ chain[p[1]].delta # Missing
  BY <1>2 DEF Opportunities, HasGreeks
<1>5. s \in SpreadType /\ s.sellDelta = chain[p[1]].delta /\ s.dte = p[1].expiry
  BY <1>1, <1>2, <1>4, PricedIsSpread
<1>6. /\ InWindow(chain[p[1]]) /\ chain[p[1]].delta \in Int
      /\ MinDte <= p[1].expiry /\ p[1].expiry <= MaxDte
  BY <1>1, <1>2, <1>4 DEF Opportunities, BoardType, Amount
<1>7. R1_delta(s) /\ R6_min_dte(s) /\ R7_max_dte(s)
  BY <1>5, <1>6, CandidatePasses
<1>8. R2_notional(s, portfolio)
  <2>1. s.maxLoss > 0 /\ Affordable(s, portfolio) >= 1
    BY <1>3 DEF InBudget, Affordable
  <2> DEFINE budget == Or(portfolio.nav, 0) * MaxLossPct
             n == Affordable(s, portfolio)
  <2>2. budget \in Int /\ s.maxLoss \in Int /\ n \in Int
    BY <1>1, <1>5, AffordableType
  <2>3. PICK d \in Nat \ {0} : d = 100 * s.maxLoss
    BY <2>1, <2>2
  <2>4. n = budget \div d
    BY <2>1, <2>3 DEF Affordable
  <2>5. d * n <= budget
    BY <2>2, <2>4, DivisionFloor
  <2>6. d * n = 100 * (s.maxLoss * n)
    BY <2>2, <2>3
  <2> QED
    BY <2>1, <2>5, <2>6 DEF R2_notional
<1> QED
  BY <1>7, <1>8, FailingRuleFails

-----------------------------------------------------------------------------
(***************************************************************************)
(* The order.                                                              *)
(***************************************************************************)

\* compute_limit_price gives back no more than the slippage, when no leg is crossed.
LEMMA LimitGivesLittleBack ==
    ASSUME NEW b, BoardType(b), Tradeable(b), Uncrossed(b), NEW limit \in Limits(b)
    PROVE  limit \in Int /\ limit >= PricedFrom(b).netCredit - Slippage
<1>1. PICK sb, sa, lb, la \in Nat :
        /\ sb = b[ShortLeg].bid /\ sa = b[ShortLeg].ask
        /\ lb = b[LongLeg].bid /\ la = b[LongLeg].ask
  BY DEF BoardType, Tradeable
<1>2. sb <= sa /\ lb <= la
  BY <1>1 DEF Uncrossed
<1>3. TwiceMidCredit(b) = (sb + sa) - (lb + la)
  BY <1>1 DEF TwiceMidCredit
<1>4. PricedFrom(b).netCredit = sb - la
  BY <1>1 DEF PricedFrom, PricedSpread
<1>5. PICK slip \in Nat : slip = Slippage
  BY AnalysisAssumption
<1>6. PICK twice \in Int :
        /\ twice = (IF LimitMode = "mid" THEN TwiceMidCredit(b)
                    ELSE 2 * PricedFrom(b).netCredit) - 2 * Slippage
        /\ twice >= 2 * (sb - la) - 2 * slip
  BY <1>2, <1>3, <1>4, <1>5
<1>7. limit \in IF twice < 2 THEN {1} ELSE {twice \div 2, (twice + 1) \div 2}
  BY <1>6 DEF Limits
<1>8. /\ twice \div 2 \in Int /\ (twice + 1) \div 2 \in Int
      /\ twice < 2 * ((twice \div 2) + 1) /\ twice + 1 < 2 * (((twice + 1) \div 2) + 1)
  BY DivisionFloor
<1>9. limit \in Int /\ limit >= (sb - la) - slip
  BY <1>6, <1>7, <1>8
<1> QED
  BY <1>4, <1>5, <1>9

LEMMA OrderWithinJudgementHolds == ASSUME IInv PROVE OrderWithinJudgement
<1> DEFINE atRisk == 100 * (spread.sell - spread.buy) - order.limit - Slippage
<1> SUFFICES ASSUME order # Missing,
                    \A b \in since : Tradeable(b) /\ spread = PricedFrom(b) => Uncrossed(b)
             PROVE  /\ order.limit >= MinCredit - Slippage
                    /\ 100 * (order.contracts * atRisk) <= portfolio.nav * MaxLossPct
  BY DEF OrderWithinJudgement
<1>1. PICK b \in since : JudgedFrom(b)
  BY DEF IInv, Unjudged
<1>2. BoardType(b) /\ Tradeable(b) /\ Uncrossed(b) /\ spread = PricedFrom(b)
  BY <1>1, AnalysisAssumption DEF IInv, JudgedFrom
<1>3. /\ spread = PricedSpread(b, ShortLeg, LongLeg)
      /\ ShortLeg \in DOMAIN b /\ LongLeg \in DOMAIN b /\ b[ShortLeg].delta # Missing
  BY <1>2 DEF Tradeable, PricedFrom
<1>4. /\ spread \in SpreadType
      /\ spread.maxLoss = 100 * (spread.sell - spread.buy) - spread.netCredit
  BY <1>2, <1>3, PricedIsSpread
<1>5. proposal.contracts \in Nat \ {0} /\ portfolio \in PortfolioType
  <2>1. Proposed /\ portfolio \in PortfolioType
    BY AnalysisAssumption DEF IInv, Unjudged
  <2>2. proposal \in ArgumentType /\ proposal.contracts # Missing /\ proposal.contracts >= 1
    BY <2>1, AnalysisAssumption DEF Proposed, WellFormed, ArgumentType
  <2> QED
    BY <2>1, <2>2 DEF ArgumentType, Amount
<1>6. /\ verdict = RiskGateCheck(spread, portfolio, proposal.contracts) /\ verdict.approved
      /\ order.contracts = verdict.contracts /\ order.limit \in Limits(b)
  BY <1>1 DEF JudgedFrom
<1>7. /\ order.contracts \in Nat \ {0} /\ spread.maxLoss > 0
      /\ 100 * (spread.maxLoss * order.contracts) <= Or(portfolio.nav, 0) * MaxLossPct
  BY <1>4, <1>5, <1>6, ApprovalIsSafe
<1>8. Or(portfolio.nav, 0) = portfolio.nav /\ spread.netCredit >= MinCredit
  <2>1. ~ Or(portfolio.nav, 0) <= 0 /\ FailingRules(spread, portfolio, proposal.contracts) = {}
    BY <1>6 DEF RiskGateCheck
  <2>2. R4_min_premium(spread)
    BY <2>1, FailingRuleFails
  <2> QED
    BY <2>1, <2>2 DEF R4_min_premium, Or
<1>9. PICK limit, credit, width, slip \in Int :
        /\ limit = order.limit /\ credit = spread.netCredit
        /\ width = 100 * (spread.sell - spread.buy) /\ slip = Slippage
        /\ limit >= credit - slip
  BY <1>2, <1>4, <1>6, LimitGivesLittleBack, AnalysisAssumption DEF SpreadType
<1>10. order.limit >= MinCredit - Slippage
  BY <1>8, <1>9, GateAssumption
<1>11. atRisk \in Int /\ spread.maxLoss \in Int /\ atRisk <= spread.maxLoss
  BY <1>4, <1>9
<1>12. order.contracts * atRisk <= order.contracts * spread.maxLoss
  BY <1>7, <1>11, ProductMonotone
<1>13. 100 * (order.contracts * atRisk) <= portfolio.nav * MaxLossPct
  <2>1. PICK n \in Nat, r, m \in Int :
          n = order.contracts /\ r = atRisk /\ m = spread.maxLoss
    BY <1>7, <1>11
  <2>2. n * r \in Int /\ n * m \in Int /\ n * m = m * n /\ n * r <= n * m
    BY <1>12, <2>1
  <2>3. 100 * (m * n) <= portfolio.nav * MaxLossPct
    BY <1>7, <1>8, <2>1
  <2>4. portfolio.nav * MaxLossPct \in Int
    BY <1>4, <1>5, <1>8, AffordableType
  <2> QED
    BY <2>1, <2>2, <2>3, <2>4
<1> QED
  BY <1>10, <1>13

-----------------------------------------------------------------------------

\* What is left out on the way from the listed contracts to the model's table is
\* neither a candidate lost in silence nor blamed on the wrong cause, whatever is
\* listed and whatever the limits (diagnose_bracket, summarise_chain).
THEOREM NothingLostInSilence == Spec => []NothingIsLostInSilence
<1>1. IInv => NothingIsLostInSilence
  BY DEF IInv, NothingIsLostInSilence
<1> QED
  BY IInvHolds, <1>1, PTL

\* The gate judges what was quoted since the proposal, never what the model had
\* seen before it (analyse_ticker, agent/orchestrator.py:519-529).
THEOREM FreshQuotesAreJudged == Spec => []JudgedOnFreshQuotes
<1>1. IInv => JudgedOnFreshQuotes
  BY DEF IInv, Unjudged, JudgedFrom, JudgedOnFreshQuotes
<1> QED
  BY IInvHolds, <1>1, PTL

\* The calculator and the spread builder let nothing through that the gate's rules
\* about the spread alone refuse, as long as the window lies within Rule 1's cap.
THEOREM FiltersAgree == Spec => []FiltersAgreeWithGate
<1>1. IInv => FiltersAgreeWithGate
  BY CandidatesPassHolds, BuiltSpreadsPassHolds DEF FiltersAgreeWithGate
<1> QED
  BY IInvHolds, <1>1, PTL

\* At its limit price the order risks no more than Rule 2 allows and brings no less
\* than Rule 4 asks for, but for the slippage, unless the quotes are crossed.
THEOREM OrderKeepsToJudgement == Spec => []OrderWithinJudgement
  BY IInvHolds, OrderWithinJudgementHolds, PTL

-----------------------------------------------------------------------------
(***************************************************************************)
(* The IV rank.                                                            *)
(***************************************************************************)

\* A population a rank can be taken in.
PopulationType(p) == IsFiniteSet(DOMAIN p) /\ \A i \in DOMAIN p : p[i] \in Int

LEMMA PlacesAreFinite ==
    ASSUME NEW S, NEW seq \in Seq(S)
    PROVE  /\ IsFiniteSet(DOMAIN seq) /\ DOMAIN seq \subseteq Nat /\ Len(seq) \in Nat
           /\ \A i \in DOMAIN seq : seq[i] \in S
<1>1. DOMAIN seq = 1 .. Len(seq) /\ Len(seq) \in Nat /\ \A i \in 1 .. Len(seq) : seq[i] \in S
  OBVIOUS
<1> QED
  BY <1>1, FS_Interval

LEMMA HistoryType ==
    ASSUME NEW file \in Seq([ticker : STRING, iv : Nat]), NEW ticker
    PROVE  PopulationType(LoadIvHistory(file, ticker))
<1> DEFINE lines == {i \in DOMAIN file : file[i].ticker = ticker /\ file[i].iv # 0}
<1>1. IsFiniteSet(DOMAIN file) /\ \A i \in DOMAIN file : file[i] \in [ticker : STRING, iv : Nat]
  BY PlacesAreFinite
<1>2. IsFiniteSet(lines)
  BY <1>1, FS_Subset
<1>3. \A i \in lines : file[i].iv \in Int
  BY <1>1
<1>4. /\ DOMAIN LoadIvHistory(file, ticker) = lines
      /\ \A i \in lines : LoadIvHistory(file, ticker)[i] = file[i].iv
  BY DEF LoadIvHistory
<1> QED
  BY <1>2, <1>3, <1>4 DEF PopulationType

LEMMA RealizedType ==
    ASSUME NEW closes \in Seq(Nat)
    PROVE  PopulationType(LastOf(RealizedVolatilitySeries(closes)))
<1> DEFINE series == RealizedVolatilitySeries(closes)
<1>1. IsFiniteSet(DOMAIN closes) /\ \A i \in DOMAIN closes : closes[i] \in Nat
  BY PlacesAreFinite
<1>2. DOMAIN series \subseteq DOMAIN closes /\ \A i \in DOMAIN series : series[i] = closes[i]
  BY DEF RealizedVolatilitySeries
<1> HIDE DEF series
<1>3. /\ DOMAIN LastOf(series) \subseteq DOMAIN series
      /\ \A i \in DOMAIN LastOf(series) : LastOf(series)[i] = series[i]
  BY DEF LastOf
<1>4. IsFiniteSet(DOMAIN LastOf(series))
  BY <1>1, <1>2, <1>3, FS_Subset
<1>5. \A i \in DOMAIN LastOf(series) : LastOf(series)[i] \in Int
  BY <1>1, <1>2, <1>3
<1> QED
  BY <1>4, <1>5 DEF PopulationType, series

\* What is not at or below the value is above it.
LEMMA RankCounts ==
    ASSUME NEW v \in Int, NEW p, PopulationType(p)
    PROVE  LET rank == PercentileRank(v, p)
           IN  /\ rank \in [below : Nat, of : Nat]
               /\ rank.of = Size(p) /\ Above(v, p) = Size(p) - rank.below
               /\ Size(p) \in Nat /\ Above(v, p) \in Nat
<1> DEFINE low == {i \in DOMAIN p : p[i] <= v}
           high == {i \in DOMAIN p : p[i] > v}
<1>1. IsFiniteSet(low) /\ IsFiniteSet(high) /\ IsFiniteSet(DOMAIN p)
  BY FS_Subset DEF PopulationType
<1>2. low \cup high = DOMAIN p /\ low \cap high = {}
  BY DEF PopulationType
<1>3. /\ Cardinality(DOMAIN p) = Cardinality(low) + Cardinality(high) - Cardinality({})
      /\ Cardinality(low) \in Nat /\ Cardinality(high) \in Nat /\ Cardinality(DOMAIN p) \in Nat
      /\ Cardinality({}) = 0
  <2> HIDE DEF low, high
  <2> QED
    BY <1>1, <1>2, FS_Union, FS_CardinalityType, FS_EmptySet
<1>4. /\ PercentileRank(v, p) = [below |-> Cardinality(low), of |-> Size(p)]
      /\ Above(v, p) = Cardinality(high) /\ Size(p) = Cardinality(DOMAIN p)
  BY DEF PercentileRank, Above, Size
<1> HIDE DEF low, high
<1> QED
  BY <1>3, <1>4

\* A regime that is high or low has the population behind it.
LEMMA RegimeIsFounded ==
    ASSUME NEW v \in Int, NEW p, PopulationType(p), NEW source
    PROVE  LET got == Ranked(v, source, PercentileRank(v, p))
           IN  /\ got.atm = v /\ got.source = source /\ got.regime # "UNKNOWN"
               /\ got.regime = "HIGH_IV" => 100 * Above(v, p) <= (100 - HighMin) * Size(p)
               /\ got.regime = "LOW_IV" => 100 * Above(v, p) >= (100 - LowMax) * Size(p)
<1> DEFINE rank == PercentileRank(v, p)
<1>1. PICK below \in Nat, above \in Nat, size \in Nat :
        /\ rank.below = below /\ rank.of = size /\ Size(p) = size
        /\ Above(v, p) = above /\ above = size - below
        /\ rank \in [below : Nat, of : Nat]
  BY RankCounts
<1>2. HighMin \in Int /\ LowMax \in Int /\ rank # Unranked
  BY <1>1, VolatilityAssumption
<1>3. /\ Ranked(v, source, rank).atm = v /\ Ranked(v, source, rank).source = source
      /\ Ranked(v, source, rank).regime = ClassifyRegime(rank)
  BY DEF Ranked
<1> HIDE DEF rank
<1>4. /\ ClassifyRegime(rank) # "UNKNOWN"
      /\ ClassifyRegime(rank) = "HIGH_IV" => AtLeast(rank, HighMin)
      /\ ClassifyRegime(rank) = "LOW_IV" => AtMost(rank, LowMax)
  BY <1>2 DEF ClassifyRegime
<1>5. PICK h \in Int, l \in Int : h = HighMin * size /\ l = LowMax * size
  BY <1>2
<1>6. /\ (100 - HighMin) * size = 100 * size - h
      /\ (100 - LowMax) * size = 100 * size - l
  BY <1>2, <1>5
<1>7. AtLeast(rank, HighMin) => 100 * above <= (100 - HighMin) * size
  <2>1. AtLeast(rank, HighMin) => 100 * below >= h
    BY <1>1, <1>5 DEF AtLeast
  <2> QED
    BY <1>1, <1>6, <2>1
<1>8. AtMost(rank, LowMax) => 100 * above >= (100 - LowMax) * size
  <2>1. AtMost(rank, LowMax) => 100 * below <= l
    BY <1>1, <1>5 DEF AtMost
  <2> QED
    BY <1>1, <1>6, <2>1
<1> QED
  BY <1>1, <1>3, <1>4, <1>7, <1>8 DEF rank

\* The volatility at the money is a number, if it is there.
LEMMA AtmType ==
    ASSUME NEW b, BoardType(b), NEW atm \in AtmImpliedVolatilities(b, SpotPrice)
    PROVE  atm \in Int \cup {Unranked}
<1> DEFINE quoted == {c \in DOMAIN b : b[c].iv # Unranked /\ b[c].iv > 0}
<1>1. \A c \in quoted : b[c].iv \in Int
  BY DEF BoardType
<1>2. \/ atm = Unranked \/ \E c \in quoted : atm = b[c].iv
      \/ \E c \in quoted, d \in quoted : atm = (b[c].iv + b[d].iv) \div 2
  BY DEF AtmImpliedVolatilities
<1>3. \A k \in Int, l \in Int : (k + l) \div 2 \in Int
  OBVIOUS
<1> HIDE DEF quoted
<1> QED
  BY <1>1, <1>2, <1>3

\* A response below its limit is all that was asked for.
LEMMA WholeResponse ==
    ASSUME NEW b, BoardType(b), NEW request \in SUBSET DOMAIN b,
           NEW response \in Responses(b, request), Cardinality(DOMAIN response) < Limit
    PROVE  response = [c \in request |-> b[c]]
<1>1. PICK returned \in SUBSET request :
        /\ Cardinality(returned) = Lesser(Limit, Cardinality(request))
        /\ response = [c \in returned |-> b[c]]
  BY DEF Responses
<1>2. IsFiniteSet(request) /\ Cardinality(request) \in Nat /\ Limit \in Nat
  BY FS_Subset, FS_CardinalityType, ChainAssumption DEF BoardType
<1>3. DOMAIN response = returned
  BY <1>1
<1>4. Cardinality(returned) = Cardinality(request)
  BY <1>1, <1>2, <1>3 DEF Lesser
<1>5. returned = request
  BY <1>2, <1>4, FS_Subset
<1> QED
  BY <1>1, <1>5

\* The conditions of RanksAreFounded, of what compute_iv_rank returns.
LEMMA ComputedRankIsFounded ==
    ASSUME NEW atm \in Int \cup {Unranked},
           NEW closes \in Seq(Nat), NEW history \in Seq([ticker : STRING, iv : Nat])
    PROVE  LET got == ComputeIvRank(Ticker, atm, closes, history)
               population == Population(got.source, [closes |-> closes, history |-> history])
               above == 100 * Above(got.atm, population)
               size == Size(population)
           IN  /\ got.atm = atm
               /\ got.source = "unavailable" <=> got.regime = "UNKNOWN"
               /\ got.source # "unavailable" => size > 0
               /\ got.source = "iv_history" => size >= MinSamples
               /\ got.source = "rv_proxy" => Size(LoadIvHistory(history, Ticker)) < MinSamples
               /\ got.regime = "HIGH_IV" => above <= (100 - HighMin) * size
               /\ got.regime = "LOW_IV" => above >= (100 - LowMax) * size
<1> DEFINE got == ComputeIvRank(Ticker, atm, closes, history)
           past == [closes |-> closes, history |-> history]
<1>1. PICK ivs : ivs = LoadIvHistory(history, Ticker)
  OBVIOUS
<1>2. PICK realized : realized = LastOf(RealizedVolatilitySeries(closes))
  OBVIOUS
<1>3. PopulationType(ivs) /\ PopulationType(realized)
  BY <1>1, <1>2, HistoryType, RealizedType
<1>4. Size(ivs) \in Nat /\ MinSamples \in Nat \ {0}
  BY <1>3, FS_CardinalityType, VolatilityAssumption DEF Size, PopulationType
<1>5. /\ Population("iv_history", past) = ivs /\ Population("rv_proxy", past) = realized
  BY <1>1, <1>2 DEF Population
<1>6. got = IF atm = Unranked THEN Ranked(Unranked, "unavailable", Unranked)
            ELSE IF EnoughSamples(ivs) THEN Ranked(atm, "iv_history", PercentileRank(atm, ivs))
            ELSE IF Size(realized) > 0 THEN Ranked(atm, "rv_proxy", PercentileRank(atm, realized))
            ELSE Ranked(atm, "unavailable", Unranked)
  BY <1>1, <1>2 DEF ComputeIvRank
<1>7. \A v : LET none == Ranked(v, "unavailable", Unranked)
             IN  none.atm = v /\ none.source = "unavailable" /\ none.regime = "UNKNOWN"
  BY DEF Ranked, ClassifyRegime
<1> HIDE DEF got, past
<1>8. CASE got = Ranked(atm, "unavailable", Unranked)
  <2>1. got.atm = atm /\ got.source = "unavailable" /\ got.regime = "UNKNOWN"
    BY <1>7, <1>8
  <2> QED
    BY <2>1 DEF got, past
<1>9. CASE atm \in Int /\ EnoughSamples(ivs)
            /\ got = Ranked(atm, "iv_history", PercentileRank(atm, ivs))
  <2>1. /\ got.atm = atm /\ got.source = "iv_history" /\ got.regime # "UNKNOWN"
        /\ got.regime = "HIGH_IV" => 100 * Above(atm, ivs) <= (100 - HighMin) * Size(ivs)
        /\ got.regime = "LOW_IV" => 100 * Above(atm, ivs) >= (100 - LowMax) * Size(ivs)
    BY <1>3, <1>9, RegimeIsFounded
  <2>2. Size(ivs) >= MinSamples /\ Size(ivs) > 0
    BY <1>4, <1>9 DEF EnoughSamples
  <2> QED
    BY <1>5, <2>1, <2>2 DEF got, past
<1>10. CASE atm \in Int /\ ~ EnoughSamples(ivs) /\ Size(realized) > 0
            /\ got = Ranked(atm, "rv_proxy", PercentileRank(atm, realized))
  <2>1. /\ got.atm = atm /\ got.source = "rv_proxy" /\ got.regime # "UNKNOWN"
        /\ got.regime = "HIGH_IV" => 100 * Above(atm, realized) <= (100 - HighMin) * Size(realized)
        /\ got.regime = "LOW_IV" => 100 * Above(atm, realized) >= (100 - LowMax) * Size(realized)
    BY <1>3, <1>10, RegimeIsFounded
  <2>2. Size(ivs) < MinSamples
    BY <1>4, <1>10 DEF EnoughSamples
  <2> QED
    BY <1>1, <1>5, <1>10, <2>1, <2>2 DEF got, past
<1> QED
  BY <1>6, <1>8, <1>9, <1>10

\* What an analysis journals as its IV rank, regime and source has the population
\* that its source names behind it, whatever the samples, the closes, the
\* thresholds and the chain (compute_iv_rank, agent/iv.py:182-247).
THEOREM RanksHavePopulations == Spec => RanksAreFounded
<1> DEFINE Founded ==
        LET got == volatility'
            population == Population(got.source, Past[board])
            above == 100 * Above(got.atm, population)
            size == Size(population)
        IN  /\ got.source = "unavailable" <=> got.regime = "UNKNOWN"
            /\ got.source # "unavailable" => size > 0
            /\ got.source = "iv_history" => size >= MinSamples
            /\ got.source = "rv_proxy" =>
                  Size(LoadIvHistory(Past[board].history, Ticker)) < MinSamples
            /\ got.regime = "HIGH_IV" => above <= (100 - HighMin) * size
            /\ got.regime = "LOW_IV" => above >= (100 - LowMax) * size
            /\ Cardinality(DOMAIN chain') < Limit =>
                  got.atm \in AtmImpliedVolatilities([c \in Request |-> board[c]], SpotPrice)
<1>1. ASSUME IInv, MarketContext PROVE Founded
  <2>1. PICK response \in Responses(board, Request),
             atm \in AtmImpliedVolatilities(chain', SpotPrice) :
          /\ chain' = response
          /\ volatility' = ComputeIvRank(Ticker, atm, Past[board].closes, Past[board].history)
    BY <1>1 DEF MarketContext
  <2>2. /\ BoardType(board) /\ Request \in SUBSET DOMAIN board
        /\ Past[board].closes \in Seq(Nat)
        /\ Past[board].history \in Seq([ticker : STRING, iv : Nat])
    BY <1>1, AnalysisAssumption DEF IInv, Request, ChainRequest
  <2>3. atm \in Int \cup {Unranked}
    BY <2>1, <2>2, ResponseFits, AtmType
  <2>4. PICK closes \in Seq(Nat), history \in Seq([ticker : STRING, iv : Nat]) :
          closes = Past[board].closes /\ history = Past[board].history
    BY <2>2
  <2>5. \A source : Population(source, Past[board])
                      = Population(source, [closes |-> closes, history |-> history])
    BY <2>4 DEF Population
  <2>6. Cardinality(DOMAIN chain') < Limit => chain' = [c \in Request |-> board[c]]
    BY <2>1, <2>2, WholeResponse
  <2>7. PICK got : got = ComputeIvRank(Ticker, atm, closes, history)
    OBVIOUS
  <2>8. volatility' = got
    BY <2>1, <2>4, <2>7
  <2>9. LET population == Population(got.source, [closes |-> closes, history |-> history])
            above == 100 * Above(got.atm, population)
            size == Size(population)
        IN  /\ got.atm = atm
            /\ got.source = "unavailable" <=> got.regime = "UNKNOWN"
            /\ got.source # "unavailable" => size > 0
            /\ got.source = "iv_history" => size >= MinSamples
            /\ got.source = "rv_proxy" => Size(LoadIvHistory(history, Ticker)) < MinSamples
            /\ got.regime = "HIGH_IV" => above <= (100 - HighMin) * size
            /\ got.regime = "LOW_IV" => above >= (100 - LowMax) * size
    BY <2>3, <2>7, ComputedRankIsFounded
  <2> QED
    BY <2>1, <2>4, <2>5, <2>6, <2>8, <2>9
<1>2. IInv /\ [Next]_vars => [stage = "context" /\ stage' = "research" => Founded]_vars
  <2> SUFFICES ASSUME IInv, [Next]_vars, stage = "context", stage' = "research" PROVE Founded
    OBVIOUS
  <2>1. MarketContext
    BY DEF Next, vars, MarketContext, ReadChain, Propose, ValidateLegs, Execute, MoveQuotes, Ends
  <2> QED
    BY <1>1, <2>1
<1> HIDE DEF Founded
<1>3. IInv /\ [Next]_vars
        => [stage = "context" /\ stage' = "research" => Founded]_vars
  BY <1>2
<1> QED
  BY IInvHolds, <1>3, PTL DEF Spec, RanksAreFounded, Founded

-----------------------------------------------------------------------------
(***************************************************************************)
(* The conversation: the read door.                                        *)
(***************************************************************************)

\* The client that dispatches has accepted its list, and only that list's reads
\* have passed; a refused list is never worked with.
DoorInv ==
    /\ served \subseteq allowlist.read
    /\ Accepts(allowlist) \/ (phase = "ended" /\ ending = "refused" /\ served = {})

LEMMA InitDoorInv == LoopInit => DoorInv
  BY DEF LoopInit, DoorInv

LEMMA DispatchKeepsDoor == ASSUME DoorInv, NEW ok \in BOOLEAN, Dispatch(ok) PROVE DoorInv'
<1>1. phase = "dispatch" /\ allowlist' = allowlist
  BY DEF Dispatch, setting
<1>2. Accepts(allowlist)
  BY <1>1 DEF DoorInv
<1>3. served' \subseteq allowlist.read
  BY DEF Dispatch, CallRead, DoorInv
<1> QED
  BY <1>1, <1>2, <1>3 DEF DoorInv, Accepts

LEMMA StepDoorInv == ASSUME DoorInv, [LoopNext]_loopVars PROVE DoorInv'
<1> USE DEF DoorInv, Accepts
<1>1. ASSUME NEW f \in Failures, ChatFails(f) PROVE DoorInv'
  BY <1>1 DEF ChatFails, setting, histories
<1>2. ASSUME NoProvider \/ BodyGarbled PROVE DoorInv'
  BY <1>2 DEF NoProvider, BodyGarbled, setting, histories
<1>3. ASSUME NEW asks \in Asks, NEW signed \in BOOLEAN, NEW wellFormed \in BOOLEAN,
             ChatAnswers(asks, signed, wellFormed)
      PROVE  DoorInv'
  BY <1>3 DEF ChatAnswers, setting
<1>4. ASSUME NEW ok \in BOOLEAN, Dispatch(ok) PROVE DoorInv'
  BY <1>4, DispatchKeepsDoor
<1>5. ASSUME AnalyseTicker PROVE DoorInv'
  BY <1>5 DEF AnalyseTicker, setting, histories
<1>6. CASE UNCHANGED loopVars
  BY <1>6 DEF loopVars, setting, histories
<1> QED
  BY <1>1, <1>2, <1>3, <1>4, <1>5, <1>6 DEF LoopNext

\* No tool that the list knows to write is ever reached on the model's behalf
\* (mcp_client.py:101-106 and 219-227).
THEOREM ModelOnlyReads == LoopSpec => []OnlyReadsServed
<1>1. DoorInv => OnlyReadsServed
  BY DEF DoorInv, OnlyReadsServed, Accepts
<1> QED
  BY InitDoorInv, StepDoorInv, <1>1, PTL DEF LoopSpec
-----------------------------------------------------------------------------
(***************************************************************************)
(* Failover.                                                               *)
(***************************************************************************)

LEMMA MinFound ==
    ASSUME NEW S \in SUBSET Nat, S # {}
    PROVE  Min(S) \in S /\ \A n \in S : Min(S) <= n
<1>1. PICK m \in S : \A n \in S : ~ (<<n, m>> \in OpToRel(<, Nat))
  BY NatLessThanWellFounded, WFMin
<1>2. ASSUME NEW n \in S PROVE m <= n
  <2>1. n < m => <<n, m>> \in OpToRel(<, Nat)
    BY DEF OpToRel
  <2>2. ~ (n < m)
    BY <1>1, <2>1
  <2> QED
    BY <2>2
<1> QED
  BY <1>2 DEF Min

LEMMA ChainFacts ==
    /\ Len(Chain) \in Nat \ {0} /\ DOMAIN Chain = 1 .. Len(Chain)
    /\ \A i \in DOMAIN Chain : Chain[i] \in ToSet(Chain)
    /\ \A i, j \in DOMAIN Chain : Chain[i] = Chain[j] => i = j
  BY LoopAssumption DEF IsInjective, ToSet

LEMMA FirstFits ==
    /\ First \in DOMAIN Chain
    /\ Available # {} => First \in Available
    /\ \A i \in Available : ~ i < First
<1>1. Available \in SUBSET Nat /\ Available \subseteq DOMAIN Chain
  BY ChainFacts DEF Available
<1>2. CASE Available = {}
  BY <1>2, ChainFacts DEF First
<1>3. CASE Available # {}
  <2>1. First = Min(Available)
    BY <1>3 DEF First
  <2>2. First \in Available /\ \A i \in Available : First <= i
    BY <1>1, <1>3, <2>1, MinFound
  <2> QED
    BY <1>1, <2>2
<1> QED
  BY <1>2, <1>3

\* The provider whose turn is next is the nearest: none between is passed over.
LEMMA NextFits ==
    ASSUME Following # {}, provider \in Nat
    PROVE  /\ NextProvider \in Available
           /\ \A i \in Available : i < NextProvider => i <= provider
<1>1. Following \in SUBSET Nat /\ Following \subseteq Available /\ Available \in SUBSET Nat
  BY ChainFacts DEF Following, Available
<1>2. NextProvider \in Following /\ \A i \in Following : NextProvider <= i
  BY <1>1, MinFound DEF NextProvider
<1> QED
  BY <1>1, <1>2 DEF Following

LEMMA RetryAfterType == ASSUME NEW f \in Failures PROVE RetryAfter(f) \in Nat
<1> DEFINE told == {i \in DOMAIN f.said : f.said[i] >= 0}
<1>1. f.said \in [1 .. 3 -> Nat \cup {-1}]
  BY LoopAssumption
<1>2. told \in SUBSET Nat
  BY <1>1
<1>3. CASE told = {}
  BY <1>3 DEF RetryAfter
<1>4. CASE told # {}
  <2>1. Min(told) \in told
    BY <1>2, <1>4, MinFound
  <2>2. f.said[Min(told)] \in Nat
    BY <1>1, <2>1
  <2> QED
    BY <1>4, <2>2 DEF RetryAfter
<1> QED
  BY <1>3, <1>4

\* Where the client gives up, waiting would not have helped, or was used up.
LEMMA GivingUpIsEarned ==
    ASSUME NEW f, GivesUp(f)
    PROVE  attempt = MaxAttempts \/ Settled(f)
  BY DEF GivesUp, Retryable, RetryableStatus, Settled, RateLimited

ChatType ==
    /\ provider \in DOMAIN Chain
    /\ Available # {} => provider \in Available
    /\ attempt \in 1 .. MaxAttempts
    /\ DOMAIN failed = ToSet(Chain)

\* FailoverIsEarned, whatever the phase.
Earned ==
    /\ \A i \in Available : i < provider => GaveUp(Chain[i])
    /\ ending = "error" => phase = "ended" /\ \A i \in Available : GaveUp(Chain[i])
    /\ attempt > 1 =>
          LET asked == RetryAfter(failed[Chain[provider]].failure)
          IN  asked # 0 => delay >= Smaller(asked, MaxBackoff)
    /\ switches = {a \in answeredBy : a.provider # Chain[First]}

FInv == ChatType /\ Earned

\* With the setting, what depends on it alone stays.
LEMMA SettingKept ==
    ASSUME keys' = keys
    PROVE  Available' = Available /\ First' = First
  BY DEF Available, First

LEMMA FreshKeeps ==
    ASSUME FInv, FreshChat, keys' = keys, ending' # "error",
           switches' = {a \in answeredBy' : a.provider # Chain[First]}
    PROVE  FInv'
<1>1. Available' = Available /\ First' = First
  BY SettingKept
<1>2. provider' = First /\ attempt' = 1 /\ failed' = Unfailed
  BY DEF FreshChat
<1>3. ChatType'
  BY <1>1, <1>2, FirstFits, LoopAssumption DEF ChatType, Unfailed
<1>4. Earned'
  BY <1>1, <1>2, FirstFits DEF Earned
<1> QED
  BY <1>3, <1>4 DEF FInv

LEMMA InitFInv == LoopInit => FInv
<1> SUFFICES ASSUME LoopInit PROVE FInv
  OBVIOUS
<1>1. provider = First /\ attempt = 1 /\ failed = Unfailed
  BY DEF LoopInit
<1>2. ChatType
  BY <1>1, FirstFits, LoopAssumption DEF ChatType, Unfailed
<1>3. ending # "error" /\ switches = {} /\ answeredBy = {}
  BY DEF LoopInit
<1>4. Earned
  BY <1>1, <1>3, FirstFits DEF Earned
<1> QED
  BY <1>2, <1>4 DEF FInv

LEMMA ChatFailsFInv == ASSUME FInv, NEW f \in Failures, ChatFails(f) PROVE FInv'
<1>1. /\ phase = "chat" /\ provider \in Available /\ provider \in Nat
      /\ Available' = Available /\ First' = First
  BY SettingKept, ChainFacts DEF ChatFails, setting, Available
<1> DEFINE record == [attempt |-> attempt, failure |-> f]
<1>2. failed' = [failed EXCEPT ![Chain[provider]] = record]
  BY DEF ChatFails
<1>3. /\ failed'[Chain[provider]] = record
      /\ \A i \in Available : i # provider => failed'[Chain[i]] = failed[Chain[i]]
  BY <1>1, <1>2, ChainFacts DEF FInv, ChatType, Available
<1>4. record.attempt = attempt /\ record.failure = f
  OBVIOUS
<1>5. switches' = switches /\ answeredBy' = answeredBy
  BY DEF ChatFails, histories
<1>6. DOMAIN failed' = ToSet(Chain)
  BY <1>2 DEF FInv, ChatType
<1> HIDE DEF record
<1>7. ASSUME NEW i \in Available, i < provider PROVE GaveUp(Chain[i])'
  <2>1. GaveUp(Chain[i])
    BY <1>1, <1>7 DEF FInv, Earned
  <2>2. i # provider
    BY <1>1, <1>7, ChainFacts DEF Available
  <2>3. failed'[Chain[i]] = failed[Chain[i]]
    BY <1>3, <2>2
  <2> QED
    BY <2>1, <2>3 DEF GaveUp, Settled, RateLimited
<1>8. attempt \in 1 .. MaxAttempts /\ MaxAttempts \in Nat /\ MaxBackoff \in Nat
  BY LoopAssumption DEF FInv, ChatType
<1>9. CASE ~ GivesUp(f)
  <2>1. /\ attempt' = attempt + 1 /\ delay' = Delay(f) /\ attempt # MaxAttempts
        /\ UNCHANGED <<provider, phase, ending>>
    BY <1>9 DEF ChatFails, GivesUp
  <2>2. ending' # "error"
    BY <1>1, <2>1 DEF FInv, Earned
  <2>3. RetryAfter(f) # 0 => delay' >= Smaller(RetryAfter(f), MaxBackoff)
    BY <1>8, <2>1, RetryAfterType DEF Delay, Smaller
  <2>4. ChatType'
    BY <1>1, <1>6, <1>8, <2>1 DEF ChatType, FInv
  <2>5. Earned'
    BY <1>1, <1>3, <1>4, <1>5, <1>7, <2>1, <2>2, <2>3 DEF FInv, Earned
  <2> QED
    BY <2>4, <2>5 DEF FInv
<1>10. CASE GivesUp(f)
  <2>1. attempt' = 1
    BY <1>10 DEF ChatFails
  <2>2. \A i \in Available : i = provider => GaveUp(Chain[i])'
    <3>1. attempt > 0 /\ (attempt = MaxAttempts \/ Settled(f))
      BY <1>8, <1>10, GivingUpIsEarned
    <3>2. ASSUME NEW i \in Available, i = provider PROVE GaveUp(Chain[i])'
      <4>1. failed'[Chain[i]].attempt = attempt /\ failed'[Chain[i]].failure = f
        BY <1>3, <1>4, <3>2
      <4> QED
        BY <3>1, <4>1 DEF GaveUp, Settled, RateLimited
    <3> QED
      BY <3>2
  <2>3. CASE Following # {} /\ provider' = NextProvider /\ UNCHANGED <<phase, ending>>
    <3>1. /\ provider' \in Available
          /\ \A i \in Available : i < provider' => i = provider \/ i < provider
      BY <1>1, <2>3, NextFits, ChainFacts DEF Available
    <3>2. ending' # "error"
      BY <1>1, <2>3 DEF FInv, Earned
    <3>3. ChatType'
      BY <1>1, <1>6, <1>8, <2>1, <3>1 DEF ChatType, Available
    <3>4. \A i \in Available : i < provider' => GaveUp(Chain[i])'
      BY <1>7, <2>2, <3>1
    <3>5. Earned'
      BY <1>1, <1>5, <2>1, <3>2, <3>4 DEF FInv, Earned
    <3> QED
      BY <3>3, <3>5 DEF FInv
  <2>4. CASE Following = {} /\ provider' = provider /\ phase' = "ended" /\ ending' = "error"
    <3>1. \A i \in Available : i = provider \/ i < provider
      BY <1>1, <2>4, ChainFacts DEF Following, Available
    <3>2. \A i \in Available : GaveUp(Chain[i])'
      BY <1>7, <2>2, <3>1
    <3>3. ChatType'
      BY <1>1, <1>6, <1>8, <2>1, <2>4 DEF ChatType, FInv
    <3>4. Earned'
      BY <1>1, <1>5, <2>1, <2>4, <3>2 DEF FInv, Earned
    <3> QED
      BY <3>3, <3>4 DEF FInv
  <2> QED
    BY <1>10, <2>3, <2>4 DEF ChatFails
<1> QED
  BY <1>9, <1>10

LEMMA ChatAnswersFInv ==
    ASSUME FInv, NEW asks \in Asks, NEW signed \in BOOLEAN, NEW wellFormed \in BOOLEAN,
           ChatAnswers(asks, signed, wellFormed)
    PROVE  FInv'
<1> DEFINE p == Chain[provider]
           answer == [analysis |-> analysis, turn |-> turn, provider |-> p]
<1>1. FreshChat /\ keys' = keys
  BY DEF ChatAnswers, setting
<1>2. answeredBy' = answeredBy \cup {answer} /\ switches' = LogProviderSwitch(p)
  BY DEF ChatAnswers
<1>3. answer.provider = p
  OBVIOUS
<1>4. LogProviderSwitch(p) = IF p # Chain[First] THEN switches \cup {answer} ELSE switches
  BY DEF LogProviderSwitch
<1> HIDE DEF answer, p
<1>5. switches' = {a \in answeredBy' : a.provider # Chain[First]}
  BY <1>2, <1>3, <1>4 DEF FInv, Earned
<1>6. ending' # "error"
  BY DEF ChatAnswers, FInv, Earned
<1> QED
  BY <1>1, <1>5, <1>6, FreshKeeps

LEMMA StepFInv == ASSUME FInv, [LoopNext]_loopVars PROVE FInv'
<1>1. ASSUME NEW f \in Failures, ChatFails(f) PROVE FInv'
  BY <1>1, ChatFailsFInv
<1>2. CASE NoProvider \/ BodyGarbled
  <2>1. UNCHANGED <<keys, provider, attempt, delay, failed, switches, answeredBy>>
    BY <1>2 DEF NoProvider, BodyGarbled, setting, chatVars, histories
  <2>2. Available' = Available /\ First' = First
    BY <2>1, SettingKept
  <2>3. ending' = "error" => phase' = "ended" /\ Available = {}
    BY <1>2 DEF NoProvider, BodyGarbled
  <2> QED
    BY <2>1, <2>2, <2>3 DEF FInv, ChatType, Earned, GaveUp
<1>3. ASSUME NEW asks \in Asks, NEW signed \in BOOLEAN, NEW wellFormed \in BOOLEAN,
             ChatAnswers(asks, signed, wellFormed)
      PROVE  FInv'
  BY <1>3, ChatAnswersFInv
<1>4. ASSUME NEW ok \in BOOLEAN, Dispatch(ok) PROVE FInv'
  <2>1. UNCHANGED <<keys, provider, attempt, delay, failed, switches, answeredBy>>
    BY <1>4 DEF Dispatch, setting, chatVars
  <2>2. Available' = Available /\ First' = First
    BY <2>1, SettingKept
  <2>3. ending' # "error"
    BY <1>4 DEF Dispatch, FInv, Earned
  <2> QED
    BY <2>1, <2>2, <2>3 DEF FInv, ChatType, Earned, GaveUp
<1>5. CASE AnalyseTicker
  <2>1. /\ FreshChat /\ keys' = keys /\ ending' # "error"
        /\ switches' = switches /\ answeredBy' = answeredBy
    BY <1>5 DEF AnalyseTicker, setting, histories
  <2> QED
    BY <2>1, FreshKeeps DEF FInv, Earned
<1>6. CASE UNCHANGED loopVars
  <2>1. UNCHANGED <<keys, provider, attempt, delay, failed, switches, answeredBy, phase, ending>>
    BY <1>6 DEF loopVars, setting, chatVars, histories
  <2>2. Available' = Available /\ First' = First
    BY <2>1, SettingKept
  <2> QED
    BY <2>1, <2>2 DEF FInv, ChatType, Earned, GaveUp
<1> QED
  BY <1>1, <1>2, <1>3, <1>4, <1>5, <1>6 DEF LoopNext

\* Nobody else is asked, and no analysis ends in an error, before every provider in
\* front has failed for good (LLMClient.chat, agent/llm.py:409-466).
THEOREM FailoverEarned == LoopSpec => []FailoverIsEarned
<1>1. FInv => FailoverIsEarned
  BY DEF FInv, Earned, FailoverIsEarned
<1> QED
  BY InitFInv, StepFInv, <1>1, PTL DEF LoopSpec
-----------------------------------------------------------------------------
(***************************************************************************)
(* The conversation.                                                       *)
(***************************************************************************)

Ids == (ToSet(Chain) \X Nat) \cup (ToSet(Chain) \X Nat \X Nat)

Message ==
    [role : {"call"}, name : ServerTools \cup {ProposeSpread} \cup Invented,
     provider : ToSet(Chain), id : Ids, signature : Nat]
    \cup [role : {"result"}, id : Ids]

\* The messages up to a position are calls and results that belong together.
Answered(s, top) ==
    \A m \in 1 .. top : \E other \in 1 .. top : Answers(s, m, other) \/ Answers(s, other, m)

\* From position b on come n calls and the results of the first k of them.
Round(s, b, n, k) ==
    /\ k <= n /\ Len(s) = b + n + k
    /\ Answered(s, b)
    /\ \A i \in 1 .. n : s[b + i].role = "call"
    /\ \A i, j \in 1 .. n : s[b + i].id = s[b + j].id => i = j
    /\ \A j \in 1 .. k : s[b + n + j].role = "result" /\ s[b + n + j].id = s[b + j].id

ConversationType ==
    /\ messages \in Seq(Message) /\ pending \in Seq(Message)
    /\ issued \in Nat
    /\ provider \in DOMAIN Chain

\* While the calls of an answer are dispatched, those left are the round's last.
InRound ==
    \E b, n, k \in Nat :
        /\ k < n /\ Round(messages, b, n, k)
        /\ Len(pending) = n - k
        /\ \A j \in 1 .. n - k : pending[j].id = messages[b + k + j].id

MInv ==
    /\ ConversationType
    /\ phase = "chat" => Answered(messages, Len(messages))
    /\ phase = "dispatch" => InRound

LEMMA MessageIs ==
    ASSUME NEW id \in Ids
    PROVE  /\ [role |-> "result", id |-> id] \in Message
           /\ [role |-> "result", id |-> id].role = "result"
           /\ [role |-> "result", id |-> id].id = id
  BY DEF Message

LEMMA MessageHasId == ASSUME NEW m \in Message PROVE m.id \in Ids
  BY DEF Message

\* What follows does not disturb what was answered.
LEMMA AnsweredStays ==
    ASSUME NEW s, NEW t, NEW top \in Nat, Answered(s, top),
           \A i \in 1 .. top : t[i] = s[i]
    PROVE  Answered(t, top)
<1> SUFFICES ASSUME NEW m \in 1 .. top
             PROVE  \E other \in 1 .. top : Answers(t, m, other) \/ Answers(t, other, m)
  BY DEF Answered
<1>1. ASSUME NEW i \in 1 .. top, NEW j \in 1 .. top, Answers(s, i, j) PROVE Answers(t, i, j)
  <2>1. i .. j \subseteq 1 .. top /\ i + 1 .. j - 1 \subseteq 1 .. top
    OBVIOUS
  <2> QED
    BY <1>1, <2>1 DEF Answers
<1> QED
  BY <1>1 DEF Answered

\* A round whose calls all have their result leaves nothing unanswered.
LEMMA RoundCloses ==
    ASSUME NEW s, NEW b \in Nat, NEW n \in Nat, Round(s, b, n, n)
    PROVE  Answered(s, Len(s))
<1>1. Len(s) = b + n + n /\ Len(s) \in Nat
  BY DEF Round
<1>2. ASSUME NEW j \in 1 .. n PROVE Answers(s, b + j, b + n + j)
  <2>1. b + j < b + n + j /\ s[b + j].role = "call" /\ s[b + n + j].role = "result"
    <3>1. 0 < n
      OBVIOUS
    <3>2. s[b + j].role = "call" /\ s[b + n + j].role = "result"
      BY DEF Round
    <3> QED
      BY <3>1, <3>2
  <2>2. s[b + j].id = s[b + n + j].id
    BY DEF Round
  <2>3. ASSUME NEW k \in b + j + 1 .. b + n + j - 1 PROVE s[k].id # s[b + j].id
    <3>1. CASE k <= b + n
      <4>1. k - b \in 1 .. n /\ k - b # j /\ b + (k - b) = k
        BY <3>1
      <4> QED
        BY <4>1 DEF Round
    <3>2. CASE k > b + n
      <4>1. k - (b + n) \in 1 .. n /\ k - (b + n) # j /\ b + n + (k - (b + n)) = k
        BY <3>2
      <4>2. s[k].id = s[b + (k - (b + n))].id
        BY <4>1 DEF Round
      <4> QED
        BY <4>1, <4>2 DEF Round
    <3> QED
      BY <3>1, <3>2
  <2>4. ASSUME NEW k \in b + j .. b + n + j, NEW l \in b + j .. b + n + j,
               k < l, s[k].role = "result"
        PROVE  s[l].role = "result"
    <3>1. k > b + n
      <4> SUFFICES ASSUME k <= b + n PROVE FALSE
        OBVIOUS
      <4>1. k - b \in 1 .. n /\ b + (k - b) = k
        OBVIOUS
      <4>2. s[b + (k - b)].role = "call"
        BY <4>1 DEF Round
      <4> QED
        BY <2>4, <4>1, <4>2
    <3>2. l - (b + n) \in 1 .. n /\ b + n + (l - (b + n)) = l
      BY <2>4, <3>1
    <3> QED
      BY <3>2 DEF Round
  <2> QED
    BY <2>1, <2>2, <2>3, <2>4 DEF Answers
<1>3. ASSUME NEW m \in 1 .. Len(s)
      PROVE  \E other \in 1 .. Len(s) : Answers(s, m, other) \/ Answers(s, other, m)
  <2>1. CASE m <= b
    BY <1>1, <2>1 DEF Round, Answered
  <2>2. CASE b < m /\ m <= b + n
    <3>1. m - b \in 1 .. n /\ b + (m - b) = m /\ b + n + (m - b) \in 1 .. Len(s)
      BY <1>1, <2>2
    <3> QED
      BY <1>2, <3>1
  <2>3. CASE b + n < m
    <3>1. /\ m - (b + n) \in 1 .. n /\ b + n + (m - (b + n)) = m
          /\ b + (m - (b + n)) \in 1 .. Len(s)
      BY <1>1, <2>3
    <3> QED
      BY <1>2, <3>1
  <2> QED
    BY <1>1, <2>1, <2>2, <2>3
<1> QED
  BY <1>3 DEF Answered

LEMMA CallsFit ==
    ASSUME ConversationType, NEW asks \in Asks, NEW signed \in BOOLEAN, asks # <<>>
    PROVE  LET calls == Calls(Chain[provider], asks, signed)
           IN  /\ calls \in Seq(Message) /\ Len(calls) \in Nat \ {0}
               /\ \A i \in 1 .. Len(calls) : calls[i].role = "call"
               /\ \A i, j \in 1 .. Len(calls) : calls[i].id = calls[j].id => i = j
<1> DEFINE p == Chain[provider]
           at == Len(messages)
           call(i) == [role |-> "call", name |-> asks[i], provider |-> p,
                       id |-> CallId(p, at, i),
                       signature |-> IF p = "gemini" /\ signed THEN issued + i ELSE Unsigned]
<1>1. p \in ToSet(Chain) /\ at \in Nat /\ issued \in Nat
  BY ChainFacts, LenProperties DEF ConversationType
<1>2. PICK n \in 0 .. MaxCalls : asks \in [1 .. n -> ToolsForModel \cup Invented]
  BY DEF Asks
<1>3. n \in Nat /\ DOMAIN asks = 1 .. n
  BY <1>2, LoopAssumption
<1>4. n # 0
  <2>1. asks \in Seq(ToolsForModel \cup Invented) /\ Len(asks) = n
    BY <1>2, <1>3
  <2> QED
    BY <2>1, EmptySeq
<1>5. ToolsForModel \subseteq ServerTools \cup {ProposeSpread}
  BY DEF ToolsForModel
<1>6. ASSUME NEW i \in 1 .. n
      PROVE  call(i) \in Message /\ call(i).role = "call" /\ call(i).id = CallId(p, at, i)
  <2>1. CallId(p, at, i) \in Ids
    BY <1>1, <1>3, <1>6 DEF CallId, Ids
  <2>2. asks[i] \in ServerTools \cup {ProposeSpread} \cup Invented
    BY <1>2, <1>5
  <2>3. (IF p = "gemini" /\ signed THEN issued + i ELSE Unsigned) \in Nat
    BY <1>1, <1>3 DEF Unsigned
  <2> QED
    BY <1>1, <2>1, <2>2, <2>3 DEF Message
<1>7. ASSUME NEW i \in 1 .. n, NEW j \in 1 .. n, CallId(p, at, i) = CallId(p, at, j)
      PROVE  i = j
  BY <1>7 DEF CallId
<1>8. Calls(p, asks, signed) = [i \in 1 .. n |-> call(i)]
  BY <1>3 DEF Calls
<1> HIDE DEF call, p, at
<1>9. /\ Calls(p, asks, signed) \in Seq(Message) /\ Len(Calls(p, asks, signed)) = n
      /\ \A i \in 1 .. n : Calls(p, asks, signed)[i] = call(i)
  BY <1>3, <1>6, <1>8
<1>10. /\ Len(Calls(p, asks, signed)) \in Nat \ {0}
       /\ \A i \in 1 .. n : Calls(p, asks, signed)[i].role = "call"
       /\ \A i, j \in 1 .. n :
             Calls(p, asks, signed)[i].id = Calls(p, asks, signed)[j].id => i = j
  BY <1>3, <1>4, <1>6, <1>7, <1>9
<1> QED
  BY <1>9, <1>10 DEF p

LEMMA InitMInv == LoopInit => MInv
<1> SUFFICES ASSUME LoopInit PROVE MInv
  OBVIOUS
<1>1. ConversationType
  BY FirstFits, EmptySeq DEF LoopInit, ConversationType
<1>2. messages = <<>> /\ Len(messages) = 0 /\ phase # "dispatch"
  BY EmptySeq DEF LoopInit
<1>3. Answered(messages, Len(messages))
  BY <1>2 DEF Answered
<1> QED
  BY <1>1, <1>2, <1>3 DEF MInv

\* An answer that asks for tools opens a round.
LEMMA ChatAnswersMInv ==
    ASSUME MInv, NEW asks \in Asks, NEW signed \in BOOLEAN, NEW wellFormed \in BOOLEAN,
           ChatAnswers(asks, signed, wellFormed)
    PROVE  MInv'
<1> DEFINE calls == Calls(Chain[provider], asks, signed)
           b == Len(messages)
           n == Len(calls)
<1>1. phase = "chat" /\ provider' \in DOMAIN Chain
  <2>1. First \in DOMAIN Chain
    BY FirstFits
  <2> QED
    BY <2>1 DEF ChatAnswers, FreshChat
<1>2. issued' \in Nat
  <2>1. Len(asks) \in Nat
    <3>1. PICK k \in 0 .. MaxCalls : asks \in [1 .. k -> ToolsForModel \cup Invented]
      BY DEF Asks
    <3>2. k \in Nat
      BY LoopAssumption
    <3>3. asks \in Seq(ToolsForModel \cup Invented)
      BY <3>1, <3>2
    <3> QED
      BY <3>3, LenProperties
  <2> QED
    BY <2>1 DEF ChatAnswers, MInv, ConversationType
<1>3. CASE phase' = "ended" /\ UNCHANGED <<messages, pending>>
  BY <1>1, <1>2, <1>3 DEF MInv, ConversationType
<1>4. CASE /\ asks # <<>> /\ phase' = "dispatch"
           /\ messages' = messages \o calls /\ pending' = calls
  <2>1. /\ messages \in Seq(Message) /\ calls \in Seq(Message) /\ n \in Nat \ {0}
        /\ \A i \in 1 .. n : calls[i].role = "call"
        /\ \A i, j \in 1 .. n : calls[i].id = calls[j].id => i = j
    BY <1>4, CallsFit DEF MInv, ConversationType
  <2>2. PICK told \in Seq(Message), c \in Seq(Message), at, count \in Nat :
          told = messages /\ c = calls /\ at = Len(messages) /\ count = n
    BY <2>1, LenProperties
  <2>3. Answered(told, at)
    BY <1>1, <2>2 DEF MInv
  <2>4. /\ messages' \in Seq(Message) /\ Len(messages') = at + count
        /\ \A i \in 1 .. at : messages'[i] = told[i]
        /\ \A i \in 1 .. count : messages'[at + i] = c[i]
    BY <1>4, <2>1, <2>2, ConcatProperties
  <2>5. Round(messages', at, count, 0)
    <3>1. Answered(messages', at)
      BY <2>3, <2>4, AnsweredStays
    <3>2. /\ \A i \in 1 .. count : c[i].role = "call"
          /\ \A i, j \in 1 .. count : c[i].id = c[j].id => i = j
      BY <2>1, <2>2
    <3>3. \A i \in 1 .. count : messages'[at + i].role = "call"
      BY <2>4, <3>2
    <3>4. ASSUME NEW i \in 1 .. count, NEW j \in 1 .. count,
                 messages'[at + i].id = messages'[at + j].id
          PROVE  i = j
      BY <2>4, <3>2, <3>4
    <3> QED
      BY <2>4, <3>1, <3>3, <3>4 DEF Round
  <2>6. /\ Len(pending') = count - 0
        /\ \A j \in 1 .. count - 0 : pending'[j].id = messages'[at + 0 + j].id
    <3>1. Len(pending') = count /\ \A j \in 1 .. count : pending'[j].id = messages'[at + j].id
      BY <1>4, <2>2, <2>4
    <3>2. count - 0 = count /\ at + 0 = at
      OBVIOUS
    <3> QED
      BY <3>1, <3>2
  <2>7. InRound'
    <3>1. 0 \in Nat /\ 0 < count
      BY <2>1, <2>2
    <3> QED
      BY <2>5, <2>6, <3>1 DEF InRound
  <2> QED
    BY <1>1, <1>2, <1>4, <2>1, <2>4, <2>7 DEF MInv, ConversationType
<1> QED
  BY <1>3, <1>4 DEF ChatAnswers

\* A result answers the first call that is left; the last one closes the round.
LEMMA DispatchMInv == ASSUME MInv, NEW ok \in BOOLEAN, Dispatch(ok) PROVE MInv'
<1>1. /\ phase = "dispatch" /\ UNCHANGED <<issued, provider>>
      /\ messages \in Seq(Message) /\ pending \in Seq(Message)
  BY DEF Dispatch, chatVars, adapterVars, MInv, ConversationType
<1>2. PICK b, n, k \in Nat :
        /\ k < n /\ Round(messages, b, n, k)
        /\ Len(pending) = n - k
        /\ \A j \in 1 .. n - k : pending[j].id = messages[b + k + j].id
  BY <1>1 DEF MInv, InRound
<1>14. k < n /\ Len(pending) = n - k
  BY <1>2
<1>3. PICK told \in Seq(Message), left \in Seq(Message) : told = messages /\ left = pending
  BY <1>1
<1>4. left # <<>> /\ Head(left) = left[1] /\ Len(left) = n - k
  <2>1. Len(left) = n - k /\ n - k > 0
    BY <1>2, <1>3
  <2>2. left # <<>>
    BY <2>1, EmptySeq
  <2> QED
    BY <2>1, <2>2
<1> DEFINE result == [role |-> "result", id |-> Head(left).id]
<1>5. messages' = Append(told, result) /\ pending' = Tail(left)
  BY <1>3 DEF Dispatch, ToolMessage
<1>6. /\ result \in Message /\ result.role = "result"
      /\ result.id = told[b + (k + 1)].id
  <2>1. Head(left) \in Message
    BY <1>4, HeadTailProperties
  <2>2. Head(left).id \in Ids
    BY <2>1, MessageHasId
  <2>3. Head(left).id = told[b + k + 1].id
    BY <1>2, <1>3, <1>4
  <2> QED
    BY <1>2, <2>2, <2>3, MessageIs
<1> HIDE DEF result
<1>7. Len(told) = b + n + k
  BY <1>2, <1>3 DEF Round
<1>8. /\ messages' \in Seq(Message) /\ Len(messages') = b + n + (k + 1)
      /\ \A i \in 1 .. b + n + k : messages'[i] = told[i]
      /\ messages'[b + n + (k + 1)] = result
  <2>1. /\ Append(told, result) \in Seq(Message)
        /\ Len(Append(told, result)) = Len(told) + 1
        /\ \A i \in 1 .. Len(told) : Append(told, result)[i] = told[i]
        /\ Append(told, result)[Len(told) + 1] = result
    BY <1>6, AppendProperties
  <2>2. Len(told) + 1 = b + n + (k + 1)
    BY <1>7
  <2> QED
    BY <1>5, <1>7, <2>1, <2>2
<1>9. /\ pending' \in Seq(Message) /\ Len(pending') = n - (k + 1)
      /\ \A j \in 1 .. n - (k + 1) : pending'[j] = left[j + 1]
  BY <1>2, <1>4, <1>5, HeadTailProperties
<1>10. Round(messages', b, n, k + 1)
  <2>1. Answered(messages', b)
    <3>1. Answered(told, b) /\ \A i \in 1 .. b : messages'[i] = told[i]
      BY <1>2, <1>3, <1>8 DEF Round
    <3> QED
      BY <3>1, AnsweredStays
  <2>2. \A i \in 1 .. n : messages'[b + i] = told[b + i]
    <3>1. \A i \in 1 .. n : b + i \in 1 .. b + n + k
      OBVIOUS
    <3> QED
      BY <1>8, <3>1
  <2>3. /\ \A i \in 1 .. n : messages'[b + i].role = "call"
        /\ \A i, j \in 1 .. n : messages'[b + i].id = messages'[b + j].id => i = j
    BY <1>2, <1>3, <2>2 DEF Round
  <2>4. ASSUME NEW j \in 1 .. k + 1
        PROVE  /\ messages'[b + n + j].role = "result"
               /\ messages'[b + n + j].id = messages'[b + j].id
    <3>1. messages'[b + j] = told[b + j]
      BY <1>2, <1>8
    <3>2. CASE j = k + 1
      BY <1>6, <1>8, <3>1, <3>2
    <3>3. CASE j # k + 1
      <4>1. j \in 1 .. k /\ b + n + j \in 1 .. b + n + k
        BY <3>3
      <4>2. messages'[b + n + j] = told[b + n + j]
        BY <1>2, <1>8, <4>1
      <4> QED
        BY <1>2, <1>3, <3>1, <4>1, <4>2 DEF Round
    <3> QED
      BY <3>2, <3>3
  <2> QED
    BY <1>2, <1>8, <2>1, <2>3, <2>4 DEF Round
<1>11. ConversationType'
  BY <1>1, <1>8, <1>9 DEF MInv, ConversationType
<1>12. CASE Len(pending) > 1
  <2>1. ASSUME NEW j \in 1 .. n - (k + 1)
        PROVE  pending'[j].id = messages'[b + (k + 1) + j].id
    <3>1. left[j + 1].id = told[b + k + (j + 1)].id
      BY <1>2, <1>3
    <3>2. messages'[b + (k + 1) + j] = told[b + k + (j + 1)]
      <4>1. b + k + (j + 1) \in 1 .. b + n + k /\ b + (k + 1) + j = b + k + (j + 1)
        BY <1>14
      <4> QED
        BY <1>8, <4>1
    <3> QED
      BY <1>9, <3>1, <3>2
  <2>2. k + 1 \in Nat /\ k + 1 < n
    BY <1>2, <1>12
  <2>3. InRound'
    BY <1>9, <1>10, <2>1, <2>2 DEF InRound
  <2>4. phase' # "chat"
    BY <1>1, <1>12 DEF Dispatch
  <2> QED
    BY <1>11, <2>3, <2>4 DEF MInv
<1>13. CASE Len(pending) = 1
  <2>1. k + 1 = n
    <3>1. n - k = 1
      BY <1>13, <1>14
    <3> QED
      BY <3>1
  <2>2. Answered(messages', Len(messages'))
    BY <1>10, <2>1, RoundCloses
  <2>3. phase' # "dispatch"
    BY <1>13 DEF Dispatch
  <2> QED
    BY <1>11, <2>2, <2>3 DEF MInv
<1> QED
  BY <1>12, <1>13 DEF Dispatch

LEMMA StepMInv == ASSUME MInv, [LoopNext]_loopVars PROVE MInv'
<1>1. ASSUME NEW f \in Failures, ChatFails(f) PROVE MInv'
  <2>1. /\ phase = "chat" /\ phase' # "dispatch" /\ UNCHANGED <<messages, pending, issued>>
    BY <1>1 DEF ChatFails, adapterVars, conversation
  <2>2. provider' \in DOMAIN Chain
    <3>1. CASE Following # {}
      <4>1. NextProvider \in Available
        BY <3>1, NextFits, ChainFacts DEF MInv, ConversationType
      <4> QED
        BY <1>1, <4>1 DEF ChatFails, Available, MInv, ConversationType
    <3>2. CASE Following = {}
      BY <1>1, <3>2 DEF ChatFails, MInv, ConversationType
    <3> QED
      BY <3>1, <3>2
  <2> QED
    BY <2>1, <2>2 DEF MInv, ConversationType
<1>2. CASE NoProvider \/ BodyGarbled
  BY <1>2 DEF NoProvider, BodyGarbled, chatVars, adapterVars, conversation, MInv, ConversationType
<1>3. ASSUME NEW asks \in Asks, NEW signed \in BOOLEAN, NEW wellFormed \in BOOLEAN,
             ChatAnswers(asks, signed, wellFormed)
      PROVE  MInv'
  BY <1>3, ChatAnswersMInv
<1>4. ASSUME NEW ok \in BOOLEAN, Dispatch(ok) PROVE MInv'
  BY <1>4, DispatchMInv
<1>5. CASE AnalyseTicker
  <2>1. /\ phase' = "chat" /\ messages' = <<>> /\ pending' = <<>>
        /\ issued' = issued /\ provider' = First
    BY <1>5 DEF AnalyseTicker, FreshChat, adapterVars
  <2>2. ConversationType'
    <3>1. First \in DOMAIN Chain /\ <<>> \in Seq(Message)
      BY FirstFits, EmptySeq
    <3> QED
      BY <2>1, <3>1 DEF MInv, ConversationType
  <2>3. Answered(messages', Len(messages'))
    <3>1. Len(messages') = 0
      BY <2>1, EmptySeq
    <3> QED
      BY <3>1 DEF Answered
  <2> QED
    BY <2>1, <2>2, <2>3 DEF MInv
<1>6. CASE UNCHANGED loopVars
  BY <1>6 DEF loopVars, chatVars, adapterVars, conversation, MInv, ConversationType, InRound
<1> QED
  BY <1>1, <1>2, <1>3, <1>4, <1>5, <1>6 DEF LoopNext

\* A conversation sent to a provider is complete: every call has its one result
\* and every result its call (run_model_loop and _dispatch, agent/orchestrator.py).
THEOREM ConversationsComplete == LoopSpec => []RequestsWellFormed
<1>1. MInv => RequestsWellFormed
  BY LenProperties DEF MInv, ConversationType, Answered, RequestsWellFormed
<1> QED
  BY InitMInv, StepMInv, <1>1, PTL DEF LoopSpec
=============================================================================
