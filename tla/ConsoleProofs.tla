--------------------------- MODULE ConsoleProofs ---------------------------
(***************************************************************************)
(* What the dashboard shows side by side belongs together, for any runs,   *)
(* underlyings, configurations and faults; and the journal it shows is the *)
(* one that was written, whichever way it came.                            *)
(***************************************************************************)
EXTENDS Console, Publication, FiniteSetTheorems, SequenceTheorems, WellFoundedInduction, TLAPS

Stages ==
    {"idle", "refused", "stumbled", "context", "turns", "no_proposal_declined",
     "no_proposal_turn_limit", "agent_proposal", "legs", "execute", "place", "placed",
     "failed", "done"}

Working(r) == stage[r] \notin {"idle", "refused", "stumbled", "done"}

GateTypes == {"trade_approved", "trade_rejected"}
Kinds ==
    {"agent_turn", "no_proposal_declined", "no_proposal_turn_limit", "agent_proposal",
     "invalid_proposal", "order_dry_run", "order_failed", "order_filled", "order_submitted"}
        \cup GateTypes
Row == [observed : Int, limit : Int, passed : BOOLEAN]
RuleRows == [R2 : Row, R3 : Row, R4 : Row]
About ==
    Nat \cup {"dry_run", "duplicate", "submitted", "failed"} \cup RuleRows

EventType == [type : Kinds, run : Runs, ticker : STRING, about : About]

ConsoleType ==
    /\ disk \in Configs \cup {Installed} /\ live \subseteq Runs
    /\ config \in [Runs -> Configs \cup {Installed, Missing}]
    /\ stage \in [Runs -> Stages]
    /\ at \in [Runs -> Nat \ {0}]
    /\ turns \in [Runs -> Nat]
    /\ events \in Seq(EventType)
    /\ IsFiniteSet(orders)
    /\ \A r \in Runs : Working(r) => at[r] \in DOMAIN Tickers[r]
    /\ \A r \in Runs : stage[r] = "idle" => at[r] = 1
    /\ \A r \in Runs : stage[r] \in {"place", "placed", "failed"} => r \in live
    \* Who has started has loaded a configuration.
    /\ \A r \in Runs : stage[r] \notin {"idle", "refused"} =>
          config[r] \in Configs \cup {Installed} /\ RequiredKeys \subseteq config[r].keys

-----------------------------------------------------------------------------
(***************************************************************************)
(* Keys.                                                                   *)
(***************************************************************************)

\* Every key but one that is read without a default is asked for.
LEMMA AskedFor ==
    ASSUME NEW c, RequiredKeys \subseteq c.keys
    PROVE  /\ ~ Stumbles("start", c) /\ ~ Stumbles("loop", c)
           /\ ~ Stumbles("gate", c) /\ ~ Stumbles("sidebar", c)
           /\ Stumbles("analysis", c) => "chain.limit" \notin c.keys
  BY DEF Stumbles, Reads, RequiredKeys, RequiredRiskKeys, RequiredAgentKeys, RequiredOptionsKeys

-----------------------------------------------------------------------------
(***************************************************************************)
(* The journal, one event at a time.                                       *)
(***************************************************************************)

\* What a verdict says of a rule agrees with the limit it names, but for the rules
\* that fail over a size of zero.
Agrees(checks) ==
    /\ IF checks.R2.passed THEN checks.R2.observed <= checks.R2.limit
                           ELSE checks.R2.observed = 0
    /\ IF checks.R3.passed THEN Abs(checks.R3.observed) <= checks.R3.limit
       ELSE Abs(checks.R3.observed) > checks.R3.limit \/ checks.R2.observed = 0
    /\ checks.R4.passed <=> checks.R4.observed >= checks.R4.limit

\* Run r appends event e.
Adds(r, e) ==
    /\ events' = Append(events, e) /\ Working(r)
    /\ e.run = r /\ e.ticker = Ticker(r)
    /\ e.type = "agent_turn" => e.about = turns[r] + 1
    /\ e.type \in AgentEvents => e.about \in {0, turns[r]}
    /\ e.type \in GateTypes => e.about \in RuleRows /\ Agrees(e.about)

LEMMA TickerIsString ==
    ASSUME ConsoleType, NEW r \in Runs, Working(r)
    PROVE  Ticker(r) \in STRING
  BY ConsoleAssumption DEF ConsoleType, Ticker

LEMMA LogsAdds ==
    ASSUME ConsoleType, NEW r \in Runs, Working(r), NEW type \in Kinds, NEW about \in About,
           Logs(r, type, about),
           type = "agent_turn" => about = turns[r] + 1,
           type \in AgentEvents => about \in {0, turns[r]},
           type \in GateTypes => about \in RuleRows /\ Agrees(about)
    PROVE  \E e \in EventType : Adds(r, e) /\ e.type = type /\ e.about = about
<1> DEFINE e == [type |-> type, run |-> r, ticker |-> Ticker(r), about |-> about]
<1>1. e \in EventType
  BY TickerIsString DEF EventType
<1>2. events' = Append(events, e)
  BY DEF Logs
<1>3. e.run = r /\ e.ticker = Ticker(r) /\ e.type = type /\ e.about = about
  OBVIOUS
<1> HIDE DEF e
<1> QED
  BY <1>1, <1>2, <1>3 DEF Adds

\* Multiplying by a natural number keeps an order.
LEMMA KeepsOrder ==
    ASSUME NEW a \in Nat, NEW m \in Int, NEW n \in Int, m <= n
    PROVE  a * m \in Int /\ a * n \in Int /\ a * m <= a * n
  OBVIOUS

LEMMA DivisionFloor ==
    ASSUME NEW b \in Int, NEW d \in Nat \ {0}
    PROVE  b \div d \in Int /\ d * (b \div d) \in Int /\ d * (b \div d) <= b
  OBVIOUS

LEMMA LimitsAreNumbers ==
    ASSUME NEW c \in Configs \cup {Installed}
    PROVE  LossBudget(c) \in Int /\ DeltaLimit(c) \in Int /\ c.minCredit \in Int
<1>1. c.maxLossPct \in Int /\ c.maxDeltaPct \in Int /\ c.minCredit \in Int /\ Nav \in Int
  BY ConsoleAssumption
<1>2. \A a, b \in Int : (a * b) \div 100 \in Int
  OBVIOUS
<1> QED
  BY <1>1, <1>2 DEF LossBudget, DeltaLimit

Figures == [credit : Int, loss : Int, delta : Int, book : Int, wanted : Int]

\* The size is a number, of which the loss budget alone allows no fewer.
LEMMA SizeFacts ==
    ASSUME NEW seen \in Figures, NEW c \in Configs \cup {Installed}
    PROVE  /\ Size(seen, c) \in Nat /\ Affordable(seen, c) \in Int
           /\ Size(seen, c) > 0 => Size(seen, c) <= Affordable(seen, c)
           /\ Affordable(seen, c) >= 1 => seen.loss > 0
           /\ seen.loss > 0 => seen.loss * Affordable(seen, c) <= LossBudget(c)
<1>1. /\ seen.loss \in Int /\ seen.delta \in Int /\ seen.book \in Int /\ seen.wanted \in Int
      /\ LossBudget(c) \in Int /\ DeltaLimit(c) \in Int
  BY LimitsAreNumbers DEF Figures
<1>2. /\ Affordable(seen, c) \in Int
      /\ Affordable(seen, c) >= 1 => seen.loss > 0
      /\ seen.loss > 0 => seen.loss * Affordable(seen, c) <= LossBudget(c)
  <2>1. CASE seen.loss > 0
    <3>1. Affordable(seen, c) = LossBudget(c) \div seen.loss
      BY <2>1 DEF Affordable
    <3>2. seen.loss \in Nat \ {0}
      BY <1>1, <2>1
    <3> QED
      BY <1>1, <2>1, <3>1, <3>2, DivisionFloor
  <2>2. CASE ~ (seen.loss > 0)
    <3>1. Affordable(seen, c) = 0
      BY <2>2 DEF Affordable
    <3> QED
      BY <2>2, <3>1
  <2> QED
    BY <2>1, <2>2
<1>3. DeltaAffordable(seen, c) \in Int
  <2>1. CASE seen.delta = 0
    BY <1>2, <2>1 DEF DeltaAffordable
  <2>2. CASE seen.delta # 0
    <3>1. Abs(seen.delta) \in Nat \ {0}
      BY <1>1, <2>2 DEF Abs
    <3>2. AtLeastZero(DeltaLimit(c) - Abs(seen.book)) \in Int
      BY <1>1 DEF AtLeastZero, Abs
    <3>3. AtLeastZero(DeltaLimit(c) - Abs(seen.book)) \div Abs(seen.delta) \in Int
      BY <3>1, <3>2, DivisionFloor
    <3> QED
      BY <2>2, <3>3 DEF DeltaAffordable
  <2> QED
    BY <2>1, <2>2
<1>4. PICK a \in Int, d \in Int, w \in Int :
         a = Affordable(seen, c) /\ d = DeltaAffordable(seen, c) /\ w = seen.wanted
  BY <1>1, <1>2, <1>3
<1>5. Size(seen, c) = AtLeastZero(Lesser(w, Lesser(a, d)))
  BY <1>4 DEF Size
<1>6. /\ AtLeastZero(Lesser(w, Lesser(a, d))) \in Nat
      /\ AtLeastZero(Lesser(w, Lesser(a, d))) > 0 => AtLeastZero(Lesser(w, Lesser(a, d))) <= a
  BY DEF AtLeastZero, Lesser
<1> QED
  BY <1>2, <1>4, <1>5, <1>6

LEMMA CheckFacts ==
    ASSUME NEW seen \in Figures, NEW c \in Configs \cup {Installed}
    PROVE  Checks(seen, c) \in RuleRows /\ Agrees(Checks(seen, c))
<1>1. PICK n \in Nat, most \in Int, loss \in Int, budget \in Int :
         n = Size(seen, c) /\ most = Affordable(seen, c) /\ loss = seen.loss /\ budget = LossBudget(c)
  BY SizeFacts, LimitsAreNumbers DEF Figures
<1>2. /\ n > 0 => n <= most
      /\ most >= 1 => loss > 0
      /\ loss > 0 => loss * most <= budget
  BY <1>1, SizeFacts
<1>3. PICK credit \in Int, least \in Int, edge \in Int :
         credit = seen.credit /\ least = c.minCredit /\ edge = DeltaLimit(c)
  BY LimitsAreNumbers DEF Figures
<1>4. PICK projected \in Int : projected = seen.book + seen.delta * n
  <2>1. \A a, b \in Int : a + b * n \in Int
    OBVIOUS
  <2> QED
    BY <2>1 DEF Figures
<1> DEFINE r2 == [observed |-> loss * n, limit |-> budget,
                  passed |-> most >= 1 /\ loss * most <= budget]
           r3 == [observed |-> projected, limit |-> edge,
                  passed |-> n >= 1 /\ Abs(projected) <= edge]
           r4 == [observed |-> credit, limit |-> least, passed |-> credit >= least]
<1>5. Checks(seen, c) = [R2 |-> r2, R3 |-> r3, R4 |-> r4]
  BY <1>1, <1>3, <1>4 DEF Checks
<1>6. loss * n \in Int /\ (n = 0 => loss * n = 0)
  OBVIOUS
<1>7. r2 \in Row /\ r3 \in Row /\ r4 \in Row
  BY <1>6 DEF Row
<1>8. /\ r2.observed = loss * n /\ r2.limit = budget
      /\ r2.passed <=> most >= 1 /\ loss * most <= budget
      /\ r3.observed = projected /\ r3.limit = edge
      /\ r3.passed <=> n >= 1 /\ Abs(projected) <= edge
      /\ r4.observed = credit /\ r4.limit = least /\ (r4.passed <=> credit >= least)
  OBVIOUS
<1> HIDE DEF r2, r3, r4
<1>9. /\ r2.passed => loss * n <= budget
      /\ ~ r2.passed => loss * n = 0
  <2>1. CASE most >= 1
    <3>1. loss \in Nat /\ n <= most /\ loss * most <= budget
      BY <1>2, <2>1
    <3>2. loss * n <= loss * most /\ loss * most \in Int
      BY <3>1, KeepsOrder
    <3> QED
      BY <1>6, <1>8, <2>1, <3>1, <3>2
  <2>2. CASE ~ (most >= 1)
    <3>1. n = 0
      BY <1>2, <2>2
    <3> QED
      BY <1>6, <1>8, <2>2, <3>1
  <2> QED
    BY <2>1, <2>2
<1>10. PICK size \in Int : size = Abs(projected)
  BY DEF Abs
<1>11. /\ r3.passed => size <= edge
       /\ ~ r3.passed => size > edge \/ loss * n = 0
  <2>1. n = 0 \/ n >= 1
    OBVIOUS
  <2> QED
    BY <1>6, <1>8, <1>10, <2>1
<1>12. Agrees([R2 |-> r2, R3 |-> r3, R4 |-> r4])
  BY <1>8, <1>9, <1>10, <1>11 DEF Agrees
<1> QED
  BY <1>5, <1>7, <1>12 DEF RuleRows

LEMMA NextTickerFacts ==
    ASSUME ConsoleType, NEW r \in Runs, Working(r), NextTicker(r)
    PROVE  /\ stage' \in [Runs -> Stages] /\ at' \in [Runs -> Nat \ {0}]
           /\ turns' \in [Runs -> Nat]
           /\ at'[r] = at[r] + 1 /\ turns'[r] = 0 /\ stage'[r] \in {"context", "done"}
           /\ stage'[r] # "done" => at'[r] \in DOMAIN Tickers[r]
           /\ \A x \in Runs : x # r => /\ stage'[x] = stage[x] /\ at'[x] = at[x]
                                     /\ turns'[x] = turns[x]
<1>1. PICK last \in Nat : last = Len(Tickers[r]) /\ DOMAIN Tickers[r] = 1 .. last
  BY ConsoleAssumption
<1>2. PICK k \in 1 .. last : k = at[r]
  BY <1>1 DEF ConsoleType
<1>3. stage' = [stage EXCEPT ![r] = IF k < last THEN "context" ELSE "done"]
  BY <1>1, <1>2 DEF NextTicker, Moves
<1>4. stage'[r] # "done" => k + 1 \in 1 .. last
  BY <1>2, <1>3 DEF ConsoleType
<1> QED
  BY <1>1, <1>2, <1>3, <1>4 DEF NextTicker, ConsoleType, Stages

\* What a step of run r leaves alone, and what it may do to its own place.
Keeps(r) ==
    /\ stage' \in [Runs -> Stages] /\ at' \in [Runs -> Nat \ {0}] /\ turns' \in [Runs -> Nat]
    /\ \A x \in Runs : x # r => stage'[x] = stage[x] /\ at'[x] = at[x] /\ turns'[x] = turns[x]
    /\ Working(r)' => at'[r] \in DOMAIN Tickers[r]
    /\ stage'[r] # "idle"
    /\ UNCHANGED <<disk, live, page>>

\* The underlying stays, or it is the next one's turn, with no turn taken yet.
GoesOn(r) ==
    \/ at'[r] = at[r] /\ turns'[r] = turns[r] /\ stage'[r] \notin {"idle", "context", "turns"}
    \/ at'[r] = at[r] + 1 /\ turns'[r] = 0

\* What each step of a run does to the journal, to the orders, and to its place.
StepOf(r) ==
    \/ /\ stage[r] = "idle" /\ stage'[r] \in {"refused", "stumbled", "context", "done"}
       /\ UNCHANGED <<at, turns, events, orders>>
    \/ /\ stage[r] = "context" /\ stage'[r] \in {"stumbled", "turns"}
       /\ UNCHANGED <<at, turns, events, orders>>
    \/ /\ stage[r] = "turns" /\ stage'[r] \notin {"idle", "context", "placed", "place", "failed"}
       /\ \E e \in EventType : Adds(r, e) /\ e.type = "agent_turn"
       /\ turns'[r] = turns[r] + 1 /\ UNCHANGED <<at, orders>>
    \/ /\ stage[r] \notin {"idle", "context", "turns", "place", "placed", "failed"}
       /\ stage'[r] \notin {"placed", "failed"}
       /\ Working(r) /\ GoesOn(r) /\ UNCHANGED orders
       /\ stage'[r] = "place" => r \in live
       /\ \/ UNCHANGED events
          \/ \E e \in EventType :
                /\ Adds(r, e) /\ e.type # "agent_turn"
                /\ e.type \in {"order_submitted", "order_filled"} =>
                      e.type = "order_submitted" /\ e.about = "duplicate"
    \/ /\ stage[r] = "place" /\ stage'[r] = IF Known(r) THEN "failed" ELSE "placed"
       /\ orders' = orders \cup {Ticker(r)} /\ UNCHANGED <<at, turns, events>>
    \/ /\ stage[r] \in {"placed", "failed"} /\ GoesOn(r) /\ UNCHANGED orders
       /\ stage'[r] \in {"context", "done"}
       /\ \E e \in EventType :
             /\ Adds(r, e)
             /\ \/ stage[r] = "placed" /\ e.type = "order_submitted" /\ e.about = "submitted"
                \/ e.type = "order_failed"
                \/ e.type = "no_proposal_turn_limit" /\ e.about = 0
    \/ /\ stage[r] \in {"context", "turns", "legs", "execute", "place"}
       /\ GoesOn(r) /\ stage'[r] \in {"context", "done"} /\ UNCHANGED orders
       /\ \/ UNCHANGED events
          \/ \E e \in EventType : Adds(r, e) /\ e.type = "no_proposal_turn_limit"

LEMMA StartStep ==
    ASSUME ConsoleType, NEW r \in Runs, Start(r)
    PROVE  /\ Keeps(r) /\ StepOf(r) /\ config' \in [Runs -> Configs \cup {Installed, Missing}]
           /\ \A x \in Runs : x # r => config'[x] = config[x]
           /\ stage'[r] # "refused" =>
                 config'[r] \in Configs \cup {Installed} /\ RequiredKeys \subseteq config'[r].keys
           /\ stage'[r] # "stumbled"
<1>1. stage[r] = "idle" /\ at[r] = 1 /\ Tickers[r] \in Seq(STRING)
  BY ConsoleAssumption DEF Start, ConsoleType
<1>2. /\ stage' = [stage EXCEPT ![r] = stage'[r]]
      /\ stage'[r] \in {"refused", "stumbled", "context", "done"}
      /\ stage'[r] = "refused" <=> ~ Loads(disk, TRUE)
      /\ stage'[r] = "stumbled" => Loads(disk, TRUE) /\ Stumbles("start", disk)
      /\ stage'[r] = "context" => Tickers[r] # <<>>
  BY DEF Start, Moves, ConsoleType
<1>3. /\ config' = [config EXCEPT ![r] = disk]
      /\ UNCHANGED <<disk, live, at, turns, events, orders, page>>
  BY DEF Start
<1>4. Loads(disk, TRUE) => RequiredKeys \subseteq disk.keys
  BY DEF Loads
<1>5. stage'[r] = "context" => at'[r] \in DOMAIN Tickers[r]
  BY <1>1, <1>2, <1>3
<1>6. stage'[r] # "stumbled"
  BY <1>2, <1>4, AskedFor
<1>7. Keeps(r)
  BY <1>1, <1>2, <1>3, <1>5, <1>6 DEF Keeps, ConsoleType, Working, Stages
<1>8. StepOf(r)
  BY <1>1, <1>2, <1>3 DEF StepOf
<1> QED
  BY <1>2, <1>3, <1>4, <1>6, <1>7, <1>8 DEF ConsoleType

LEMMA MarketContextStep ==
    ASSUME ConsoleType, NEW r \in Runs, MarketContext(r)
    PROVE  /\ Keeps(r) /\ StepOf(r) /\ UNCHANGED config
           /\ stage'[r] = "stumbled" => "chain.limit" \notin config[r].keys
<1>1. stage[r] = "context" /\ at[r] \in DOMAIN Tickers[r] /\ RequiredKeys \subseteq config[r].keys
  BY DEF MarketContext, ConsoleType, Working
<1>2. /\ stage' = [stage EXCEPT ![r] = stage'[r]] /\ stage'[r] \in {"stumbled", "turns"}
      /\ stage'[r] = "stumbled" =>
            Stumbles("analysis", config[r]) \/ Stumbles("loop", config[r])
      /\ UNCHANGED <<disk, live, config, at, turns, events, orders, page>>
  BY DEF MarketContext, Moves, Stays, ConsoleType
<1>3. stage'[r] = "stumbled" => "chain.limit" \notin config[r].keys
  BY <1>1, <1>2, AskedFor
<1>4. Keeps(r)
  BY <1>1, <1>2 DEF Keeps, ConsoleType, Working, Stages
<1>5. StepOf(r)
  BY <1>1, <1>2 DEF StepOf
<1> QED
  BY <1>2, <1>3, <1>4, <1>5

LEMMA AgentTurnStep ==
    ASSUME ConsoleType, NEW r \in Runs, AgentTurn(r)
    PROVE  Keeps(r) /\ StepOf(r) /\ UNCHANGED config /\ stage'[r] # "stumbled"
<1>1. stage[r] = "turns" /\ Working(r) /\ at[r] \in DOMAIN Tickers[r] /\ turns[r] \in Nat
  BY DEF AgentTurn, ConsoleType, Working
<1>2. /\ stage' = [stage EXCEPT ![r] = stage'[r]]
      /\ stage'[r] \in {"turns", "no_proposal_declined", "agent_proposal", "no_proposal_turn_limit"}
      /\ turns' = [turns EXCEPT ![r] = @ + 1] /\ turns'[r] = turns[r] + 1
      /\ UNCHANGED <<disk, live, config, at, orders, page>>
  BY DEF AgentTurn, Moves, ConsoleType
<1>3. Logs(r, "agent_turn", turns[r] + 1)
  BY DEF AgentTurn
<1>4. \E e \in EventType : Adds(r, e) /\ e.type = "agent_turn"
  <2>0. "agent_turn" \in Kinds
    BY DEF Kinds
  <2>1. turns[r] + 1 \in Nat
    BY <1>1
  <2>2. "agent_turn" \notin AgentEvents /\ "agent_turn" \notin GateTypes
    BY DEF AgentEvents, NoProposal, GateTypes
  <2>3. turns[r] + 1 \in About
    BY <2>1 DEF About
  <2> QED
    BY <1>1, <1>3, <2>0, <2>1, <2>2, <2>3, LogsAdds
<1>5. Keeps(r)
  <2>1. turns' \in [Runs -> Nat]
    BY <1>2 DEF ConsoleType
  <2>2. stage' \in [Runs -> Stages]
    BY <1>2 DEF ConsoleType, Stages
  <2>3. at' \in [Runs -> Nat \ {0}]
    BY <1>2 DEF ConsoleType
  <2>4. \A x \in Runs : x # r =>
           stage'[x] = stage[x] /\ at'[x] = at[x] /\ turns'[x] = turns[x]
    BY <1>2 DEF ConsoleType
  <2> QED
    BY <1>1, <1>2, <2>1, <2>2, <2>3, <2>4 DEF Keeps
<1>6. StepOf(r)
  BY <1>1, <1>2, <1>4 DEF StepOf
<1> QED
  BY <1>2, <1>5, <1>6

\* The underlying is done with: what that says of the place of the run.
LEMMA NextTickerStep ==
    ASSUME ConsoleType, NEW r \in Runs, Working(r), NextTicker(r), UNCHANGED <<disk, live, page>>
    PROVE  Keeps(r) /\ GoesOn(r) /\ stage'[r] \in {"context", "done"}
<1>1. /\ stage' \in [Runs -> Stages] /\ at' \in [Runs -> Nat \ {0}]
      /\ turns' \in [Runs -> Nat]
      /\ at'[r] = at[r] + 1 /\ turns'[r] = 0 /\ stage'[r] \in {"context", "done"}
      /\ stage'[r] # "done" => at'[r] \in DOMAIN Tickers[r]
      /\ \A x \in Runs : x # r => stage'[x] = stage[x] /\ at'[x] = at[x] /\ turns'[x] = turns[x]
  BY NextTickerFacts
<1> QED
  BY <1>1 DEF Keeps, GoesOn, Working

\* A run moves on with its underlying.
LEMMA MovesStep ==
    ASSUME ConsoleType, NEW r \in Runs, Working(r), NEW to \in Stages \ {"idle"}, Moves(r, to), Stays(r),
           UNCHANGED <<disk, live, page>>
    PROVE  /\ Keeps(r) /\ stage'[r] = to
           /\ to \notin {"idle", "context", "turns"} => GoesOn(r)
<1>1. stage' = [stage EXCEPT ![r] = to] /\ UNCHANGED <<at, turns>>
  BY DEF Moves, Stays
<1>2. stage' \in [Runs -> Stages] /\ stage'[r] = to
  BY <1>1 DEF ConsoleType
<1>3. at[r] \in DOMAIN Tickers[r]
  BY DEF ConsoleType
<1> QED
  BY <1>1, <1>2, <1>3 DEF Keeps, GoesOn, ConsoleType

LEMMA LogNoProposalStep ==
    ASSUME ConsoleType, NEW r \in Runs, LogNoProposal(r)
    PROVE  Keeps(r) /\ StepOf(r) /\ UNCHANGED config /\ stage'[r] # "stumbled"
<1>1. stage[r] \in NoProposal /\ Working(r) /\ turns[r] \in Nat
  BY DEF LogNoProposal, NoProposal, ConsoleType, Working
<1>2. NextTicker(r) /\ UNCHANGED <<disk, live, config, orders, page>>
  BY DEF LogNoProposal
<1>3. Keeps(r) /\ GoesOn(r) /\ stage'[r] \in {"context", "done"}
  BY <1>1, <1>2, NextTickerStep
<1>4. \E e \in EventType : Adds(r, e) /\ e.type = stage[r]
  <2>1. stage[r] \in Kinds /\ turns[r] \in About
    BY <1>1 DEF NoProposal, Kinds, About
  <2>2. stage[r] # "agent_turn" /\ stage[r] \notin GateTypes
    BY <1>1 DEF NoProposal, GateTypes
  <2>3. Logs(r, stage[r], turns[r])
    BY DEF LogNoProposal
  <2> QED
    BY <1>1, <2>1, <2>2, <2>3, LogsAdds
<1>5. StepOf(r)
  BY <1>1, <1>2, <1>3, <1>4 DEF StepOf, NoProposal
<1> QED
  BY <1>2, <1>3, <1>5

LEMMA LogAgentProposalStep ==
    ASSUME ConsoleType, NEW r \in Runs, LogAgentProposal(r)
    PROVE  Keeps(r) /\ StepOf(r) /\ UNCHANGED config /\ stage'[r] # "stumbled"
<1>1. stage[r] = "agent_proposal" /\ Working(r) /\ turns[r] \in Nat
  BY DEF LogAgentProposal, ConsoleType, Working
<1>2. Moves(r, "legs") /\ Stays(r) /\ UNCHANGED <<disk, live, config, orders, page>>
  BY DEF LogAgentProposal
<1>3. Keeps(r) /\ GoesOn(r) /\ stage'[r] = "legs"
  BY <1>1, <1>2, MovesStep DEF Stages
<1>4. \E e \in EventType : Adds(r, e) /\ e.type = "agent_proposal"
  <2>1. "agent_proposal" \in Kinds /\ turns[r] \in About
    BY <1>1 DEF Kinds, About
  <2>2. "agent_proposal" \notin GateTypes
    BY DEF GateTypes
  <2>3. Logs(r, "agent_proposal", turns[r])
    BY DEF LogAgentProposal
  <2> QED
    BY <1>1, <2>1, <2>2, <2>3, LogsAdds
<1>5. StepOf(r)
  BY <1>1, <1>2, <1>3, <1>4 DEF StepOf
<1> QED
  BY <1>2, <1>3, <1>5

LEMMA LogInvalidProposalStep ==
    ASSUME ConsoleType, NEW r \in Runs, LogInvalidProposal(r)
    PROVE  Keeps(r) /\ StepOf(r) /\ UNCHANGED config /\ stage'[r] # "stumbled"
<1>1. stage[r] = "legs" /\ Working(r) /\ turns[r] \in Nat
  BY DEF LogInvalidProposal, ConsoleType, Working
<1>2. NextTicker(r) /\ UNCHANGED <<disk, live, config, orders, page>>
  BY DEF LogInvalidProposal
<1>3. Keeps(r) /\ GoesOn(r) /\ stage'[r] \in {"context", "done"}
  BY <1>1, <1>2, NextTickerStep
<1>4. \E e \in EventType : Adds(r, e) /\ e.type = "invalid_proposal"
  <2>1. "invalid_proposal" \in Kinds /\ turns[r] \in About
    BY <1>1 DEF Kinds, About
  <2>2. "invalid_proposal" \notin GateTypes
    BY DEF GateTypes
  <2>3. Logs(r, "invalid_proposal", turns[r])
    BY DEF LogInvalidProposal
  <2> QED
    BY <1>1, <2>1, <2>2, <2>3, LogsAdds
<1>5. StepOf(r)
  BY <1>1, <1>2, <1>3, <1>4 DEF StepOf
<1> QED
  BY <1>2, <1>3, <1>5

LEMMA LogGateDecisionStep ==
    ASSUME ConsoleType, NEW r \in Runs, LogGateDecision(r)
    PROVE  Keeps(r) /\ StepOf(r) /\ UNCHANGED config /\ stage'[r] # "stumbled"
<1>1. /\ stage[r] = "legs" /\ Working(r) /\ config[r] \in Configs \cup {Installed}
      /\ RequiredKeys \subseteq config[r].keys
  BY DEF LogGateDecision, ConsoleType, Working
<1>2. ~ Stumbles("gate", config[r])
  BY <1>1, AskedFor
<1>3. UNCHANGED <<disk, live, config, orders, page>>
  BY DEF LogGateDecision
<1>4. PICK seen \in Observations[Ticker(r)] :
         LET checks == Checks(seen, config[r])
             approved == \A rule \in DOMAIN checks : checks[rule].passed
         IN  /\ Logs(r, IF approved THEN "trade_approved" ELSE "trade_rejected", checks)
             /\ IF approved /\ Opened(r) < MaxNew
                THEN Moves(r, "execute") /\ Stays(r) ELSE NextTicker(r)
  BY <1>2 DEF LogGateDecision
<1> DEFINE checks == Checks(seen, config[r])
<1>5. PICK type \in GateTypes : Logs(r, type, checks)
  BY <1>4 DEF GateTypes
<1>6. \/ Moves(r, "execute") /\ Stays(r)
      \/ NextTicker(r)
  BY <1>4
<1>7. checks \in RuleRows /\ Agrees(checks)
  <2>1. Observations[Ticker(r)] \subseteq Figures
    BY <1>1, ConsoleAssumption DEF ConsoleType, Ticker, Figures
  <2> QED
    BY <1>1, <2>1, CheckFacts
<1> HIDE DEF checks
<1>8. Keeps(r) /\ GoesOn(r) /\ stage'[r] \in {"execute", "context", "done"}
  <2>1. CASE Moves(r, "execute") /\ Stays(r)
    BY <1>1, <1>3, <2>1, MovesStep DEF Stages
  <2>2. CASE NextTicker(r)
    BY <1>1, <1>3, <2>2, NextTickerStep
  <2> QED
    BY <1>6, <2>1, <2>2
<1>9. \E e \in EventType : Adds(r, e) /\ e.type \in GateTypes
  <2>1. type \in Kinds /\ checks \in About
    BY <1>7 DEF Kinds, About
  <2>2. type # "agent_turn" /\ type \notin AgentEvents
    BY DEF GateTypes, AgentEvents, NoProposal
  <2> QED
    BY <1>1, <1>5, <1>7, <2>1, <2>2, LogsAdds
<1>10. StepOf(r)
  BY <1>1, <1>3, <1>8, <1>9 DEF StepOf, GateTypes
<1> QED
  BY <1>3, <1>8, <1>10

\* What log_execution journals.
LEMMA LogSuccessAdds ==
    ASSUME ConsoleType, NEW r \in Runs, Working(r),
           NEW status \in {"dry_run", "duplicate", "submitted", "failed"},
           LogExecution(r, Result(r, TRUE, status))
    PROVE  \E e \in EventType :
              /\ Adds(r, e) /\ e.about = status
              /\ e.type = IF r \in live THEN "order_submitted" ELSE "order_dry_run"
<1> DEFINE type == IF r \in live THEN "order_submitted" ELSE "order_dry_run"
<1>1. EventOf(Result(r, TRUE, status)) = type /\ Result(r, TRUE, status).status = status
  BY DEF EventOf, Result
<1>2. Logs(r, type, status)
  BY <1>1 DEF LogExecution
<1>3. /\ type \in Kinds /\ status \in About /\ type # "agent_turn"
      /\ type \notin AgentEvents /\ type \notin GateTypes
  BY DEF Kinds, About, AgentEvents, NoProposal, GateTypes
<1> HIDE DEF type
<1>4. \E e \in EventType : Adds(r, e) /\ e.about = status /\ e.type = type
  BY <1>2, <1>3, LogsAdds
<1> QED
  BY <1>4 DEF type

LEMMA LogFailureAdds ==
    ASSUME ConsoleType, NEW r \in live, r \in Runs, Working(r),
           LogExecution(r, Result(r, FALSE, "failed"))
    PROVE  \E e \in EventType : Adds(r, e) /\ e.type = "order_failed"
<1>1. /\ EventOf(Result(r, FALSE, "failed")) = "order_failed"
      /\ Result(r, FALSE, "failed").status = "failed"
  BY DEF EventOf, Result
<1>2. Logs(r, "order_failed", "failed")
  BY <1>1 DEF LogExecution
<1>3. /\ "order_failed" \in Kinds /\ "failed" \in About /\ "order_failed" # "agent_turn"
      /\ "order_failed" \notin AgentEvents /\ "order_failed" \notin GateTypes
  BY DEF Kinds, About, AgentEvents, NoProposal, GateTypes
<1> QED
  BY <1>2, <1>3, LogsAdds

LEMMA ExecuteWithoutPlacingStep ==
    ASSUME ConsoleType, NEW r \in Runs, ExecuteWithoutPlacing(r)
    PROVE  /\ Keeps(r) /\ StepOf(r) /\ UNCHANGED config /\ stage'[r] # "stumbled"
           /\ stage'[r] = "place" => r \in live
<1>1. stage[r] = "execute" /\ Working(r)
  BY DEF ExecuteWithoutPlacing, Working
<1>2. UNCHANGED <<disk, live, config, orders, page>>
  BY DEF ExecuteWithoutPlacing
<1>3. \/ r \notin live /\ LogExecution(r, Result(r, TRUE, "dry_run")) /\ NextTicker(r)
      \/ r \in live /\ LogExecution(r, Result(r, TRUE, "duplicate")) /\ NextTicker(r)
      \/ r \in live /\ Moves(r, "place") /\ Stays(r) /\ UNCHANGED events
  BY DEF ExecuteWithoutPlacing
<1>4. CASE r \notin live /\ LogExecution(r, Result(r, TRUE, "dry_run")) /\ NextTicker(r)
  <2>1. Keeps(r) /\ GoesOn(r) /\ stage'[r] \in {"context", "done"}
    BY <1>1, <1>2, <1>4, NextTickerStep
  <2>2. \E e \in EventType : Adds(r, e) /\ e.type = "order_dry_run"
    BY <1>1, <1>4, LogSuccessAdds
  <2>3. StepOf(r)
    BY <1>1, <1>2, <2>1, <2>2 DEF StepOf
  <2> QED
    BY <1>2, <2>1, <2>3
<1>5. CASE r \in live /\ LogExecution(r, Result(r, TRUE, "duplicate")) /\ NextTicker(r)
  <2>1. Keeps(r) /\ GoesOn(r) /\ stage'[r] \in {"context", "done"}
    BY <1>1, <1>2, <1>5, NextTickerStep
  <2>2. \E e \in EventType :
           Adds(r, e) /\ e.type = "order_submitted" /\ e.about = "duplicate"
    BY <1>1, <1>5, LogSuccessAdds
  <2>3. StepOf(r)
    BY <1>1, <1>2, <2>1, <2>2 DEF StepOf
  <2> QED
    BY <1>2, <2>1, <2>3
<1>6. CASE r \in live /\ Moves(r, "place") /\ Stays(r) /\ UNCHANGED events
  <2>1. Keeps(r) /\ GoesOn(r) /\ stage'[r] = "place"
    BY <1>1, <1>2, <1>6, MovesStep DEF Stages
  <2>2. StepOf(r)
    BY <1>1, <1>2, <1>6, <2>1 DEF StepOf
  <2> QED
    BY <1>2, <1>6, <2>1, <2>2
<1> QED
  BY <1>3, <1>4, <1>5, <1>6

LEMMA PlaceStep ==
    ASSUME ConsoleType, NEW r \in Runs, Place(r)
    PROVE  Keeps(r) /\ StepOf(r) /\ UNCHANGED config /\ stage'[r] # "stumbled"
<1>1. stage[r] = "place" /\ Working(r)
  BY DEF Place, Working
<1>2. /\ UNCHANGED <<disk, live, config, events, page>>
      /\ orders' = orders \cup {Ticker(r)}
      /\ Moves(r, IF Known(r) THEN "failed" ELSE "placed") /\ Stays(r)
  BY DEF Place
<1>3. Keeps(r) /\ stage'[r] = IF Known(r) THEN "failed" ELSE "placed"
  <2>1. (IF Known(r) THEN "failed" ELSE "placed") \in Stages \ {"idle"}
    BY DEF Stages
  <2> QED
    BY <1>1, <1>2, <2>1, MovesStep
<1>4. StepOf(r)
  BY <1>1, <1>2, <1>3 DEF StepOf, Stays
<1> QED
  BY <1>2, <1>3, <1>4

LEMMA LogPlacementStep ==
    ASSUME ConsoleType, NEW r \in Runs, LogPlacement(r)
    PROVE  Keeps(r) /\ StepOf(r) /\ UNCHANGED config /\ stage'[r] # "stumbled"
<1>1. stage[r] \in {"placed", "failed"} /\ Working(r) /\ r \in live
  BY DEF LogPlacement, Working, ConsoleType
<1>2. UNCHANGED <<disk, live, config, orders, page>> /\ NextTicker(r)
  BY DEF LogPlacement
<1>3. \/ stage[r] = "placed" /\ LogExecution(r, Result(r, TRUE, "submitted"))
      \/ LogExecution(r, Result(r, FALSE, "failed"))
  BY DEF LogPlacement
<1>4. Keeps(r) /\ GoesOn(r) /\ stage'[r] \in {"context", "done"}
  BY <1>1, <1>2, NextTickerStep
<1>5. \E e \in EventType :
         /\ Adds(r, e)
         /\ \/ stage[r] = "placed" /\ e.type = "order_submitted" /\ e.about = "submitted"
            \/ e.type = "order_failed"
  <2>1. CASE stage[r] = "placed" /\ LogExecution(r, Result(r, TRUE, "submitted"))
    BY <1>1, <2>1, LogSuccessAdds
  <2>2. CASE LogExecution(r, Result(r, FALSE, "failed"))
    BY <1>1, <2>2, LogFailureAdds
  <2> QED
    BY <1>3, <2>1, <2>2
<1>6. StepOf(r)
  BY <1>1, <1>2, <1>4, <1>5 DEF StepOf
<1> QED
  BY <1>2, <1>4, <1>6

LEMMA TimeoutStep ==
    ASSUME ConsoleType, NEW r \in Runs, Timeout(r)
    PROVE  Keeps(r) /\ StepOf(r) /\ UNCHANGED config /\ stage'[r] # "stumbled"
<1>1. /\ stage[r] \in {"context", "turns", "legs", "execute", "place", "placed", "failed"}
      /\ Working(r)
  BY DEF Timeout, Working
<1>2. UNCHANGED <<disk, live, config, orders, page>> /\ NextTicker(r)
  BY DEF Timeout
<1>3. Keeps(r) /\ GoesOn(r) /\ stage'[r] \in {"context", "done"}
  BY <1>1, <1>2, NextTickerStep
<1>4. \E e \in EventType : Adds(r, e) /\ e.type = "no_proposal_turn_limit" /\ e.about = 0
  <2>1. "no_proposal_turn_limit" \in Kinds /\ 0 \in About
    BY DEF Kinds, About
  <2>2. "no_proposal_turn_limit" \notin GateTypes
    BY DEF GateTypes
  <2>3. Logs(r, "no_proposal_turn_limit", 0)
    BY DEF Timeout
  <2> QED
    BY <1>1, <2>1, <2>2, <2>3, LogsAdds
<1>5. StepOf(r)
  BY <1>1, <1>2, <1>3, <1>4 DEF StepOf
<1> QED
  BY <1>2, <1>3, <1>5

LEMMA LogErrorStep ==
    ASSUME ConsoleType, NEW r \in Runs, LogError(r)
    PROVE  Keeps(r) /\ StepOf(r) /\ UNCHANGED config /\ stage'[r] # "stumbled"
<1>1. stage[r] \in {"context", "turns"} /\ Working(r)
  BY DEF LogError, Working
<1>2. UNCHANGED <<disk, live, config, events, orders, page>> /\ NextTicker(r)
  BY DEF LogError
<1>3. Keeps(r) /\ GoesOn(r) /\ stage'[r] \in {"context", "done"}
  BY <1>1, <1>2, NextTickerStep
<1>4. StepOf(r)
  BY <1>1, <1>2, <1>3 DEF StepOf
<1> QED
  BY <1>2, <1>3, <1>4

-----------------------------------------------------------------------------
(***************************************************************************)
(* A step of a run, and the types.                                         *)
(***************************************************************************)

HasItsKeys(c) == c \in Configs \cup {Installed} /\ RequiredKeys \subseteq c.keys

\* What a run has of the configuration.
ConfigOf(r) ==
    /\ config' \in [Runs -> Configs \cup {Installed, Missing}]
    /\ \A x \in Runs : x # r => config'[x] = config[x]
    /\ stage'[r] # "refused" => HasItsKeys(config[r])'
    /\ stage'[r] = "stumbled" => "chain.limit" \notin config'[r].keys

LEMMA RunStep ==
    ASSUME ConsoleType, NEW r \in Runs, Run(r)
    PROVE  Keeps(r) /\ StepOf(r) /\ ConfigOf(r)
<1>1. ASSUME UNCHANGED config, stage[r] \notin {"idle", "refused"},
             stage'[r] = "stumbled" => "chain.limit" \notin config[r].keys
      PROVE  ConfigOf(r)
  BY <1>1 DEF ConfigOf, HasItsKeys, ConsoleType
<1>2. CASE Start(r)
  BY <1>2, StartStep DEF ConfigOf, HasItsKeys
<1>3. CASE MarketContext(r)
  <2>1. stage[r] = "context"
    BY <1>3 DEF MarketContext
  <2> QED
    BY <1>1, <1>3, <2>1, MarketContextStep
<1>4. CASE AgentTurn(r)
  BY <1>1, <1>4, AgentTurnStep DEF AgentTurn
<1>5. CASE LogNoProposal(r)
  BY <1>1, <1>5, LogNoProposalStep DEF LogNoProposal, NoProposal
<1>6. CASE LogAgentProposal(r)
  BY <1>1, <1>6, LogAgentProposalStep DEF LogAgentProposal
<1>7. CASE LogInvalidProposal(r)
  BY <1>1, <1>7, LogInvalidProposalStep DEF LogInvalidProposal
<1>8. CASE LogGateDecision(r)
  BY <1>1, <1>8, LogGateDecisionStep DEF LogGateDecision
<1>9. CASE ExecuteWithoutPlacing(r)
  BY <1>1, <1>9, ExecuteWithoutPlacingStep DEF ExecuteWithoutPlacing
<1>10. CASE Place(r)
  BY <1>1, <1>10, PlaceStep DEF Place
<1>11. CASE LogPlacement(r)
  BY <1>1, <1>11, LogPlacementStep DEF LogPlacement
<1>12. CASE Timeout(r)
  BY <1>1, <1>12, TimeoutStep DEF Timeout
<1>13. CASE LogError(r)
  BY <1>1, <1>13, LogErrorStep DEF LogError
<1> QED
  BY <1>2, <1>3, <1>4, <1>5, <1>6, <1>7, <1>8, <1>9, <1>10, <1>11, <1>12, <1>13 DEF Run

\* A step that is of no run.
Elsewhere == UNCHANGED <<live, config, stage, at, turns, events, orders>>

LEMMA OtherStep ==
    ASSUME ConsoleType, [GetConfig \/ EditConfig]_vars
    PROVE  /\ Elsewhere /\ disk' \in Configs \cup {Installed}
           /\ page' = page \/ (page' = disk /\ RequiredKeys \subseteq disk.keys)
<1>1. CASE GetConfig
  BY <1>1 DEF GetConfig, Elsewhere, Loads, ConsoleType
<1>2. CASE EditConfig
  BY <1>2 DEF EditConfig, Elsewhere, ConsoleType
<1>3. CASE UNCHANGED vars
  BY <1>3 DEF vars, Elsewhere, ConsoleType
<1> QED
  BY <1>1, <1>2, <1>3

LEMMA EventsOf ==
    ASSUME ConsoleType, NEW r \in Runs, StepOf(r)
    PROVE  \/ UNCHANGED events
           \/ \E e \in EventType : events' = Append(events, e)
  BY DEF StepOf, Adds

LEMMA TypeStep ==
    ASSUME ConsoleType, [Next]_vars
    PROVE  ConsoleType'
<1>1. ASSUME NEW r \in Runs, Run(r)
      PROVE  ConsoleType'
  <2>1. Keeps(r) /\ StepOf(r) /\ ConfigOf(r)
    BY <1>1, RunStep
  <2>2. events' \in Seq(EventType)
    <3>1. CASE UNCHANGED events
      BY <3>1 DEF ConsoleType
    <3>2. ASSUME NEW e \in EventType, events' = Append(events, e)
          PROVE  events' \in Seq(EventType)
      BY <3>2 DEF ConsoleType
    <3> QED
      BY <2>1, <3>1, <3>2, EventsOf
  <2>3. IsFiniteSet(orders')
    <3>1. orders' = orders \/ orders' = orders \cup {Ticker(r)}
      BY <2>1 DEF StepOf
    <3>2. IsFiniteSet(orders) /\ IsFiniteSet(orders \cup {Ticker(r)})
      BY FS_AddElement DEF ConsoleType
    <3> QED
      BY <3>1, <3>2
  <2>4. stage'[r] \in {"place", "placed", "failed"} => r \in live
    BY <2>1 DEF StepOf, ConsoleType
  <2>5. \A x \in Runs : stage'[x] \in {"place", "placed", "failed"} => x \in live
    BY <2>1, <2>4 DEF Keeps, ConsoleType
  <2>6. \A x \in Runs : Working(x)' => at'[x] \in DOMAIN Tickers[x]
    BY <2>1 DEF Keeps, ConsoleType, Working
  <2>7. \A x \in Runs : stage'[x] = "idle" => at'[x] = 1
    BY <2>1 DEF Keeps, ConsoleType
  <2>8. \A x \in Runs : stage'[x] \notin {"idle", "refused"} =>
           config'[x] \in Configs \cup {Installed} /\ RequiredKeys \subseteq config'[x].keys
    BY <2>1 DEF Keeps, ConfigOf, HasItsKeys, ConsoleType
  <2>9. disk' \in Configs \cup {Installed} /\ live' = live /\ live \subseteq Runs
    BY <2>1 DEF Keeps, ConsoleType
  <2> QED
    BY <2>1, <2>2, <2>3, <2>5, <2>6, <2>7, <2>8, <2>9 DEF ConsoleType, Keeps, ConfigOf
<1>2. CASE [GetConfig \/ EditConfig]_vars
  <2>1. Elsewhere /\ disk' \in Configs \cup {Installed}
    BY <1>2, OtherStep
  <2> QED
    BY <2>1 DEF Elsewhere, ConsoleType, Working
<1> QED
  BY <1>1, <1>2 DEF Next

LEMMA TypeInit == ASSUME Init PROVE ConsoleType
<1>1. events \in Seq(EventType)
  BY DEF Init
<1>2. IsFiniteSet(orders)
  BY FS_EmptySet DEF Init
<1>3. \A r \in Runs : stage[r] = "idle" /\ at[r] = 1
  BY DEF Init
<1>4. stage \in [Runs -> Stages] /\ at \in [Runs -> Nat \ {0}] /\ turns \in [Runs -> Nat]
  BY DEF Init, Stages
<1> QED
  BY <1>1, <1>2, <1>3, <1>4 DEF Init, ConsoleType, Working

\* Spec keeps the types.
LEMMA TypeAlways == Spec => []ConsoleType
  BY TypeInit, TypeStep, PTL DEF Spec

-----------------------------------------------------------------------------
(***************************************************************************)
(* A typo surfaces when the configuration is loaded.                       *)
(***************************************************************************)

KeysKnown ==
    /\ \A r \in Runs : stage[r] = "stumbled" => "chain.limit" \notin config[r].keys
    /\ page # Missing => RequiredKeys \subseteq page.keys

LEMMA KeysKnownStep ==
    ASSUME ConsoleType, KeysKnown, [Next]_vars
    PROVE  KeysKnown'
<1>1. ASSUME NEW r \in Runs, Run(r)
      PROVE  KeysKnown'
  <2>1. Keeps(r) /\ ConfigOf(r)
    BY <1>1, RunStep
  <2> QED
    BY <2>1 DEF Keeps, ConfigOf, KeysKnown
<1>2. CASE [GetConfig \/ EditConfig]_vars
  BY <1>2, OtherStep DEF Elsewhere, KeysKnown
<1> QED
  BY <1>1, <1>2 DEF Next

\* Once load_config has accepted a configuration neither a run nor the page misses a
\* key, whatever the configurations are, but for the limit of the chain, which it does
\* not ask for.
THEOREM TyposSurface == Spec => []TyposSurfaceAtStart
<1>1. Init => KeysKnown
  BY DEF Init, KeysKnown
<1>2. KeysKnown => TyposSurfaceAtStart
  BY AskedFor DEF KeysKnown, TyposSurfaceAtStart
<1> QED
  BY <1>1, <1>2, TypeAlways, KeysKnownStep, PTL DEF Spec

-----------------------------------------------------------------------------
(***************************************************************************)
(* A verdict and the limit it is shown against.                            *)
(***************************************************************************)

\* The greatest of some places in a journal is one of them.
LEMMA MaxIsOne ==
    ASSUME NEW n \in Nat, NEW S \in SUBSET (1 .. n), S # {}
    PROVE  Max(S) \in S
<1> DEFINE D == {n - i : i \in S}
<1>1. PICK some \in S : TRUE
  OBVIOUS
<1>2. D \in SUBSET Nat /\ n - some \in D
  OBVIOUS
<1> HIDE DEF D
<1>3. PICK d \in D : \A e \in D : ~ (<<e, d>> \in OpToRel(<, Nat))
  BY <1>2, NatLessThanWellFounded, WFMin
<1>4. ASSUME NEW e \in D PROVE d <= e
  <2>1. e < d => <<e, d>> \in OpToRel(<, Nat)
    BY <1>2 DEF OpToRel
  <2>2. ~ (e < d)
    BY <1>3, <2>1
  <2> QED
    BY <1>2, <2>2
<1>5. PICK m \in S : d = n - m
  BY DEF D
<1>6. ASSUME NEW i \in S PROVE m >= i
  <2>1. n - i \in D
    BY DEF D
  <2>2. n - m <= n - i
    BY <1>4, <1>5, <2>1
  <2> QED
    BY <2>2
<1> QED
  BY <1>6 DEF Max

\* So is the least.
LEMMA MinIsOne ==
    ASSUME NEW S \in SUBSET Nat, S # {}
    PROVE  Min(S) \in S
<1>1. PICK m \in S : \A n \in S : ~ (<<n, m>> \in OpToRel(<, Nat))
  BY NatLessThanWellFounded, WFMin
<1>2. ASSUME NEW n \in S PROVE m <= n
  <2>1. n < m => <<n, m>> \in OpToRel(<, Nat)
    BY DEF OpToRel
  <2>2. ~ (n < m)
    BY <1>1, <2>1
  <2> QED
    BY <2>2
<1> QED
  BY <1>2 DEF Min

VerdictsAgree ==
    \A i \in GateEvents(events) : events[i].about \in RuleRows /\ Agrees(events[i].about)

LEMMA VerdictsAgreeStep ==
    ASSUME ConsoleType, VerdictsAgree, [Next]_vars
    PROVE  VerdictsAgree'
<1>1. ASSUME NEW r \in Runs, NEW e \in EventType, Adds(r, e)
      PROVE  VerdictsAgree'
  <2>1. /\ events \in Seq(EventType) /\ events' = Append(events, e)
        /\ e.type \in GateTypes => e.about \in RuleRows /\ Agrees(e.about)
    BY <1>1 DEF Adds, ConsoleType
  <2>2. PICK n \in Nat : n = Len(events) /\ DOMAIN events = 1 .. n /\ DOMAIN events' = 1 .. n + 1
    BY <2>1
  <2>3. events'[n + 1] = e /\ \A i \in 1 .. n : events'[i] = events[i]
    BY <2>1, <2>2
  <2>4. ASSUME NEW i \in GateEvents(events')
        PROVE  events'[i].about \in RuleRows /\ Agrees(events'[i].about)
    <3>1. i \in 1 .. n + 1 /\ events'[i].type \in GateTypes
      BY <2>2 DEF GateEvents, OfType, GateTypes
    <3>2. CASE i = n + 1
      BY <2>1, <2>3, <3>1, <3>2
    <3>3. CASE i # n + 1
      <4>1. i \in 1 .. n
        BY <3>1, <3>3
      <4>2. i \in GateEvents(events) /\ events'[i] = events[i]
        BY <2>2, <2>3, <3>1, <4>1 DEF GateEvents, OfType, GateTypes
      <4> QED
        BY <4>2 DEF VerdictsAgree
    <3> QED
      BY <3>2, <3>3
  <2> QED
    BY <2>4 DEF VerdictsAgree
<1>2. ASSUME UNCHANGED events
      PROVE  VerdictsAgree'
  BY <1>2 DEF VerdictsAgree
<1>3. ASSUME NEW r \in Runs, Run(r)
      PROVE  VerdictsAgree'
  <2>1. StepOf(r)
    BY <1>3, RunStep
  <2>2. UNCHANGED events \/ \E e \in EventType : Adds(r, e)
    BY <2>1 DEF StepOf
  <2> QED
    BY <1>1, <1>2, <2>2
<1>4. CASE [GetConfig \/ EditConfig]_vars
  BY <1>2, <1>4, OtherStep DEF Elsewhere
<1> QED
  BY <1>3, <1>4 DEF Next

LEMMA RowsShown ==
    ASSUME ConsoleType, VerdictsAgree
    PROVE  RowsAgreeWithLimits
<1> DEFINE checks == LatestChecks(events)
<1> SUFFICES ASSUME GateEvents(events) # {}, NEW rule \in DOMAIN Configured(page)
             PROVE  LET row == RuleRow(rule, checks, page)
                        sizeZero == RuleRow("R2", checks, page).observed = 0
                    IN  IF row.state = "pass" THEN Satisfied(rule, row)
                        ELSE ~ Satisfied(rule, row) \/ (rule # "R4" /\ sizeZero)
  BY DEF RowsAgreeWithLimits
<1>1. Max(GateEvents(events)) \in GateEvents(events)
  <2>1. Len(events) \in Nat /\ GateEvents(events) \in SUBSET (1 .. Len(events))
    BY DEF GateEvents, OfType, ConsoleType
  <2> QED
    BY <2>1, MaxIsOne
<1>2. checks \in RuleRows /\ Agrees(checks)
  BY <1>1 DEF VerdictsAgree, LatestChecks
<1>3. rule \in {"R2", "R3", "R4"}
  BY DEF Configured
<1> HIDE DEF checks
<1>4. /\ (RuleRow(rule, checks, page).state = "pass") <=> checks[rule].passed
      /\ RuleRow(rule, checks, page).observed = checks[rule].observed
      /\ InDollars(RuleRow(rule, checks, page).threshold) = checks[rule].limit
  BY DEF RuleRow, Threshold, InDollars
<1>5. RuleRow("R2", checks, page).observed = checks.R2.observed
  BY DEF RuleRow
<1>6. checks[rule].observed \in Int /\ checks[rule].limit \in Int
  BY <1>2, <1>3 DEF RuleRows, Row
<1>7. CASE rule = "R2"
  <2>1. Satisfied(rule, RuleRow(rule, checks, page)) <=> checks.R2.observed <= checks.R2.limit
    BY <1>4, <1>7 DEF Satisfied
  <2> QED
    BY <1>2, <1>4, <1>5, <1>7, <2>1 DEF Agrees
<1>8. CASE rule = "R3"
  <2>1. Satisfied(rule, RuleRow(rule, checks, page)) <=> Abs(checks.R3.observed) <= checks.R3.limit
    BY <1>4, <1>8 DEF Satisfied
  <2>2. PICK size \in Int, limit \in Int : size = Abs(checks.R3.observed) /\ limit = checks.R3.limit
    BY <1>6, <1>8 DEF Abs
  <2>3. ~ checks.R3.passed => ~ (size <= limit) \/ checks.R2.observed = 0
    BY <1>2, <2>2 DEF Agrees
  <2> QED
    BY <1>2, <1>4, <1>5, <1>8, <2>1, <2>2, <2>3 DEF Agrees
<1>9. CASE rule = "R4"
  <2>1. Satisfied(rule, RuleRow(rule, checks, page)) <=> checks.R4.observed >= checks.R4.limit
    BY <1>4, <1>9 DEF Satisfied
  <2> QED
    BY <1>2, <1>4, <1>9, <2>1 DEF Agrees
<1> QED
  BY <1>3, <1>7, <1>8, <1>9

\* Whenever the configuration is edited and however runs overlap, no row of the gate
\* panel passes against a limit that what it shows does not keep, and one that fails
\* against a limit it keeps is Rule 2's or 3's, of a size that came to nothing
\* (risk_gate_check, agent/risk_gate.py:183 and 209; streamlit_app.py:608).
THEOREM RowsAgree == Spec => []RowsAgreeWithLimits
<1>1. Init => VerdictsAgree
  BY DEF Init, VerdictsAgree, GateEvents, OfType
<1> QED
  BY <1>1, RowsShown, TypeAlways, VerdictsAgreeStep, PTL DEF Spec

-----------------------------------------------------------------------------
(***************************************************************************)
(* Counting events.                                                        *)
(***************************************************************************)

New == Len(events) + 1

LEMMA Grows ==
    ASSUME ConsoleType, NEW r \in Runs, NEW e \in EventType, Adds(r, e)
    PROVE  /\ DOMAIN events' = DOMAIN events \cup {New} /\ DOMAIN events \in SUBSET Nat
           /\ New \in Nat /\ \A i \in DOMAIN events : i < New
           /\ events'[New] = e /\ \A i \in DOMAIN events : events'[i] = events[i]
           /\ New \notin DOMAIN events
<1>1. events \in Seq(EventType) /\ events' = Append(events, e)
  BY DEF Adds, ConsoleType
<1>2. PICK n \in Nat : n = Len(events) /\ DOMAIN events = 1 .. n /\ DOMAIN events' = 1 .. n + 1
  BY <1>1
<1>3. events'[n + 1] = e /\ \A i \in 1 .. n : events'[i] = events[i]
  BY <1>1, <1>2
<1> QED
  BY <1>2, <1>3 DEF New

LEMMA OneMore ==
    ASSUME ConsoleType, NEW S \in SUBSET (DOMAIN events)
    PROVE  /\ IsFiniteSet(S) /\ Cardinality(S) \in Nat
           /\ Cardinality(S \cup {New}) = Cardinality(S) + 1
<1>1. PICK n \in Nat : n = Len(events) /\ DOMAIN events = 1 .. n
  BY DEF ConsoleType
<1>2. IsFiniteSet(1 .. n)
  BY FS_Interval
<1>3. IsFiniteSet(S) /\ Cardinality(S) \in Nat
  BY <1>1, <1>2, FS_Subset, FS_CardinalityType
<1>4. New \notin S
  BY <1>1 DEF New
<1> QED
  BY <1>3, <1>4, FS_AddElement

Submits(seen) == OfType(seen, {"order_filled", "order_submitted"})
Dups(seen) == {i \in OfType(seen, {"order_submitted"}) : seen[i].about = "duplicate"}
Fails(seen) == OfType(seen, {"order_failed"})
Zeros(seen) == {i \in OfType(seen, AgentEvents) : seen[i].about = 0}

LEMMA Counts ==
    ASSUME ConsoleType
    PROVE  /\ Cardinality(Submits(events)) \in Nat /\ Cardinality(Dups(events)) \in Nat
           /\ Cardinality(Fails(events)) \in Nat /\ Cardinality(Zeros(events)) \in Nat
<1>1. /\ Submits(events) \in SUBSET DOMAIN events /\ Dups(events) \in SUBSET DOMAIN events
      /\ Fails(events) \in SUBSET DOMAIN events /\ Zeros(events) \in SUBSET DOMAIN events
  BY DEF Submits, Dups, Fails, Zeros, OfType
<1> QED
  BY <1>1, OneMore

LEMMA CountsGrow ==
    ASSUME ConsoleType, NEW r \in Runs, NEW e \in EventType, Adds(r, e)
    PROVE  /\ Cardinality(Submits(events')) = Cardinality(Submits(events)) +
                 (IF e.type \in {"order_filled", "order_submitted"} THEN 1 ELSE 0)
           /\ Cardinality(Dups(events')) = Cardinality(Dups(events)) +
                 (IF e.type = "order_submitted" /\ e.about = "duplicate" THEN 1 ELSE 0)
           /\ Cardinality(Fails(events')) = Cardinality(Fails(events)) +
                 (IF e.type = "order_failed" THEN 1 ELSE 0)
           /\ Cardinality(Zeros(events')) = Cardinality(Zeros(events)) +
                 (IF e.type \in AgentEvents /\ e.about = 0 THEN 1 ELSE 0)
<1>0. /\ DOMAIN events' = DOMAIN events \cup {New} /\ New \notin DOMAIN events
      /\ events'[New] = e /\ \A i \in DOMAIN events : events'[i] = events[i]
  BY Grows
<1>1. Submits(events') = IF e.type \in {"order_filled", "order_submitted"}
                         THEN Submits(events) \cup {New} ELSE Submits(events)
  <2>1. \A i : i \in Submits(events') <=> i \in Submits(events) \/ (i = New /\ e.type \in {"order_filled", "order_submitted"})
    BY <1>0 DEF Submits, OfType
  <2> QED
    BY <2>1
<1>2. Dups(events') = IF (e.type = "order_submitted" /\ e.about = "duplicate")
                         THEN Dups(events) \cup {New} ELSE Dups(events)
  <2>1. \A i : i \in Dups(events') <=> i \in Dups(events) \/ (i = New /\ (e.type = "order_submitted" /\ e.about = "duplicate"))
    BY <1>0 DEF Dups, OfType
  <2> QED
    BY <2>1
<1>3. Fails(events') = IF e.type = "order_failed"
                         THEN Fails(events) \cup {New} ELSE Fails(events)
  <2>1. \A i : i \in Fails(events') <=> i \in Fails(events) \/ (i = New /\ e.type = "order_failed")
    BY <1>0 DEF Fails, OfType
  <2> QED
    BY <2>1
<1>4. Zeros(events') = IF (e.type \in AgentEvents /\ e.about = 0)
                         THEN Zeros(events) \cup {New} ELSE Zeros(events)
  <2>1. \A i : i \in Zeros(events') <=> i \in Zeros(events) \/ (i = New /\ (e.type \in AgentEvents /\ e.about = 0))
    BY <1>0 DEF Zeros, OfType
  <2> QED
    BY <2>1
<1>5. /\ Submits(events) \in SUBSET DOMAIN events /\ Dups(events) \in SUBSET DOMAIN events
      /\ Fails(events) \in SUBSET DOMAIN events /\ Zeros(events) \in SUBSET DOMAIN events
  BY DEF Submits, Dups, Fails, Zeros, OfType
<1>6. Cardinality(Submits(events')) = Cardinality(Submits(events)) +
         (IF e.type \in {"order_filled", "order_submitted"} THEN 1 ELSE 0)
  BY <1>1, <1>5, Counts, OneMore
<1>7. Cardinality(Dups(events')) = Cardinality(Dups(events)) +
         (IF e.type = "order_submitted" /\ e.about = "duplicate" THEN 1 ELSE 0)
  <2>1. /\ Cardinality(Dups(events)) \in Nat
        /\ Cardinality(Dups(events) \cup {New}) = Cardinality(Dups(events)) + 1
    BY <1>5, Counts, OneMore
  <2>2. CASE e.type = "order_submitted" /\ e.about = "duplicate"
    BY <1>2, <2>1, <2>2
  <2>3. CASE ~ (e.type = "order_submitted" /\ e.about = "duplicate")
    BY <1>2, <2>1, <2>3
  <2> QED
    BY <2>2, <2>3
<1>8. Cardinality(Fails(events')) = Cardinality(Fails(events)) +
         (IF e.type = "order_failed" THEN 1 ELSE 0)
  BY <1>3, <1>5, Counts, OneMore
<1>9. Cardinality(Zeros(events')) = Cardinality(Zeros(events)) +
         (IF e.type \in AgentEvents /\ e.about = 0 THEN 1 ELSE 0)
  BY <1>4, <1>5, Counts, OneMore
<1> QED
  BY <1>6, <1>7, <1>8, <1>9

Placed == {r \in Runs : stage[r] = "placed"}

LEMMA PlacedCount ==
    ASSUME ConsoleType, NEW r \in Runs, Keeps(r)
    PROVE  /\ Cardinality(Placed) \in Nat
           /\ stage[r] # "placed" /\ stage'[r] = "placed" =>
                 Cardinality(Placed') = Cardinality(Placed) + 1
           /\ stage[r] = "placed" /\ stage'[r] # "placed" =>
                 Cardinality(Placed') = Cardinality(Placed) - 1
           /\ (stage[r] = "placed" <=> stage'[r] = "placed") => Placed' = Placed
<1>1. IsFiniteSet(Placed) /\ Cardinality(Placed) \in Nat
  BY ConsoleAssumption, FS_Subset, FS_CardinalityType DEF Placed
<1>2. \A x \in Runs : x # r => stage'[x] = stage[x]
  BY DEF Keeps
<1>3. r \in Placed <=> stage[r] = "placed"
  BY DEF Placed
<1>4. stage'[r] = "placed" => Placed' = Placed \cup {r}
  BY <1>2 DEF Placed
<1>5. stage'[r] # "placed" => Placed' = Placed \ {r}
  BY <1>2 DEF Placed
<1>6. (stage[r] = "placed" <=> stage'[r] = "placed") => Placed' = Placed
  BY <1>2 DEF Placed
<1> QED
  BY <1>1, <1>3, <1>4, <1>5, <1>6, FS_AddElement, FS_RemoveElement

\* The orders the broker has, but for those placed and not journalled yet, are counted
\* once each, or a failure or a timeout was journalled for them.
Booked ==
    LET counted == Cardinality(Submits(events)) - Cardinality(Dups(events))
    IN  /\ counted + Cardinality(Placed) <= Cardinality(orders)
        /\ Cardinality(orders) <=
              counted + Cardinality(Fails(events)) + Cardinality(Zeros(events))
                + Cardinality(Placed)

\* What a run journals outside of a placement leaves the books as they are.
LEMMA BookedElsewhere ==
    ASSUME ConsoleType, Booked, NEW r \in Runs, Keeps(r), UNCHANGED orders,
           stage[r] = "placed" <=> stage'[r] = "placed",
           \/ UNCHANGED events
           \/ \E e \in EventType :
                 /\ Adds(r, e)
                 /\ e.type \in {"order_submitted", "order_filled"} =>
                       e.type = "order_submitted" /\ e.about = "duplicate"
    PROVE  Booked'
<1>1. Placed' = Placed
  BY PlacedCount
<1>2. CASE UNCHANGED events
  BY <1>1, <1>2 DEF Booked
<1>3. ASSUME NEW e \in EventType, Adds(r, e),
             e.type \in {"order_submitted", "order_filled"} =>
                e.type = "order_submitted" /\ e.about = "duplicate"
      PROVE  Booked'
  <2> DEFINE s == Cardinality(Submits(events))  s1 == Cardinality(Submits(events'))
             d == Cardinality(Dups(events))     d1 == Cardinality(Dups(events'))
             f == Cardinality(Fails(events))    f1 == Cardinality(Fails(events'))
             z == Cardinality(Zeros(events))    z1 == Cardinality(Zeros(events'))
             p == Cardinality(Placed)           o == Cardinality(orders)
  <2>1. s \in Nat /\ d \in Nat /\ f \in Nat /\ z \in Nat
    BY Counts
  <2>2. p \in Nat /\ o \in Nat
    BY PlacedCount, FS_CardinalityType DEF ConsoleType
  <2>3. s1 - d1 = s - d /\ s1 \in Nat /\ d1 \in Nat
    <3>1. CASE e.type = "order_submitted" /\ e.about = "duplicate"
      BY <1>3, <2>1, <3>1, CountsGrow
    <3>2. CASE ~ (e.type = "order_submitted" /\ e.about = "duplicate")
      BY <1>3, <2>1, <3>2, CountsGrow
    <3> QED
      BY <3>1, <3>2
  <2>4. f1 \in Nat /\ z1 \in Nat /\ f <= f1 /\ z <= z1
    BY <1>3, <2>1, CountsGrow
  <2>5. s - d + p <= o /\ o <= s - d + f + z + p
    BY DEF Booked
  <2>6. Booked' <=> s1 - d1 + p <= o /\ o <= s1 - d1 + f1 + z1 + p
    BY <1>1 DEF Booked
  <2> HIDE DEF s, s1, d, d1, f, f1, z, z1, p, o
  <2> QED
    BY <2>1, <2>2, <2>3, <2>4, <2>5, <2>6
<1> QED
  BY <1>2, <1>3

\* A new order is on its way to the journal; one the broker has already is none.
LEMMA BookedPlace ==
    ASSUME ConsoleType, Booked, NEW r \in Runs, Keeps(r), UNCHANGED events,
           stage[r] = "place", stage'[r] = IF Known(r) THEN "failed" ELSE "placed",
           orders' = orders \cup {Ticker(r)}
    PROVE  Booked'
<1>1. CASE Known(r)
  <2>1. Placed' = Placed /\ orders' = orders
    BY <1>1, PlacedCount DEF Known
  <2> QED
    BY <2>1 DEF Booked
<1>2. CASE ~ Known(r)
  <2>1. Cardinality(Placed') = Cardinality(Placed) + 1 /\ Cardinality(Placed) \in Nat
    BY <1>2, PlacedCount
  <2>2. Cardinality(orders') = Cardinality(orders) + 1 /\ Cardinality(orders) \in Nat
    BY <1>2, FS_AddElement, FS_CardinalityType DEF Known, ConsoleType
  <2> QED
    BY <2>1, <2>2, Counts DEF Booked
<1> QED
  BY <1>1, <1>2

\* What is journalled of a placement.
LEMMA BookedPlacement ==
    ASSUME ConsoleType, Booked, NEW r \in Runs, Keeps(r), UNCHANGED orders,
           stage[r] \in {"placed", "failed"}, stage'[r] # "placed",
           NEW e \in EventType, Adds(r, e),
           \/ stage[r] = "placed" /\ e.type = "order_submitted" /\ e.about = "submitted"
           \/ e.type = "order_failed"
           \/ e.type = "no_proposal_turn_limit" /\ e.about = 0
    PROVE  Booked'
<1> DEFINE s == Cardinality(Submits(events))  s1 == Cardinality(Submits(events'))
           d == Cardinality(Dups(events))     d1 == Cardinality(Dups(events'))
           f == Cardinality(Fails(events))    f1 == Cardinality(Fails(events'))
           z == Cardinality(Zeros(events))    z1 == Cardinality(Zeros(events'))
           p == Cardinality(Placed)           p1 == Cardinality(Placed')
           o == Cardinality(orders)
<1>1. s \in Nat /\ d \in Nat /\ f \in Nat /\ z \in Nat
  BY Counts
<1>2. p \in Nat /\ o \in Nat
  BY PlacedCount, FS_CardinalityType DEF ConsoleType
<1>3. p1 = p - (IF stage[r] = "placed" THEN 1 ELSE 0)
  BY <1>2, PlacedCount
<1>4. d1 = d
  BY <1>1, CountsGrow
<1>5. /\ s1 = s + (IF e.type = "order_submitted" THEN 1 ELSE 0)
      /\ f1 = f + (IF e.type = "order_failed" THEN 1 ELSE 0)
      /\ z1 = z + (IF e.type = "no_proposal_turn_limit" THEN 1 ELSE 0)
  BY <1>1, CountsGrow DEF AgentEvents, NoProposal
<1>6. s - d + p <= o /\ o <= s - d + f + z + p
  BY DEF Booked
<1>7. Booked' <=> s1 - d1 + p1 <= o /\ o <= s1 - d1 + f1 + z1 + p1
  BY DEF Booked
<1> HIDE DEF s, s1, d, d1, f, f1, z, z1, p, p1, o
<1>8. CASE stage[r] = "placed" /\ e.type = "order_submitted"
  BY <1>1, <1>2, <1>3, <1>4, <1>5, <1>6, <1>7, <1>8
<1>9. CASE e.type = "order_failed"
  BY <1>1, <1>2, <1>3, <1>4, <1>5, <1>6, <1>7, <1>9
<1>10. CASE e.type = "no_proposal_turn_limit"
  BY <1>1, <1>2, <1>3, <1>4, <1>5, <1>6, <1>7, <1>10
<1> QED
  BY <1>8, <1>9, <1>10

LEMMA BookedStep ==
    ASSUME ConsoleType, Booked, [Next]_vars
    PROVE  Booked'
<1>1. ASSUME NEW r \in Runs, Run(r)
      PROVE  Booked'
  <2>1. Keeps(r) /\ StepOf(r)
    BY <1>1, RunStep
  <2>2. CASE /\ stage[r] = "idle" /\ stage'[r] \in {"refused", "stumbled", "context", "done"}
             /\ UNCHANGED <<at, turns, events, orders>>
    BY <2>1, <2>2, BookedElsewhere
  <2>3. CASE /\ stage[r] = "context" /\ stage'[r] \in {"stumbled", "turns"}
             /\ UNCHANGED <<at, turns, events, orders>>
    BY <2>1, <2>3, BookedElsewhere
  <2>4. CASE /\ stage[r] = "turns"
             /\ stage'[r] \notin {"idle", "context", "placed", "place", "failed"}
             /\ \E e \in EventType : Adds(r, e) /\ e.type = "agent_turn"
             /\ turns'[r] = turns[r] + 1 /\ UNCHANGED <<at, orders>>
    BY <2>1, <2>4, BookedElsewhere
  <2>5. CASE /\ stage[r] \notin {"idle", "context", "turns", "place", "placed", "failed"}
             /\ stage'[r] \notin {"placed", "failed"}
             /\ UNCHANGED orders
             /\ \/ UNCHANGED events
                \/ \E e \in EventType :
                      /\ Adds(r, e) /\ e.type # "agent_turn"
                      /\ e.type \in {"order_submitted", "order_filled"} =>
                            e.type = "order_submitted" /\ e.about = "duplicate"
    BY <2>1, <2>5, BookedElsewhere
  <2>6. CASE /\ stage[r] = "place" /\ stage'[r] = IF Known(r) THEN "failed" ELSE "placed"
             /\ orders' = orders \cup {Ticker(r)} /\ UNCHANGED <<at, turns, events>>
    BY <2>1, <2>6, BookedPlace
  <2>7. CASE /\ stage[r] \in {"placed", "failed"} /\ UNCHANGED orders
             /\ stage'[r] \in {"context", "done"}
             /\ \E e \in EventType :
                   /\ Adds(r, e)
                   /\ \/ stage[r] = "placed" /\ e.type = "order_submitted" /\ e.about = "submitted"
                      \/ e.type = "order_failed"
                      \/ e.type = "no_proposal_turn_limit" /\ e.about = 0
    BY <2>1, <2>7, BookedPlacement
  <2>8. CASE /\ stage[r] \in {"context", "turns", "legs", "execute", "place"}
             /\ stage'[r] \in {"context", "done"} /\ UNCHANGED orders
             /\ \/ UNCHANGED events
                \/ \E e \in EventType : Adds(r, e) /\ e.type = "no_proposal_turn_limit"
    BY <2>1, <2>8, BookedElsewhere
  <2> QED
    BY <2>1, <2>2, <2>3, <2>4, <2>5, <2>6, <2>7, <2>8 DEF StepOf
<1>2. CASE [GetConfig \/ EditConfig]_vars
  BY <1>2, OtherStep DEF Elsewhere, Booked, Placed
<1> QED
  BY <1>1, <1>2 DEF Next

LEMMA BookedInit == ASSUME Init PROVE Booked
<1>1. /\ Submits(events) = {} /\ Dups(events) = {} /\ Fails(events) = {}
      /\ Zeros(events) = {} /\ Placed = {} /\ orders = {}
  BY DEF Init, Submits, Dups, Fails, Zeros, OfType, Placed
<1> QED
  BY <1>1, FS_EmptySet DEF Booked

\* The orders the statistics count, duplicates aside, are orders the broker has, and
\* they miss one only for a failure, a timeout or an answer not journalled yet, for any
\* number of runs, whatever is lost.
THEOREM OrdersCounted == Spec => []OrdersAreCounted
<1>1. ASSUME ConsoleType, Booked PROVE OrdersAreCounted
  <2> DEFINE s == Cardinality(Submits(events))
             d == Cardinality(Dups(events))
             f == Cardinality(Fails(events))
             z == Cardinality(Zeros(events))
             p == Cardinality(Placed)
             o == Cardinality(orders)
  <2>1. s \in Nat /\ d \in Nat /\ f \in Nat /\ z \in Nat
    BY <1>1, Counts
  <2>2. p \in Nat /\ o \in Nat
    BY <1>1, ConsoleAssumption, FS_Subset, FS_CardinalityType DEF ConsoleType, Placed
  <2>3. s - d + p <= o /\ o <= s - d + f + z + p
    BY <1>1 DEF Booked
  <2>4. OrdersAreCounted <=> s - d <= o /\ o <= s - d + (f + z + p)
    BY DEF OrdersAreCounted, OrdersSubmitted, Submits, Dups, Fails, Zeros, Placed
  <2> HIDE DEF s, d, f, z, p, o
  <2> QED
    BY <2>1, <2>2, <2>3, <2>4
<1> QED
  BY <1>1, BookedInit, BookedStep, TypeAlways, PTL DEF Spec

-----------------------------------------------------------------------------
(***************************************************************************)
(* The turns that led to an outcome.                                       *)
(***************************************************************************)

\* The turns run r has journalled of an underlying.
TurnsOf(seen, r, ticker) == {i \in OfTicker(seen, {"agent_turn"}, ticker) : seen[i].run = r}

\* Run r, being where it is, has left an underlying behind, or takes no more turns on it.
DoneWith(r, ticker, where, doing) ==
    \E k \in DOMAIN Tickers[r] :
       /\ Tickers[r][k] = ticker
       /\ k < where[r] \/ (k = where[r] /\ doing[r] \notin {"idle", "context", "turns"})

TurnsInv ==
    \* No turn is taken on an underlying that is yet to come.
    /\ \A r \in Runs : \A k \in DOMAIN Tickers[r] :
          k > at[r] => TurnsOf(events, r, Tickers[r][k]) = {}
    \* The turns of the present one are counted.
    /\ \A r \in Runs : at[r] \in DOMAIN Tickers[r] =>
          Cardinality(TurnsOf(events, r, Ticker(r))) = turns[r]
    \* They are numbered as they come.
    /\ \A i \in OfType(events, {"agent_turn"}) :
          events[i].about =
             Cardinality({j \in TurnsOf(events, events[i].run, events[i].ticker) : j <= i})
    \* An outcome of some turns is of all there are and will be.
    /\ \A i \in OfType(events, AgentEvents) : events[i].about # 0 =>
          /\ events[i].about = Cardinality(TurnsOf(events, events[i].run, events[i].ticker))
          /\ DoneWith(events[i].run, events[i].ticker, at, stage)

LEMMA TurnsGrow ==
    ASSUME ConsoleType, NEW r \in Runs, NEW e \in EventType, Adds(r, e), NEW x, NEW ticker
    PROVE  TurnsOf(events', x, ticker) =
              IF e.type = "agent_turn" /\ x = r /\ ticker = Ticker(r)
              THEN TurnsOf(events, x, ticker) \cup {New} ELSE TurnsOf(events, x, ticker)
<1>1. /\ DOMAIN events' = DOMAIN events \cup {New} /\ New \notin DOMAIN events
      /\ events'[New] = e /\ \A i \in DOMAIN events : events'[i] = events[i]
      /\ e.run = r /\ e.ticker = Ticker(r)
  BY Grows DEF Adds
<1>2. \A i : i \in TurnsOf(events', x, ticker) <=>
               \/ i \in TurnsOf(events, x, ticker)
               \/ i = New /\ e.type = "agent_turn" /\ x = r /\ ticker = Ticker(r)
  BY <1>1 DEF TurnsOf, OfTicker, OfType
<1> QED
  BY <1>2

LEMMA TickersFacts ==
    ASSUME NEW r \in Runs
    PROVE  /\ DOMAIN Tickers[r] \in SUBSET (Nat \ {0})
           /\ \A j, k \in DOMAIN Tickers[r] : Tickers[r][j] = Tickers[r][k] => j = k
  BY ConsoleAssumption DEF IsInjective

\* A run never comes back to an underlying, nor to more turns on it.
LEMMA DoneStays ==
    ASSUME ConsoleType, NEW r \in Runs, Keeps(r),
           \/ at'[r] = at[r] + 1
           \/ /\ at'[r] = at[r]
              /\ \/ stage[r] \in {"idle", "context", "turns"}
                 \/ stage'[r] \notin {"idle", "context", "turns"},
           NEW x \in Runs, NEW ticker, DoneWith(x, ticker, at, stage)
    PROVE  DoneWith(x, ticker, at', stage')
<1>1. PICK k \in DOMAIN Tickers[x] :
         /\ Tickers[x][k] = ticker
         /\ k < at[x] \/ (k = at[x] /\ stage[x] \notin {"idle", "context", "turns"})
  BY DEF DoneWith
<1>2. k \in Nat /\ at[x] \in Nat /\ at[r] \in Nat
  BY TickersFacts DEF ConsoleType
<1>3. k < at'[x] \/ (k = at'[x] /\ stage'[x] \notin {"idle", "context", "turns"})
  <2>1. CASE x = r
    BY <1>1, <1>2, <2>1
  <2>2. CASE x # r
    BY <1>1, <2>2 DEF Keeps
  <2> QED
    BY <2>1, <2>2
<1> QED
  BY <1>1, <1>3 DEF DoneWith

\* A step that journals no turn.
LEMMA TurnsOtherwise ==
    ASSUME ConsoleType, TurnsInv, NEW r \in Runs, Keeps(r),
           \/ GoesOn(r)
           \/ /\ UNCHANGED <<at, turns>>
              /\ \/ stage[r] \in {"idle", "context", "turns"}
                 \/ stage'[r] \notin {"idle", "context", "turns"},
           \/ UNCHANGED events
           \/ GoesOn(r) /\ \E e \in EventType : Adds(r, e) /\ e.type # "agent_turn"
    PROVE  TurnsInv'
<1>1. \A x, ticker : TurnsOf(events', x, ticker) = TurnsOf(events, x, ticker)
  BY TurnsGrow
<1>2. \/ at'[r] = at[r] + 1 /\ turns'[r] = 0
      \/ at'[r] = at[r] /\ turns'[r] = turns[r]
  BY DEF GoesOn
<1>3. \A x \in Runs : x # r => at'[x] = at[x] /\ turns'[x] = turns[x]
  BY DEF Keeps
<1>4. ASSUME NEW x \in Runs, NEW k \in DOMAIN Tickers[x], k > at'[x]
      PROVE  TurnsOf(events', x, Tickers[x][k]) = {}
  <2>1. k \in Nat /\ at[x] \in Nat /\ at'[x] \in Nat
    BY TickersFacts DEF ConsoleType, Keeps
  <2>2. at'[x] = at[x] \/ at'[x] = at[x] + 1
    BY <1>2, <1>3
  <2>3. k > at[x]
    BY <1>4, <2>1, <2>2
  <2> QED
    BY <1>1, <2>3 DEF TurnsInv
<1>5. ASSUME NEW x \in Runs, at'[x] \in DOMAIN Tickers[x]
      PROVE  Cardinality(TurnsOf(events', x, Ticker(x)')) = turns'[x]
  <2>1. CASE at'[x] = at[x] /\ turns'[x] = turns[x]
    <3>1. Ticker(x)' = Ticker(x)
      BY <2>1 DEF Ticker
    <3> QED
      BY <1>1, <1>5, <2>1, <3>1 DEF TurnsInv
  <2>2. CASE at'[x] = at[x] + 1 /\ turns'[x] = 0
    <3>1. at[x] \in Nat /\ at'[x] > at[x]
      BY <2>2 DEF ConsoleType
    <3>2. TurnsOf(events, x, Tickers[x][at'[x]]) = {}
      BY <1>5, <3>1 DEF TurnsInv
    <3> QED
      BY <1>1, <2>2, <3>2, FS_EmptySet DEF Ticker
  <2> QED
    BY <1>2, <1>3, <2>1, <2>2
<1>6. ASSUME NEW x \in Runs, NEW ticker, DoneWith(x, ticker, at, stage)
      PROVE  DoneWith(x, ticker, at', stage')
  <2>1. \/ at'[r] = at[r] + 1
        \/ /\ at'[r] = at[r]
           /\ \/ stage[r] \in {"idle", "context", "turns"}
              \/ stage'[r] \notin {"idle", "context", "turns"}
    BY DEF GoesOn
  <2> QED
    BY <1>6, <2>1, DoneStays
<1>7. \/ UNCHANGED events
      \/ \E e \in EventType :
            /\ events' = Append(events, e) /\ e.type # "agent_turn" /\ e.run = r
            /\ e.type \in AgentEvents /\ e.about # 0 =>
                  /\ e.about = Cardinality(TurnsOf(events, r, e.ticker))
                  /\ DoneWith(r, e.ticker, at', stage')
            /\ Adds(r, e)
  <2>1. ASSUME NEW e \in EventType, Adds(r, e), GoesOn(r), e.type \in AgentEvents, e.about # 0
        PROVE  /\ e.about = Cardinality(TurnsOf(events, r, e.ticker))
               /\ DoneWith(r, e.ticker, at', stage')
    <3>1. at[r] \in DOMAIN Tickers[r] /\ e.about = turns[r] /\ e.ticker = Tickers[r][at[r]]
      BY <2>1 DEF Adds, ConsoleType, Ticker
    <3>2. e.about = Cardinality(TurnsOf(events, r, e.ticker))
      BY <3>1 DEF TurnsInv, Ticker
    <3>3. \/ at[r] < at'[r]
          \/ at[r] = at'[r] /\ stage'[r] \notin {"idle", "context", "turns"}
      BY <2>1 DEF GoesOn, ConsoleType
    <3> QED
      BY <3>1, <3>2, <3>3 DEF DoneWith
  <2> QED
    BY <2>1 DEF Adds
<1>8. ASSUME NEW i \in OfType(events', {"agent_turn"})
      PROVE  /\ i \in OfType(events, {"agent_turn"}) /\ events'[i] = events[i]
  BY <1>7, <1>8, Grows DEF OfType
<1>9. \A i \in OfType(events', {"agent_turn"}) :
         events'[i].about =
            Cardinality({j \in TurnsOf(events', events'[i].run, events'[i].ticker) : j <= i})
  BY <1>1, <1>8 DEF TurnsInv
<1>10. ASSUME NEW i \in OfType(events', AgentEvents), events'[i].about # 0
       PROVE  /\ events'[i].about =
                    Cardinality(TurnsOf(events', events'[i].run, events'[i].ticker))
              /\ DoneWith(events'[i].run, events'[i].ticker, at', stage')
  <2>1. CASE i \in OfType(events, AgentEvents) /\ events'[i] = events[i]
    <3>1. events[i].run \in Runs
      <4>1. i \in DOMAIN events /\ events \in Seq(EventType)
        BY <2>1 DEF OfType, ConsoleType
      <4>2. events[i] \in EventType
        BY <4>1
      <4> QED
        BY <4>2 DEF EventType
    <3> QED
      BY <1>1, <1>6, <1>10, <2>1, <3>1 DEF TurnsInv
  <2>2. CASE ~ (i \in OfType(events, AgentEvents) /\ events'[i] = events[i])
    <3>1. PICK e \in EventType :
             /\ Adds(r, e) /\ e.run = r
             /\ e.type \in AgentEvents /\ e.about # 0 =>
                   /\ e.about = Cardinality(TurnsOf(events, r, e.ticker))
                   /\ DoneWith(r, e.ticker, at', stage')
      BY <1>7, <1>10, <2>2 DEF OfType
    <3>2. events'[i] = e
      BY <1>10, <2>2, <3>1, Grows DEF OfType
    <3>3. e.type \in AgentEvents
      BY <1>10, <3>2 DEF OfType
    <3> QED
      BY <1>1, <1>10, <3>1, <3>2, <3>3
  <2> QED
    BY <2>1, <2>2
<1> QED
  BY <1>4, <1>5, <1>9, <1>10 DEF TurnsInv

\* A turn.
LEMMA TurnsOneMore ==
    ASSUME ConsoleType, TurnsInv, NEW r \in Runs, Keeps(r), stage[r] = "turns",
           turns'[r] = turns[r] + 1, UNCHANGED at,
           NEW e \in EventType, Adds(r, e), e.type = "agent_turn"
    PROVE  TurnsInv'
<1>1. /\ DOMAIN events' = DOMAIN events \cup {New} /\ DOMAIN events \in SUBSET Nat
      /\ New \in Nat /\ \A i \in DOMAIN events : i < New
      /\ events'[New] = e /\ \A i \in DOMAIN events : events'[i] = events[i]
  BY Grows
<1>2. /\ e.run = r /\ e.ticker = Ticker(r) /\ e.about = turns[r] + 1
      /\ Ticker(r) = Tickers[r][at[r]] /\ at[r] \in DOMAIN Tickers[r]
  BY DEF Adds, ConsoleType, Ticker
<1>3. \A x, ticker : TurnsOf(events', x, ticker) =
         IF x = r /\ ticker = Ticker(r) THEN TurnsOf(events, x, ticker) \cup {New}
         ELSE TurnsOf(events, x, ticker)
  BY TurnsGrow
<1>4. \A x, ticker : TurnsOf(events, x, ticker) \in SUBSET DOMAIN events
  BY DEF TurnsOf, OfTicker, OfType
<1>5. Cardinality(TurnsOf(events, r, Ticker(r)) \cup {New}) = turns[r] + 1
  BY <1>2, <1>4, OneMore DEF TurnsInv
<1>6. ASSUME NEW x \in Runs, NEW k \in DOMAIN Tickers[x], k > at'[x]
      PROVE  TurnsOf(events', x, Tickers[x][k]) = {}
  <2>1. TurnsOf(events, x, Tickers[x][k]) = {}
    BY <1>6 DEF TurnsInv
  <2>2. x = r => Tickers[x][k] # Ticker(r)
    <3>1. k # at[x]
      BY <1>6, TickersFacts DEF ConsoleType
    <3> QED
      BY <1>2, <3>1, TickersFacts
  <2> QED
    BY <1>3, <2>1, <2>2
<1>7. ASSUME NEW x \in Runs, at'[x] \in DOMAIN Tickers[x]
      PROVE  Cardinality(TurnsOf(events', x, Tickers[x][at'[x]])) = turns'[x]
  <2>1. CASE x = r
    BY <1>2, <1>3, <1>5, <2>1
  <2>2. CASE x # r
    BY <1>3, <1>7, <2>2 DEF TurnsInv, Ticker, Keeps
  <2> QED
    BY <2>1, <2>2
<1>8. ASSUME NEW i \in OfType(events', {"agent_turn"})
      PROVE  events'[i].about =
                Cardinality({j \in TurnsOf(events', events'[i].run, events'[i].ticker) : j <= i})
  <2>1. CASE i = New
    <3>1. TurnsOf(events', r, Ticker(r)) = TurnsOf(events, r, Ticker(r)) \cup {New}
      BY <1>3
    <3>2. {j \in TurnsOf(events', r, Ticker(r)) : j <= New}
             = TurnsOf(events, r, Ticker(r)) \cup {New}
      BY <1>1, <1>4, <3>1
    <3> QED
      BY <1>1, <1>2, <1>5, <2>1, <3>2
  <2>2. CASE i # New
    <3>1. /\ i \in DOMAIN events /\ events'[i] = events[i] /\ i < New
          /\ i \in OfType(events, {"agent_turn"})
      BY <1>1, <2>2 DEF OfType
    <3> DEFINE x == events[i].run  ticker == events[i].ticker
    <3>2. i \in Nat /\ ~ New <= i
      BY <1>1, <3>1
    <3>3. {j \in TurnsOf(events', x, ticker) : j <= i}
             = {j \in TurnsOf(events, x, ticker) : j <= i}
      BY <1>3, <3>2
    <3> QED
      BY <3>1, <3>3 DEF TurnsInv
  <2> QED
    BY <2>1, <2>2
<1>9. ASSUME NEW i \in OfType(events', AgentEvents), events'[i].about # 0
      PROVE  /\ events'[i].about =
                    Cardinality(TurnsOf(events', events'[i].run, events'[i].ticker))
             /\ DoneWith(events'[i].run, events'[i].ticker, at', stage')
  <2>1. e.type \notin AgentEvents
    BY DEF AgentEvents, NoProposal
  <2>2. i \in DOMAIN events /\ events'[i] = events[i] /\ i \in OfType(events, AgentEvents)
    BY <1>1, <2>1 DEF OfType
  <2>3. PICK x \in Runs : x = events[i].run
    <3>1. events[i] \in EventType
      BY <2>2 DEF ConsoleType
    <3> QED
      BY <3>1 DEF EventType
  <2> DEFINE ticker == events[i].ticker
  <2>4. /\ events[i].about = Cardinality(TurnsOf(events, x, ticker))
        /\ DoneWith(x, ticker, at, stage)
    BY <1>9, <2>2, <2>3 DEF TurnsInv
  <2> HIDE DEF ticker
  <2>5. DoneWith(x, ticker, at', stage')
    BY <2>4, DoneStays
  <2>6. ~ (x = r /\ ticker = Ticker(r))
    <3>1. PICK k \in DOMAIN Tickers[x] :
             /\ Tickers[x][k] = ticker
             /\ k < at[x] \/ (k = at[x] /\ stage[x] \notin {"idle", "context", "turns"})
      BY <2>4 DEF DoneWith
    <3>2. x = r => k # at[r]
      BY <3>1, TickersFacts DEF ConsoleType
    <3> QED
      BY <1>2, <3>1, <3>2, TickersFacts
  <2>7. TurnsOf(events', x, ticker) = TurnsOf(events, x, ticker)
    BY <1>3, <2>6
  <2> QED
    BY <2>2, <2>3, <2>4, <2>5, <2>7 DEF ticker
<1> QED
  BY <1>6, <1>7, <1>8, <1>9 DEF TurnsInv, Ticker

LEMMA TurnsStep ==
    ASSUME ConsoleType, TurnsInv, [Next]_vars
    PROVE  TurnsInv'
<1>1. ASSUME NEW r \in Runs, Run(r)
      PROVE  TurnsInv'
  <2>1. Keeps(r) /\ StepOf(r)
    BY <1>1, RunStep
  <2>2. CASE /\ stage[r] = "turns" /\ turns'[r] = turns[r] + 1 /\ UNCHANGED at
             /\ \E e \in EventType : Adds(r, e) /\ e.type = "agent_turn"
    BY <2>1, <2>2, TurnsOneMore
  <2>3. CASE /\ UNCHANGED <<at, turns, events>>
             /\ \/ stage[r] \in {"idle", "context", "turns"}
                \/ stage'[r] \notin {"idle", "context", "turns"}
    BY <2>1, <2>3, TurnsOtherwise
  <2>4. CASE /\ GoesOn(r)
             /\ \/ UNCHANGED events
                \/ \E e \in EventType : Adds(r, e) /\ e.type # "agent_turn"
    BY <2>1, <2>4, TurnsOtherwise
  <2> QED
    BY <2>1, <2>2, <2>3, <2>4 DEF StepOf
<1>2. CASE [GetConfig \/ EditConfig]_vars
  BY <1>2, OtherStep DEF Elsewhere, TurnsInv, Ticker
<1> QED
  BY <1>1, <1>2 DEF Next

LEMMA TurnsInit == ASSUME Init PROVE TurnsInv
<1>1. \A types : OfType(events, types) = {}
  BY DEF Init, OfType
<1>2. \A r, ticker : TurnsOf(events, r, ticker) = {}
  BY <1>1 DEF TurnsOf, OfTicker
<1> QED
  BY <1>1, <1>2, FS_EmptySet DEF Init, TurnsInv

\* A place counted from the end and one from the front make one more than all.
LEMMA FromBothEnds ==
    ASSUME NEW S \in SUBSET Nat, IsFiniteSet(S), NEW i \in S
    PROVE  /\ Cardinality(S) \in Nat /\ PrintedAt(S, i) \in Nat
           /\ Cardinality({j \in S : j <= i}) = Cardinality(S) + 1 - PrintedAt(S, i)
<1> DEFINE front == {j \in S : j <= i}
           back == {j \in S : j >= i}
<1>1. front \cup back = S /\ front \cap back = {i}
  <2>1. \A j \in S : (j <= i \/ j >= i) /\ (j <= i /\ j >= i => j = i)
    OBVIOUS
  <2>2. i <= i
    OBVIOUS
  <2> QED
    BY <2>1, <2>2
<1>2. IsFiniteSet(front) /\ IsFiniteSet(back)
  BY FS_Subset
<1>3. Cardinality(S) = Cardinality(front) + Cardinality(back) - Cardinality({i})
  <2> HIDE DEF front, back
  <2> QED
    BY <1>1, <1>2, FS_Union
<1>4. /\ Cardinality({i}) = 1 /\ Cardinality(S) \in Nat
      /\ Cardinality(front) \in Nat /\ Cardinality(back) \in Nat
  BY <1>2, FS_Singleton, FS_CardinalityType
<1>5. PrintedAt(S, i) = Cardinality(back)
  BY DEF PrintedAt
<1> HIDE DEF front, back
<1>6. Cardinality(front) = Cardinality(S) + 1 - PrintedAt(S, i)
  BY <1>3, <1>4, <1>5
<1> QED
  BY <1>4, <1>5, <1>6 DEF front

\* The turns printed with an outcome are all that led to it, from the last to the
\* first, whichever runs were journalled in between, unless the outcome is a timeout
\* (latest_turns and its loop, streamlit_app.py:478 and 550).
THEOREM TurnsShown == Spec => []TurnsMakeTheOutcome
<1>1. ASSUME ConsoleType, TurnsInv PROVE TurnsMakeTheOutcome
  <2>1. SUFFICES ASSUME NEW ticker, HasOutcome(events, ticker),
                        LatestByTicker(events, ticker).about # 0
                 PROVE  LET outcome == LatestByTicker(events, ticker)
                            shown == LatestTurns(events, outcome)
                        IN  /\ Cardinality(shown) = outcome.about
                            /\ \A i \in shown :
                                  events[i].about = outcome.about + 1 - PrintedAt(shown, i)
    BY DEF TurnsMakeTheOutcome
  <2> DEFINE first == Min(OfTicker(events, AgentEvents, ticker))
  <2>2. first \in OfTicker(events, AgentEvents, ticker)
    <3>1. OfTicker(events, AgentEvents, ticker) \in SUBSET Nat
      BY <1>1 DEF OfTicker, OfType, ConsoleType
    <3> QED
      BY <2>1, <3>1, MinIsOne DEF HasOutcome
  <2> DEFINE r == events[first].run
  <2>3. /\ LatestByTicker(events, ticker) = events[first] /\ events[first].ticker = ticker
        /\ first \in OfType(events, AgentEvents)
    BY <2>2 DEF LatestByTicker, OfTicker
  <2>4. LatestTurns(events, events[first]) = TurnsOf(events, r, ticker)
    BY <2>3 DEF LatestTurns, TurnsOf
  <2>5. events[first].about = Cardinality(TurnsOf(events, r, ticker))
    BY <1>1, <2>1, <2>3 DEF TurnsInv
  <2>6. TurnsOf(events, r, ticker) \in SUBSET Nat /\ IsFiniteSet(TurnsOf(events, r, ticker))
    <3>1. PICK n \in Nat : n = Len(events) /\ DOMAIN events = 1 .. n
      BY <1>1 DEF ConsoleType
    <3>2. TurnsOf(events, r, ticker) \subseteq 1 .. n
      BY <3>1 DEF TurnsOf, OfTicker, OfType
    <3>3. IsFiniteSet(1 .. n) /\ 1 .. n \subseteq Nat
      BY FS_Interval
    <3> HIDE DEF r
    <3> QED
      BY <3>2, <3>3, FS_Subset
  <2>7. ASSUME NEW i \in TurnsOf(events, r, ticker)
        PROVE  events[i].about = events[first].about + 1 - PrintedAt(TurnsOf(events, r, ticker), i)
    <3>1. i \in OfType(events, {"agent_turn"}) /\ events[i].run = r /\ events[i].ticker = ticker
      BY DEF TurnsOf, OfTicker
    <3>2. events[i].about = Cardinality({j \in TurnsOf(events, r, ticker) : j <= i})
      BY <1>1, <3>1 DEF TurnsInv
    <3> QED
      BY <2>5, <2>6, <3>2, FromBothEnds
  <2> HIDE DEF first
  <2> QED
    BY <2>3, <2>4, <2>5, <2>7
<1> QED
  BY <1>1, TurnsInit, TurnsStep, TypeAlways, PTL DEF Spec

-----------------------------------------------------------------------------
(***************************************************************************)
(* The way of the journal to the dashboard: the file and its readers.      *)
(***************************************************************************)

Records == [writer : Writers, record : Nat]
Pieces == Records \X {"whole", "head", "tail"}
Files == [ended : Seq(Seq(Pieces)), open : Seq(Pieces)]

JournalType ==
    /\ file \in Files
    /\ writing \in [Writers -> {"idle", "open", "half"}]
    /\ prefixed \in [Writers -> BOOLEAN]
    /\ count \in [Writers -> Nat]
    /\ completed \in Seq(Records)
    /\ kills \in Nat
    /\ mishap \in BOOLEAN

LEMMA EmptyIsFile == Empty \in Files
  BY DEF Empty, Files

LEMMA PutIsFile ==
    ASSUME NEW f \in Files, NEW p \in Pieces
    PROVE  /\ Put(f, p) \in Files
           /\ Put(f, p).ended = f.ended
           /\ Put(f, p).open = Append(f.open, p)
  <1>1. f.open \in Seq(Pieces) /\ f.ended \in Seq(Seq(Pieces))
    BY DEF Files
  <1>2. Append(f.open, p) \in Seq(Pieces)
    BY <1>1
  <1>3. f = [ended |-> f.ended, open |-> f.open]
    BY DEF Files
  <1>4. Put(f, p) = [ended |-> f.ended, open |-> Append(f.open, p)]
    BY <1>3 DEF Put
  <1>5. QED
    BY <1>1, <1>2, <1>4 DEF Files

LEMMA EndLineIsFile ==
    ASSUME NEW f \in Files
    PROVE  EndLine(f) \in Files
  BY DEF EndLine, Files

\* What is read of a file: the ended lines that parse, and the open one if it does.
LEMMA ReadsAre ==
    ASSUME NEW f \in Files
    PROVE  /\ \A i : i \in ReadAll(f) <=> \/ i \in 1..Len(f.ended) /\ Parses(f.ended[i])
                                          \/ i = Len(f.ended) + 1 /\ Parses(f.open)
           /\ \A i \in 1..Len(f.ended) : RecordAt(f, i) = f.ended[i][1][1]
           /\ RecordAt(f, Len(f.ended) + 1) = f.open[1][1]
           /\ ReadAll(f) \subseteq Nat \ {0}
  <1>1. /\ f.ended \in Seq(Seq(Pieces)) /\ f.open \in Seq(Pieces)
        /\ Len(f.ended) \in Nat
    BY DEF Files
  <1>2. /\ DOMAIN Lines(f) = 1..(Len(f.ended) + 1)
        /\ \A i \in 1..Len(f.ended) : Lines(f)[i] = f.ended[i]
        /\ Lines(f)[Len(f.ended) + 1] = f.open
    BY <1>1 DEF Lines
  <1>3. \A i \in 1..Len(f.ended) : RecordAt(f, i) = f.ended[i][1][1]
    BY <1>2 DEF RecordAt
  <1>4. RecordAt(f, Len(f.ended) + 1) = f.open[1][1]
    BY <1>2 DEF RecordAt
  <1>5. ASSUME NEW i
        PROVE  i \in ReadAll(f) <=> \/ i \in 1..Len(f.ended) /\ Parses(f.ended[i])
                                    \/ i = Len(f.ended) + 1 /\ Parses(f.open)
    <2>1. i \in ReadAll(f) <=> i \in 1..(Len(f.ended) + 1) /\ Parses(Lines(f)[i])
      BY <1>2 DEF ReadAll
    <2>2. i \in 1..(Len(f.ended) + 1) <=> i \in 1..Len(f.ended) \/ i = Len(f.ended) + 1
      BY <1>1
    <2>3. QED
      BY <1>2, <2>1, <2>2
  <1>6. ReadAll(f) \subseteq Nat \ {0}
    BY <1>1, <1>5
  <1>7. QED
    BY <1>3, <1>4, <1>5, <1>6

LEMMA EmptyLine == ~ Parses(<<>>)
  BY DEF Parses

\* Ending a line changes nothing for a reader.
LEMMA EndLineReads ==
    ASSUME NEW f \in Files
    PROVE  /\ ReadAll(EndLine(f)) = ReadAll(f)
           /\ \A i \in ReadAll(f) : RecordAt(EndLine(f), i) = RecordAt(f, i)
  <1> DEFINE g == EndLine(f)
             n == Len(f.ended) + 1
  <1>1. /\ f.ended \in Seq(Seq(Pieces)) /\ f.open \in Seq(Pieces) /\ n \in Nat /\ n > 0
        /\ g \in Files
    BY EndLineIsFile DEF Files
  <1>2. /\ Len(g.ended) = n /\ g.open = <<>>
        /\ \A i \in 1..(n - 1) : g.ended[i] = f.ended[i]
        /\ g.ended[n] = f.open
    BY <1>1 DEF EndLine
  <1> HIDE DEF g
  <1>3. \A i : i \in ReadAll(g) <=> i \in ReadAll(f)
    <2>1. SUFFICES ASSUME NEW i PROVE i \in ReadAll(g) <=> i \in ReadAll(f)
      OBVIOUS
    <2>2. i \in ReadAll(g) <=> i \in 1..n /\ Parses(g.ended[i])
      BY <1>1, <1>2, ReadsAre, EmptyLine
    <2>3. i \in ReadAll(f) <=> \/ i \in 1..(n - 1) /\ Parses(f.ended[i])
                               \/ i = n /\ Parses(f.open)
      BY ReadsAre
    <2>4. i \in 1..n <=> i \in 1..(n - 1) \/ i = n
      BY <1>1
    <2>5. QED
      BY <1>2, <2>2, <2>3, <2>4
  <1>4. ASSUME NEW i \in ReadAll(f) PROVE RecordAt(g, i) = RecordAt(f, i)
    <2>1. i \in 1..(n - 1) \/ i = n
      BY ReadsAre
    <2>2. i \in 1..n /\ RecordAt(g, i) = g.ended[i][1][1]
      BY <1>1, <1>2, <2>1, ReadsAre
    <2>3. RecordAt(f, i) = IF i = n THEN f.open[1][1] ELSE f.ended[i][1][1]
      BY <1>1, <2>1, ReadsAre
    <2>4. QED
      BY <1>2, <2>1, <2>2, <2>3
  <1>5. QED
    BY <1>3, <1>4 DEF g

\* A piece behind a line that does not parse yet.
LEMMA PutReads ==
    ASSUME NEW f \in Files, NEW p \in Pieces, ~ Parses(f.open)
    PROVE  LET g == Put(f, p)
               n == Len(f.ended) + 1
           IN  /\ \A i : i \in ReadAll(g) <=> (i \in ReadAll(f) \/ (i = n /\ Parses(g.open)))
               /\ n \notin ReadAll(f)
               /\ \A i \in ReadAll(f) : i < n /\ RecordAt(g, i) = RecordAt(f, i)
               /\ RecordAt(g, n) = g.open[1][1]
  <1> DEFINE g == Put(f, p)
             n == Len(f.ended) + 1
  <1>1. /\ f.ended \in Seq(Seq(Pieces)) /\ n \in Nat /\ g \in Files /\ g.ended = f.ended
    BY PutIsFile DEF Files
  <1> HIDE DEF g
  <1>2. \A i : i \in ReadAll(f) <=> i \in 1..(n - 1) /\ Parses(f.ended[i])
    BY ReadsAre
  <1>3. \A i : i \in ReadAll(g) <=> \/ i \in 1..(n - 1) /\ Parses(f.ended[i])
                                    \/ i = n /\ Parses(g.open)
    BY <1>1, ReadsAre
  <1>4. \A i \in ReadAll(f) : i < n /\ RecordAt(g, i) = RecordAt(f, i)
    <2>1. SUFFICES ASSUME NEW i \in ReadAll(f)
                   PROVE  i < n /\ RecordAt(g, i) = RecordAt(f, i)
      OBVIOUS
    <2>2. i \in 1..(n - 1)
      BY <1>2
    <2>3. i \in 1..Len(f.ended)
      BY <1>1, <2>2
    <2>4. RecordAt(g, i) = g.ended[i][1][1] /\ RecordAt(f, i) = f.ended[i][1][1]
      BY <1>1, <2>3, ReadsAre
    <2>5. QED
      BY <1>1, <2>2, <2>4
  <1>5. RecordAt(g, n) = g.open[1][1]
    BY <1>1, ReadsAre
  <1>6. n \notin ReadAll(f)
    BY <1>1, <1>2
  <1>7. QED
    BY <1>2, <1>3, <1>4, <1>5, <1>6 DEF g

-----------------------------------------------------------------------------

LEMMA ContinuesItself == ASSUME NEW f PROVE Continues(f, f)
  BY DEF Continues

LEMMA ContinuesOn ==
    ASSUME NEW f, NEW g, NEW h, Continues(f, g), Continues(g, h)
    PROVE  Continues(f, h)
  BY DEF Continues

LEMMA EmptyReads == ReadAll(Empty) = {}
  <1>1. Empty.ended = <<>> /\ Empty.open = <<>> /\ Len(Empty.ended) = 0
    BY DEF Empty
  <1>2. \A i : i \notin ReadAll(Empty)
    BY <1>1, EmptyIsFile, ReadsAre, EmptyLine
  <1>3. QED
    BY <1>2

LEMMA ContinuesEmpty == ASSUME NEW f PROVE Continues(Empty, f)
  BY EmptyReads DEF Continues

\* g reads what f reads, and behind it one line that holds the record r.
GainsOne(f, g, r) ==
    \E n : /\ \A i : i \in ReadAll(g) <=> i \in ReadAll(f) \/ i = n
           /\ \A i \in ReadAll(f) : i < n /\ n # i /\ RecordAt(g, i) = RecordAt(f, i)
           /\ RecordAt(g, n) = r

ReadsTheSame(f, g) ==
    /\ ReadAll(g) = ReadAll(f)
    /\ \A i \in ReadAll(f) : RecordAt(g, i) = RecordAt(f, i)

LEMMA GainsContinue ==
    ASSUME NEW f, NEW g, NEW r, GainsOne(f, g, r) \/ ReadsTheSame(f, g)
    PROVE  Continues(f, g)
  <1>1. CASE GainsOne(f, g, r)
    <2>1. PICK n : /\ \A i : i \in ReadAll(g) <=> i \in ReadAll(f) \/ i = n
                   /\ \A i \in ReadAll(f) : i < n /\ n # i /\ RecordAt(g, i) = RecordAt(f, i)
      BY <1>1 DEF GainsOne
    <2>2. QED
      BY <2>1 DEF Continues
  <1>2. CASE ReadsTheSame(f, g)
    BY <1>2 DEF Continues, ReadsTheSame
  <1>3. QED
    BY <1>1, <1>2

LEMMA SameThenGains ==
    ASSUME NEW f, NEW g, NEW h, NEW r, ReadsTheSame(f, g), GainsOne(g, h, r)
    PROVE  GainsOne(f, h, r)
  <1>1. PICK n : /\ \A i : i \in ReadAll(h) <=> i \in ReadAll(g) \/ i = n
                 /\ \A i \in ReadAll(g) : i < n /\ n # i /\ RecordAt(h, i) = RecordAt(g, i)
                 /\ RecordAt(h, n) = r
    BY DEF GainsOne
  <1>2. /\ \A i : i \in ReadAll(h) <=> i \in ReadAll(f) \/ i = n
        /\ \A i \in ReadAll(f) : i < n /\ n # i /\ RecordAt(h, i) = RecordAt(f, i)
    BY <1>1 DEF ReadsTheSame
  <1>3. QED
    BY <1>1, <1>2 DEF GainsOne

LEMMA GainsThenSame ==
    ASSUME NEW f, NEW g, NEW h, NEW r, GainsOne(f, g, r), ReadsTheSame(g, h)
    PROVE  GainsOne(f, h, r)
  <1>1. PICK n : /\ \A i : i \in ReadAll(g) <=> i \in ReadAll(f) \/ i = n
                 /\ \A i \in ReadAll(f) : i < n /\ n # i /\ RecordAt(g, i) = RecordAt(f, i)
                 /\ RecordAt(g, n) = r
    BY DEF GainsOne
  <1>2. /\ \A i : i \in ReadAll(h) <=> i \in ReadAll(f) \/ i = n
        /\ \A i \in ReadAll(f) : i < n /\ n # i /\ RecordAt(h, i) = RecordAt(f, i)
        /\ RecordAt(h, n) = r
    BY <1>1 DEF ReadsTheSame
  <1>3. QED
    BY <1>2 DEF GainsOne

LEMMA SameThenSame ==
    ASSUME NEW f, NEW g, NEW h, ReadsTheSame(f, g), ReadsTheSame(g, h)
    PROVE  ReadsTheSame(f, h)
  BY DEF ReadsTheSame

-----------------------------------------------------------------------------
(***************************************************************************)
(* A step of a writer.                                                     *)
(***************************************************************************)

\* As long as no check of the file's end was overtaken: an open line has one writer at
\* most, it is that of whoever is half way, and whoever is about to write knows of it.
OneAtTheOpenLine ==
    ~ mishap =>
      /\ file.open # <<>> =>
            \A v, w \in Writers : writing[v] # "idle" /\ writing[w] # "idle" => v = w
      /\ \A w \in Writers :
            /\ writing[w] = "half" => file.open = <<Head1(w)>>
            /\ writing[w] = "open" /\ file.open # <<>> => prefixed[w]

\* What is read: no record twice, and none that is still to be written; what a
\* completed write has put there, in the order of the writes.
ReadsAreWrites ==
    ~ mishap =>
      /\ \A i \in ReadAll(file), w \in Writers : RecordAt(file, i).writer = w =>
            /\ RecordAt(file, i).record <= count[w]
            /\ writing[w] # "idle" => RecordAt(file, i).record < count[w]
      /\ \A i, j \in ReadAll(file) : RecordAt(file, i) = RecordAt(file, j) => i = j
      /\ \A k \in DOMAIN completed : \E i \in ReadAll(file) : RecordAt(file, i) = completed[k]
      /\ \A k \in DOMAIN completed : \A j \in 1..(k - 1) : \A i, h \in ReadAll(file) :
            RecordAt(file, i) = completed[k] /\ RecordAt(file, h) = completed[j] => h < i

\* Whose turn it was, and what became of the file and its records.
Advances(w) ==
    /\ \A v \in Writers : v # w => count'[v] = count[v] /\ writing'[v] = writing[v]
    /\ \/ /\ ReadsTheSame(file, file') /\ completed' = completed
          /\ \/ writing[w] = "idle" /\ count'[w] = count[w] + 1
             \/ writing[w] # "idle" /\ count'[w] = count[w]
       \/ /\ GainsOne(file, file', Record(w)) /\ writing[w] # "idle" /\ writing'[w] = "idle"
          /\ count'[w] = count[w] /\ completed' \in {completed, Append(completed, Record(w))}

LEMMA RecordFacts ==
    ASSUME JournalType, NEW w \in Writers
    PROVE  /\ Record(w) \in Records /\ Record(w).writer = w /\ Record(w).record = count[w]
           /\ Whole(w) \in Pieces /\ Head1(w) \in Pieces /\ Tail1(w) \in Pieces
           /\ Prefixed(w) \in Files
           /\ ReadsTheSame(file, Prefixed(w))
  <1>1. /\ Record(w) \in Records /\ Record(w).writer = w /\ Record(w).record = count[w]
    BY DEF JournalType, Record, Records
  <1>2. Whole(w) \in Pieces /\ Head1(w) \in Pieces /\ Tail1(w) \in Pieces
    BY <1>1 DEF Whole, Head1, Tail1, Pieces
  <1>3. file \in Files
    BY DEF JournalType
  <1>4. EndLine(file) \in Files /\ ReadsTheSame(file, EndLine(file)) /\ ReadsTheSame(file, file)
    BY <1>3, EndLineIsFile, EndLineReads DEF ReadsTheSame
  <1>5. QED
    BY <1>1, <1>2, <1>3, <1>4 DEF Prefixed

LEMMA PieceParses ==
    ASSUME NEW p
    PROVE  /\ p[2] = "whole" => Parses(<<p>>)
           /\ p[2] = "head" => ~ Parses(<<p>>)
  BY DEF Parses

LEMMA PiecesParse ==
    ASSUME NEW p, NEW q, q[1] = p[1], p[2] = "head", q[2] = "tail"
    PROVE  Parses(<<p, q>>)
  BY DEF Parses

LEMMA AppendOne ==
    ASSUME NEW S, NEW p \in S
    PROVE  Append(<<>>, p) = <<p>>
  OBVIOUS

LEMMA AppendTwo ==
    ASSUME NEW S, NEW p \in S, NEW q \in S
    PROVE  Append(<<p>>, q) = <<p, q>>
  <1> DEFINE s == <<p>>
             a == Append(s, q)
             b == <<p, q>>
  <1>1. s \in Seq(S) /\ Len(s) = 1 /\ s[1] = p
    OBVIOUS
  <1>2. b \in Seq(S) /\ Len(b) = 2 /\ b[1] = p /\ b[2] = q
    OBVIOUS
  <1> HIDE DEF s, b
  <1>3. a \in Seq(S) /\ Len(a) = 2 /\ a[1] = p /\ a[2] = q
    <2>1. a \in Seq(S) /\ Len(a) = Len(s) + 1 /\ a[Len(s) + 1] = q
      BY <1>1, AppendProperties DEF a
    <2>2. \A i \in 1..Len(s) : a[i] = s[i]
      BY <1>1, AppendProperties DEF a
    <2>3. 1 \in 1..Len(s)
      BY <1>1
    <2>4. a[1] = s[1]
      BY <2>2, <2>3
    <2>5. QED
      BY <1>1, <2>1, <2>4
  <1> HIDE DEF a
  <1>4. ASSUME NEW i \in 1..2 PROVE a[i] = b[i]
    <2>1. i = 1 \/ i = 2
      OBVIOUS
    <2>2. QED
      BY <1>2, <1>3, <2>1
  <1>5. a = b
    BY <1>2, <1>3, <1>4
  <1>6. QED
    BY <1>5 DEF a, b, s

\* A first piece on a fresh line.
LEMMA FirstPiece ==
    ASSUME NEW f \in Files, f.open = <<>>, NEW p \in Pieces
    PROVE  /\ Put(f, p) \in Files /\ Put(f, p).open = <<p>>
           /\ p[2] = "whole" => GainsOne(f, Put(f, p), p[1])
           /\ p[2] = "head" => ReadsTheSame(f, Put(f, p))
  <1> DEFINE g == Put(f, p)
             n == Len(f.ended) + 1
  <1>1. g \in Files /\ g.open = <<p>>
    BY PutIsFile, AppendOne
  <1>2. ~ Parses(f.open)
    BY EmptyLine
  <1>3. /\ \A i : i \in ReadAll(g) <=> (i \in ReadAll(f) \/ (i = n /\ Parses(g.open)))
        /\ n \notin ReadAll(f)
        /\ \A i \in ReadAll(f) : i < n /\ RecordAt(g, i) = RecordAt(f, i)
        /\ RecordAt(g, n) = g.open[1][1]
    BY <1>2, PutReads
  <1> HIDE DEF g, n
  <1>4. ASSUME p[2] = "whole" PROVE GainsOne(f, g, p[1])
    <2>1. Parses(g.open) /\ g.open[1][1] = p[1]
      BY <1>1, <1>4, PieceParses
    <2>2. QED
      BY <1>3, <2>1 DEF GainsOne
  <1>5. ASSUME p[2] = "head" PROVE ReadsTheSame(f, g)
    <2>1. ~ Parses(g.open)
      BY <1>1, <1>5, PieceParses
    <2>2. \A i : i \in ReadAll(g) <=> i \in ReadAll(f)
      BY <1>3, <2>1
    <2>3. ReadAll(g) = ReadAll(f)
      BY <2>2
    <2>4. QED
      BY <1>3, <2>3 DEF ReadsTheSame
  <1>6. QED
    BY <1>1, <1>4, <1>5 DEF g

\* The second piece behind the first.
LEMMA SecondPiece ==
    ASSUME NEW f \in Files, NEW p \in Pieces, NEW q \in Pieces,
           f.open = <<p>>, p[2] = "head", q[2] = "tail", q[1] = p[1]
    PROVE  /\ Put(f, q) \in Files
           /\ GainsOne(f, Put(f, q), p[1])
  <1> DEFINE g == Put(f, q)
             n == Len(f.ended) + 1
  <1>1. g \in Files /\ g.open = <<p, q>>
    <2>1. g \in Files /\ g.open = Append(f.open, q)
      BY PutIsFile
    <2>2. Append(<<p>>, q) = <<p, q>>
      BY AppendTwo
    <2> HIDE DEF g
    <2>3. QED
      BY <2>1, <2>2
  <1>2. ~ Parses(f.open)
    BY PieceParses
  <1>3. /\ \A i : i \in ReadAll(g) <=> (i \in ReadAll(f) \/ (i = n /\ Parses(g.open)))
        /\ n \notin ReadAll(f)
        /\ \A i \in ReadAll(f) : i < n /\ RecordAt(g, i) = RecordAt(f, i)
        /\ RecordAt(g, n) = g.open[1][1]
    BY <1>2, PutReads
  <1> HIDE DEF g, n
  <1>4. Parses(g.open) /\ g.open[1][1] = p[1]
    BY <1>1, PiecesParse
  <1>5. QED
    BY <1>1, <1>3, <1>4 DEF GainsOne, g

-----------------------------------------------------------------------------

\* The line a writer that has looked at the file puts its first piece on.
LEMMA FreshLine ==
    ASSUME JournalType, OneAtTheOpenLine, ~ mishap, NEW w \in Writers, writing[w] = "open"
    PROVE  Prefixed(w).open = <<>>
  <1>1. CASE prefixed[w]
    BY <1>1 DEF Prefixed, EndLine
  <1>2. CASE ~ prefixed[w]
    BY <1>2 DEF Prefixed, OneAtTheOpenLine
  <1>3. QED
    BY <1>1, <1>2

LEMMA TypeBegin ==
    ASSUME JournalType, NEW w \in Writers, BeginWrite(w) \/ BeginBlind(w)
    PROVE  /\ file' \in Files /\ writing' \in [Writers -> {"idle", "open", "half"}]
           /\ prefixed' \in [Writers -> BOOLEAN] /\ count' \in [Writers -> Nat]
           /\ completed' \in Seq(Records) /\ kills' \in Nat
  <1>1. NeedsNewline \in BOOLEAN
    BY DEF NeedsNewline
  <1>2. ASSUME NEW newline \in BOOLEAN, Begin(w, newline)
        PROVE  /\ file' \in Files /\ writing' \in [Writers -> {"idle", "open", "half"}]
               /\ prefixed' \in [Writers -> BOOLEAN] /\ count' \in [Writers -> Nat]
               /\ completed' \in Seq(Records) /\ kills' \in Nat
    BY <1>2 DEF Begin, JournalType
  <1>3. CASE BeginWrite(w)
    BY <1>1, <1>2, <1>3 DEF BeginWrite
  <1>4. CASE BeginBlind(w)
    BY <1>2, <1>4 DEF BeginBlind
  <1>5. QED
    BY <1>3, <1>4

LEMMA TypeWrite ==
    ASSUME JournalType, NEW w \in Writers,
           WriteAll(w) \/ WriteHead(w) \/ WriteTail(w) \/ WriteFails(w) \/ Kill(w)
    PROVE  /\ file' \in Files /\ writing' \in [Writers -> {"idle", "open", "half"}]
           /\ prefixed' \in [Writers -> BOOLEAN] /\ count' \in [Writers -> Nat]
           /\ completed' \in Seq(Records) /\ kills' \in Nat
  <1>1. \A p \in {Whole(w), Head1(w), Tail1(w)} : \A f \in {file, Prefixed(w)} :
           Put(f, p) \in Files /\ EndLine(Put(f, p)) \in Files
    BY RecordFacts, PutIsFile, EndLineIsFile DEF JournalType
  <1>2. file' \in Files
    <2>1. file \in Files
      BY DEF JournalType
    <2>2. CASE WriteAll(w)
      BY <1>1, <2>2 DEF WriteAll, Completes
    <2>3. CASE WriteHead(w)
      BY <1>1, <2>3 DEF WriteHead
    <2>4. CASE WriteTail(w)
      BY <1>1, <2>4 DEF WriteTail, Completes
    <2>5. CASE WriteFails(w)
      BY <2>1, <2>5 DEF WriteFails
    <2>6. CASE Kill(w)
      BY <1>1, <2>1, <2>6 DEF Kill
    <2>7. QED
      BY <2>2, <2>3, <2>4, <2>5, <2>6
  <1>3. /\ writing' \in [Writers -> {"idle", "open", "half"}]
        /\ prefixed' = prefixed /\ count' = count /\ kills' \in {kills, kills + 1}
        /\ completed' \in {completed, Append(completed, Record(w))}
    BY DEF JournalType, WriteAll, WriteHead, WriteTail, Completes, WriteFails, Kill
  <1>4. Append(completed, Record(w)) \in Seq(Records)
    BY RecordFacts, AppendProperties DEF JournalType
  <1>5. completed \in Seq(Records)
    BY DEF JournalType
  <1>6. completed' \in Seq(Records)
    BY <1>3, <1>4, <1>5
  <1>7. kills' \in Nat
    BY <1>3 DEF JournalType
  <1>8. QED
    BY <1>2, <1>3, <1>6, <1>7 DEF JournalType

LEMMA JournalTypeStep ==
    ASSUME JournalType, JournalNext \/ UNCHANGED journalVars
    PROVE  JournalType'
  <1>1. CASE UNCHANGED journalVars
    BY <1>1 DEF journalVars, JournalType
  <1>2. CASE JournalNext
    <2>1. mishap' \in BOOLEAN
      <3>1. mishap \in BOOLEAN
        BY DEF JournalType
      <3>2. Overtaken \in BOOLEAN
        BY DEF Overtaken
      <3>3. QED
        BY <1>2, <3>1, <3>2 DEF JournalNext
    <2>2. PICK w \in Writers : \/ BeginWrite(w) \/ BeginBlind(w)
                               \/ WriteAll(w) \/ WriteHead(w) \/ WriteTail(w)
                               \/ WriteFails(w) \/ Kill(w)
      BY <1>2 DEF JournalNext
    <2>3. QED
      BY <2>1, <2>2, TypeBegin, TypeWrite DEF JournalType
  <1>3. QED
    BY <1>1, <1>2

\* What a first piece makes of the file.
LEMMA FirstPieceWritten ==
    ASSUME JournalType, OneAtTheOpenLine, ~ mishap, NEW w \in Writers, writing[w] = "open"
    PROVE  /\ GainsOne(file, Put(Prefixed(w), Whole(w)), Record(w))
           /\ GainsOne(file, EndLine(Put(Prefixed(w), Whole(w))), Record(w))
           /\ ReadsTheSame(file, Put(Prefixed(w), Head1(w)))
           /\ Put(Prefixed(w), Head1(w)).open = <<Head1(w)>>
  <1> DEFINE f == Prefixed(w)
  <1>1. f \in Files /\ f.open = <<>> /\ ReadsTheSame(file, f)
    BY FreshLine, RecordFacts
  <1>2. /\ Whole(w) \in Pieces /\ Whole(w)[1] = Record(w) /\ Whole(w)[2] = "whole"
        /\ Head1(w) \in Pieces /\ Head1(w)[2] = "head"
    BY RecordFacts DEF Whole, Head1
  <1> HIDE DEF f
  <1>3. Put(f, Whole(w)) \in Files /\ GainsOne(f, Put(f, Whole(w)), Record(w))
    BY <1>1, <1>2, FirstPiece
  <1>4. ReadsTheSame(f, Put(f, Head1(w))) /\ Put(f, Head1(w)).open = <<Head1(w)>>
    BY <1>1, <1>2, FirstPiece
  <1>5. GainsOne(file, Put(f, Whole(w)), Record(w))
    BY <1>1, <1>3, SameThenGains
  <1>6. ReadsTheSame(Put(f, Whole(w)), EndLine(Put(f, Whole(w))))
    BY <1>3, EndLineReads DEF ReadsTheSame
  <1>7. GainsOne(file, EndLine(Put(f, Whole(w))), Record(w))
    BY <1>5, <1>6, GainsThenSame
  <1>8. ReadsTheSame(file, Put(f, Head1(w)))
    BY <1>1, <1>4, SameThenSame
  <1>9. QED
    BY <1>4, <1>5, <1>7, <1>8 DEF f

LEMMA SecondPieceWritten ==
    ASSUME JournalType, OneAtTheOpenLine, ~ mishap, NEW w \in Writers, writing[w] = "half"
    PROVE  /\ GainsOne(file, Put(file, Tail1(w)), Record(w))
           /\ GainsOne(file, EndLine(Put(file, Tail1(w))), Record(w))
  <1>1. file \in Files /\ file.open = <<Head1(w)>>
    BY DEF JournalType, OneAtTheOpenLine
  <1>2. /\ Head1(w) \in Pieces /\ Head1(w)[1] = Record(w) /\ Head1(w)[2] = "head"
        /\ Tail1(w) \in Pieces /\ Tail1(w)[1] = Record(w) /\ Tail1(w)[2] = "tail"
    BY RecordFacts DEF Head1, Tail1
  <1>3. Put(file, Tail1(w)) \in Files /\ GainsOne(file, Put(file, Tail1(w)), Record(w))
    BY <1>1, <1>2, SecondPiece
  <1>4. ReadsTheSame(Put(file, Tail1(w)), EndLine(Put(file, Tail1(w))))
    BY <1>3, EndLineReads DEF ReadsTheSame
  <1>5. QED
    BY <1>3, <1>4, GainsThenSame

LEMMA WriterStep ==
    ASSUME JournalType, OneAtTheOpenLine, ~ mishap, NEW w \in Writers,
           \/ BeginWrite(w) \/ WriteAll(w) \/ WriteHead(w) \/ WriteTail(w)
           \/ WriteFails(w) \/ Kill(w)
    PROVE  Advances(w)
  <1>1. ReadsTheSame(file, file)
    BY DEF ReadsTheSame
  <1>2. count[w] \in Nat /\ count \in [Writers -> Nat]
    BY DEF JournalType
  <1>3. writing \in [Writers -> {"idle", "open", "half"}]
    BY DEF JournalType
  <1>4. CASE BeginWrite(w)
    BY <1>1, <1>2, <1>3, <1>4 DEF BeginWrite, Begin, Advances
  <1>5. CASE WriteAll(w)
    <2>1. writing[w] = "open" /\ Completes(w, EndLine(Put(Prefixed(w), Whole(w))))
      BY <1>5 DEF WriteAll
    <2>2. GainsOne(file, file', Record(w))
      BY <2>1, FirstPieceWritten DEF Completes
    <2>3. QED
      BY <1>2, <1>3, <2>1, <2>2 DEF Completes, Advances
  <1>6. CASE WriteHead(w)
    <2>1. ReadsTheSame(file, file')
      BY <1>6, FirstPieceWritten DEF WriteHead
    <2>2. QED
      BY <1>2, <1>3, <1>6, <2>1 DEF WriteHead, Advances
  <1>7. CASE WriteTail(w)
    <2>1. writing[w] = "half" /\ Completes(w, EndLine(Put(file, Tail1(w))))
      BY <1>7 DEF WriteTail
    <2>2. GainsOne(file, file', Record(w))
      BY <2>1, SecondPieceWritten DEF Completes
    <2>3. QED
      BY <1>2, <1>3, <2>1, <2>2 DEF Completes, Advances
  <1>8. CASE WriteFails(w)
    BY <1>1, <1>2, <1>3, <1>8 DEF WriteFails, Advances
  <1>9. CASE Kill(w)
    <2>1. \/ ReadsTheSame(file, file')
          \/ GainsOne(file, file', Record(w))
      <3>1. CASE file' = file
        BY <1>1, <3>1
      <3>2. CASE writing[w] = "open" /\ file' = Put(Prefixed(w), Head1(w))
        BY <3>2, FirstPieceWritten
      <3>3. CASE writing[w] = "open" /\ file' = Put(Prefixed(w), Whole(w))
        BY <3>3, FirstPieceWritten
      <3>4. CASE writing[w] = "half" /\ file' = Put(file, Tail1(w))
        BY <3>4, SecondPieceWritten
      <3>5. QED
        BY <1>9, <3>1, <3>2, <3>3, <3>4 DEF Kill
    <2>2. QED
      BY <1>2, <1>3, <1>9, <2>1 DEF Kill, Advances
  <1>10. QED
    BY <1>4, <1>5, <1>6, <1>7, <1>8, <1>9

\* Who is at an open line is alone there, or the check of its end was overtaken.
LEMMA OneAtTheOpenLineStep ==
    ASSUME JournalType, OneAtTheOpenLine, JournalNext \/ UNCHANGED journalVars
    PROVE  OneAtTheOpenLine'
  <1>1. CASE UNCHANGED journalVars
    BY <1>1 DEF journalVars, OneAtTheOpenLine, Head1, Record
  <1>2. CASE JournalNext
    <2>1. SUFFICES ASSUME ~ mishap'
                   PROVE  OneAtTheOpenLine'
      BY DEF OneAtTheOpenLine
    <2>2. PICK w \in Writers :
             /\ \/ BeginWrite(w) \/ WriteAll(w) \/ WriteHead(w) \/ WriteTail(w)
                \/ WriteFails(w) \/ Kill(w)
             /\ ~ mishap /\ ~ Overtaken
      BY <1>2, <2>1 DEF JournalNext
    <2>3. Advances(w)
      BY <2>2, WriterStep
    <2>4. Busy(w)
      BY <2>2 DEF Busy, BeginWrite, Begin, WriteAll, WriteHead, WriteTail, WriteFails, Kill,
                  Completes, JournalType
    <2>5. file'.open # <<>> => \A v \in Writers : v # w => writing[v] = "idle" /\ writing'[v] = "idle"
      BY <2>2, <2>4 DEF Overtaken, Busy
    <2>6. \A v \in Writers : v # w => writing'[v] = writing[v] /\ count'[v] = count[v]
      BY <2>3 DEF Advances
    <2>7. \A v \in Writers : v # w => writing'[v] # "half"
      <3>1. SUFFICES ASSUME NEW v \in Writers, v # w, writing'[v] = "half"
                     PROVE  FALSE
        OBVIOUS
      <3>2. writing[v] = "half"
        BY <2>6, <3>1
      <3>3. file.open = <<Head1(v)>>
        BY <2>2, <3>2 DEF OneAtTheOpenLine
      <3>4. file.open # <<>>
        BY <3>3
      <3>5. writing[w] = "idle"
        BY <2>2, <3>1, <3>2, <3>4 DEF OneAtTheOpenLine
      <3>6. BeginWrite(w)
        BY <2>2, <3>5 DEF WriteAll, WriteHead, WriteTail, WriteFails, Kill
      <3>7. file' = file
        BY <3>6 DEF BeginWrite, Begin
      <3>8. QED
        BY <2>5, <3>1, <3>4, <3>7
    <2>8. writing'[w] = "half" => file'.open = <<Head1(w)>> /\ count' = count
      <3>1. SUFFICES ASSUME writing'[w] = "half"
                     PROVE  file'.open = <<Head1(w)>> /\ count' = count
        OBVIOUS
      <3>2. WriteHead(w)
        BY <2>2, <3>1 DEF BeginWrite, Begin, WriteAll, WriteTail, WriteFails, Kill,
                          Completes, JournalType
      <3>3. QED
        BY <2>2, <3>2, FirstPieceWritten DEF WriteHead
    <2>9. writing'[w] = "open" => prefixed'[w] = (file'.open # <<>>)
      <3>1. SUFFICES ASSUME writing'[w] = "open"
                     PROVE  prefixed'[w] = (file'.open # <<>>)
        OBVIOUS
      <3>2. BeginWrite(w)
        BY <2>2, <3>1 DEF WriteHead, WriteAll, WriteTail, WriteFails, Kill,
                          Completes, JournalType
      <3>3. QED
        BY <3>2 DEF BeginWrite, Begin, NeedsNewline, JournalType
    <2>10. Head1(w)' = <<[writer |-> w, record |-> count'[w]], "head">>
      BY DEF Head1, Record
    <2>11. \A v \in Writers : writing'[v] = "half" => file'.open = <<Head1(v)'>>
      <3>1. SUFFICES ASSUME NEW v \in Writers, writing'[v] = "half"
                     PROVE  file'.open = <<Head1(v)'>>
        OBVIOUS
      <3>2. v = w
        BY <2>7, <3>1
      <3>3. Head1(w)' = Head1(w)
        BY <2>8, <3>1, <3>2 DEF Head1, Record
      <3>4. QED
        BY <2>8, <3>1, <3>2, <3>3
    <2>12. \A v \in Writers : writing'[v] = "open" /\ file'.open # <<>> => prefixed'[v]
      BY <2>5, <2>9
    <2>13. file'.open # <<>> =>
              \A u, v \in Writers : writing'[u] # "idle" /\ writing'[v] # "idle" => u = v
      BY <2>5
    <2>14. QED
      BY <2>11, <2>12, <2>13 DEF OneAtTheOpenLine
  <1>3. QED
    BY <1>1, <1>2

LEMMA RecordAtType ==
    ASSUME NEW f \in Files, NEW i \in ReadAll(f)
    PROVE  RecordAt(f, i) \in Records
  <1>1. /\ f.ended \in Seq(Seq(Pieces)) /\ f.open \in Seq(Pieces) /\ Len(f.ended) \in Nat
    BY DEF Files
  <1>2. ASSUME NEW line \in Seq(Pieces), Parses(line)
        PROVE  line[1][1] \in Records
    <2>1. Len(line) >= 1
      BY <1>2 DEF Parses
    <2>2. line[1] \in Pieces
      BY <2>1
    <2>3. QED
      BY <2>2 DEF Pieces
  <1>3. CASE i \in 1..Len(f.ended) /\ Parses(f.ended[i])
    <2>1. f.ended[i] \in Seq(Pieces)
      BY <1>1, <1>3
    <2>2. QED
      BY <1>2, <1>3, <2>1, ReadsAre
  <1>4. CASE i = Len(f.ended) + 1 /\ Parses(f.open)
    BY <1>1, <1>2, <1>4, ReadsAre
  <1>5. QED
    BY <1>3, <1>4, ReadsAre

\* A step that adds nothing for a reader keeps what is read in line with the writes.
LEMMA SameReadsAreWrites ==
    ASSUME JournalType, ReadsAreWrites, ~ mishap, NEW w \in Writers, Advances(w),
           ReadsTheSame(file, file'), completed' = completed,
           writing[w] = "idle" => count'[w] = count[w] + 1,
           writing[w] # "idle" => count'[w] = count[w]
    PROVE  ReadsAreWrites'
  <1> USE DEF ReadsTheSame
  <1>1. ASSUME NEW i \in ReadAll(file), NEW v \in Writers, RecordAt(file, i).writer = v
        PROVE  /\ RecordAt(file, i).record <= count'[v]
               /\ writing'[v] # "idle" => RecordAt(file, i).record < count'[v]
    <2>1. RecordAt(file, i).record \in Nat /\ count[v] \in Nat
      BY RecordAtType DEF Records, JournalType
    <2>2. /\ RecordAt(file, i).record <= count[v]
          /\ writing[v] # "idle" => RecordAt(file, i).record < count[v]
      BY <1>1 DEF ReadsAreWrites
    <2>3. CASE v # w
      BY <2>2, <2>3 DEF Advances
    <2>4. CASE v = w
      BY <2>1, <2>2, <2>4
    <2>5. QED
      BY <2>3, <2>4
  <1>2. /\ \A i \in ReadAll(file') : i \in ReadAll(file) /\ RecordAt(file', i) = RecordAt(file, i)
        /\ \A i \in ReadAll(file) : i \in ReadAll(file')
    OBVIOUS
  <1>3. \A i \in ReadAll(file'), v \in Writers : RecordAt(file', i).writer = v =>
            /\ RecordAt(file', i).record <= count'[v]
            /\ writing'[v] # "idle" => RecordAt(file', i).record < count'[v]
    BY <1>1, <1>2
  <1>4. \A i, j \in ReadAll(file') : RecordAt(file', i) = RecordAt(file', j) => i = j
    BY <1>2 DEF ReadsAreWrites
  <1>5. \A k \in DOMAIN completed' : \E i \in ReadAll(file') : RecordAt(file', i) = completed'[k]
    BY <1>2 DEF ReadsAreWrites
  <1>6. \A k \in DOMAIN completed' : \A j \in 1..(k - 1) : \A i, h \in ReadAll(file') :
            RecordAt(file', i) = completed'[k] /\ RecordAt(file', h) = completed'[j] => h < i
    BY <1>2 DEF ReadsAreWrites
  <1>7. QED
    BY <1>3, <1>4, <1>5, <1>6 DEF ReadsAreWrites

\* A record that is put down comes behind all others, and there was none like it.
LEMMA OneMoreReadIsWrite ==
    ASSUME JournalType, ReadsAreWrites, ~ mishap, NEW w \in Writers, Advances(w),
           GainsOne(file, file', Record(w)), writing[w] # "idle", writing'[w] = "idle",
           count'[w] = count[w], completed' \in {completed, Append(completed, Record(w))}
    PROVE  ReadsAreWrites'
  <1>1. PICK n : /\ \A i : i \in ReadAll(file') <=> i \in ReadAll(file) \/ i = n
                 /\ \A i \in ReadAll(file) : i < n /\ n # i /\ RecordAt(file', i) = RecordAt(file, i)
                 /\ RecordAt(file', n) = Record(w)
    BY DEF GainsOne
  <1>2. Record(w).writer = w /\ Record(w).record = count[w] /\ Record(w) \in Records
    BY RecordFacts
  <1>3. \A i \in ReadAll(file) : RecordAt(file, i) # Record(w)
    <2>1. SUFFICES ASSUME NEW i \in ReadAll(file), RecordAt(file, i) = Record(w)
                   PROVE  FALSE
      OBVIOUS
    <2>2. count[w] < count[w]
      BY <1>2, <2>1 DEF ReadsAreWrites
    <2>3. QED
      BY <2>2 DEF JournalType
  <1>4. \A v \in Writers : count'[v] = count[v] /\ (v # w => writing'[v] = writing[v])
    BY DEF Advances
  <1>5. \A i \in ReadAll(file'), v \in Writers : RecordAt(file', i).writer = v =>
            /\ RecordAt(file', i).record <= count'[v]
            /\ writing'[v] # "idle" => RecordAt(file', i).record < count'[v]
    <2>1. SUFFICES ASSUME NEW i \in ReadAll(file'), NEW v \in Writers,
                          RecordAt(file', i).writer = v
                   PROVE  /\ RecordAt(file', i).record <= count[v]
                          /\ writing'[v] # "idle" => RecordAt(file', i).record < count[v]
      BY <1>4
    <2>2. CASE i = n
      <3>1. RecordAt(file', i) = Record(w) /\ v = w
        BY <1>1, <1>2, <2>1, <2>2
      <3>2. count[w] \in Nat
        BY DEF JournalType
      <3>3. QED
        BY <1>2, <3>1, <3>2
    <2>3. CASE i \in ReadAll(file)
      <3>1. RecordAt(file', i) = RecordAt(file, i)
        BY <1>1, <2>3
      <3>2. /\ RecordAt(file, i).record <= count[v]
            /\ writing[v] # "idle" => RecordAt(file, i).record < count[v]
        BY <2>1, <2>3, <3>1 DEF ReadsAreWrites
      <3>3. writing'[v] # "idle" => writing[v] # "idle"
        BY <1>4
      <3>4. QED
        BY <3>1, <3>2, <3>3
    <2>4. QED
      BY <1>1, <2>1, <2>2, <2>3
  <1>6. \A i, j \in ReadAll(file') : RecordAt(file', i) = RecordAt(file', j) => i = j
    <2>1. SUFFICES ASSUME NEW i \in ReadAll(file'), NEW j \in ReadAll(file'),
                          RecordAt(file', i) = RecordAt(file', j)
                   PROVE  i = j
      OBVIOUS
    <2>2. CASE i \in ReadAll(file) /\ j \in ReadAll(file)
      BY <1>1, <2>1, <2>2 DEF ReadsAreWrites
    <2>3. CASE i = n /\ j \in ReadAll(file)
      BY <1>1, <1>3, <2>1, <2>3
    <2>4. CASE i \in ReadAll(file) /\ j = n
      BY <1>1, <1>3, <2>1, <2>4
    <2>5. QED
      BY <1>1, <2>2, <2>3, <2>4
  <1> DEFINE last == Len(completed) + 1
  <1>7. /\ Len(completed) \in Nat /\ DOMAIN completed = 1..Len(completed)
        /\ \A k \in DOMAIN completed : completed'[k] = completed[k] /\ k < last /\ k \in Nat
        /\ \A k \in DOMAIN completed' : k \in DOMAIN completed \/ (k = last /\ completed'[k] = Record(w))
    <2>1. completed \in Seq(Records)
      BY DEF JournalType
    <2>2. CASE completed' = completed
      BY <2>1, <2>2
    <2>3. CASE completed' = Append(completed, Record(w))
      BY <1>2, <2>1, <2>3, AppendProperties
    <2>4. QED
      BY <2>2, <2>3
  <1> HIDE DEF last
  <1>8. \A k \in DOMAIN completed' : \E i \in ReadAll(file') : RecordAt(file', i) = completed'[k]
    <2>1. SUFFICES ASSUME NEW k \in DOMAIN completed'
                   PROVE  \E i \in ReadAll(file') : RecordAt(file', i) = completed'[k]
      OBVIOUS
    <2>2. CASE k \in DOMAIN completed
      <3>1. PICK i \in ReadAll(file) : RecordAt(file, i) = completed[k]
        BY <2>2 DEF ReadsAreWrites
      <3>2. QED
        BY <1>1, <1>7, <2>2, <3>1
    <2>3. CASE k = last /\ completed'[k] = Record(w)
      BY <1>1, <2>3
    <2>4. QED
      BY <1>7, <2>1, <2>2, <2>3
  <1>9. \A k \in DOMAIN completed' : \A j \in 1..(k - 1) : \A i, h \in ReadAll(file') :
            RecordAt(file', i) = completed'[k] /\ RecordAt(file', h) = completed'[j] => h < i
    <2>1. SUFFICES ASSUME NEW k \in DOMAIN completed', NEW j \in 1..(k - 1),
                          NEW i \in ReadAll(file'), NEW h \in ReadAll(file'),
                          RecordAt(file', i) = completed'[k], RecordAt(file', h) = completed'[j]
                   PROVE  h < i
      OBVIOUS
    <2>2. j \in DOMAIN completed /\ completed'[j] = completed[j]
      BY <1>7 DEF last
    <2>3. PICK g \in ReadAll(file) : RecordAt(file, g) = completed[j]
      BY <2>2 DEF ReadsAreWrites
    <2>4. g = h
      BY <1>1, <1>6, <2>1, <2>2, <2>3
    <2>5. CASE k \in DOMAIN completed
      <3>1. PICK e \in ReadAll(file) : RecordAt(file, e) = completed[k]
        BY <2>5 DEF ReadsAreWrites
      <3>2. e = i
        BY <1>1, <1>6, <1>7, <2>1, <2>5, <3>1
      <3>3. QED
        BY <2>3, <2>4, <2>5, <3>1, <3>2 DEF ReadsAreWrites
    <2>6. CASE k = last /\ completed'[k] = Record(w)
      <3>1. i \notin ReadAll(file)
        BY <1>1, <1>3, <2>1, <2>6
      <3>2. i = n
        BY <1>1, <2>1, <3>1
      <3>3. QED
        BY <1>1, <2>3, <2>4, <3>2
    <2>7. QED
      BY <1>7, <2>1, <2>5, <2>6
  <1>10. QED
    BY <1>5, <1>6, <1>8, <1>9 DEF ReadsAreWrites

LEMMA ReadsAreWritesStep ==
    ASSUME JournalType, OneAtTheOpenLine, ReadsAreWrites, JournalNext \/ UNCHANGED journalVars
    PROVE  /\ ReadsAreWrites'
           /\ ~ mishap' => Continues(file, file')
  <1>1. CASE UNCHANGED journalVars
    BY <1>1, ContinuesItself DEF journalVars, ReadsAreWrites
  <1>2. CASE JournalNext /\ mishap'
    BY <1>2 DEF ReadsAreWrites
  <1>3. CASE JournalNext /\ ~ mishap'
    <2>1. PICK w \in Writers :
             /\ \/ BeginWrite(w) \/ WriteAll(w) \/ WriteHead(w) \/ WriteTail(w)
                \/ WriteFails(w) \/ Kill(w)
             /\ ~ mishap
      BY <1>3 DEF JournalNext
    <2>2. Advances(w)
      BY <2>1, WriterStep
    <2>3. ReadsAreWrites'
      BY <2>1, <2>2, SameReadsAreWrites, OneMoreReadIsWrite DEF Advances
    <2>4. Continues(file, file')
      BY <2>2, GainsContinue DEF Advances
    <2>5. QED
      BY <2>3, <2>4
  <1>4. QED
    BY <1>1, <1>2, <1>3

LEMMA CompletedRead ==
    ASSUME JournalType, ReadsAreWrites
    PROVE  CompletedAreRead
  <1>1. SUFFICES ASSUME ~ mishap, NEW k \in DOMAIN completed
                 PROVE  \E i \in ReadAll(file) :
                           /\ PlacesOf(file, completed[k]) = {i}
                           /\ \A j \in 1..(k - 1) : \A h \in PlacesOf(file, completed[j]) : h < i
    BY DEF CompletedAreRead
  <1>2. PICK i \in ReadAll(file) : RecordAt(file, i) = completed[k]
    BY <1>1 DEF ReadsAreWrites
  <1>3. \A h : h \in PlacesOf(file, completed[k]) <=> h = i
    BY <1>1, <1>2 DEF PlacesOf, ReadsAreWrites
  <1>4. \A j \in 1..(k - 1) : \A h \in PlacesOf(file, completed[j]) : h < i
    BY <1>1, <1>2 DEF PlacesOf, ReadsAreWrites
  <1>5. QED
    BY <1>3, <1>4

JournalInv == JournalType /\ OneAtTheOpenLine /\ ReadsAreWrites

LEMMA JournalInvInit ==
    ASSUME JournalInit
    PROVE  JournalInv
  <1>1. file = Empty /\ file.open = <<>> /\ completed = <<>> /\ DOMAIN completed = {}
    BY DEF JournalInit, Empty
  <1>2. JournalType
    <2>1. <<>> \in Seq(Records)
      OBVIOUS
    <2>2. file \in Files /\ completed \in Seq(Records)
      BY <1>1, <2>1, EmptyIsFile
    <2>3. QED
      BY <2>2 DEF JournalInit, JournalType
  <1>3. OneAtTheOpenLine
    BY <1>1 DEF JournalInit, OneAtTheOpenLine
  <1>4. ReadAll(file) = {}
    BY <1>1, EmptyReads
  <1>5. ReadsAreWrites
    BY <1>1, <1>4 DEF ReadsAreWrites
  <1>6. QED
    BY <1>2, <1>3, <1>5 DEF JournalInv

LEMMA JournalInvStep ==
    ASSUME JournalInv, JournalNext \/ UNCHANGED journalVars
    PROVE  JournalInv' /\ (~ mishap' => Continues(file, file'))
  BY JournalTypeStep, OneAtTheOpenLineStep, ReadsAreWritesStep DEF JournalInv

\* Every step is one of a writer or one of a script, and the other's side stays.
LEMMA EitherSide ==
    ASSUME PublicationNext \/ UNCHANGED <<journalVars, publicationVars>>
    PROVE  \/ (JournalNext \/ UNCHANGED journalVars) /\ UNCHANGED publicationVars
           \/ /\ UNCHANGED journalVars
              /\ \E p \in Pushers :
                    \/ \E withSnapshot \in BOOLEAN : CopyJournal(p, withSnapshot)
                    \/ Compare(p) \/ Commit(p) \/ Push(p) \/ Abort(p)
  BY DEF PublicationNext, Starts, Proceeds

LEMMA JournalInvAlways == PublicationSpec => []JournalInv
  <1>1. PublicationInit => JournalInv
    BY JournalInvInit DEF PublicationInit
  <1>2. JournalInv /\ [PublicationNext]_<<journalVars, publicationVars>> => JournalInv'
    BY EitherSide, JournalInvStep
  <1>3. QED
    BY <1>1, <1>2, PTL DEF PublicationSpec

\* A record whose write returned is read back once and in the order of the writes,
\* for any writers, kills and failed writes, and whatever publishes the file.
THEOREM RecordsAreKept == PublicationSpec => []CompletedAreRead
  <1>1. JournalInv => CompletedAreRead
    BY CompletedRead DEF JournalInv
  <1>2. QED
    BY <1>1, JournalInvAlways, PTL

-----------------------------------------------------------------------------
(***************************************************************************)
(* The copies of the journal.                                              *)
(***************************************************************************)

PublicationType ==
    /\ pushing \in [Pushers -> {"idle", "copied", "changed", "committed"}]
    /\ copy \in [Pushers -> Files]
    /\ branch \in Files /\ remote \in Files /\ snapshot \in Files
    /\ overlapped \in BOOLEAN

\* Every copy is of the journal as it was at some moment.
CopiesAreOfTheJournal ==
    ~ mishap => /\ Continues(branch, file) /\ Continues(remote, file) /\ Continues(snapshot, file)
                /\ \A p \in Pushers : Continues(copy[p], file)

\* As long as no two script runs have overlapped, each puts a later state of the
\* journal behind the last one.
OnePushAtATime ==
    ~ mishap /\ ~ overlapped =>
      /\ \A p, q \in Pushers : pushing[p] # "idle" /\ pushing[q] # "idle" => p = q
      /\ Continues(remote, branch)
      /\ \A p \in Pushers : pushing[p] # "idle" => Continues(branch, copy[p])

PublicationInv ==
    JournalInv /\ PublicationType /\ CopiesAreOfTheJournal /\ OnePushAtATime

LEMMA PublicationInvInit ==
    ASSUME PublicationInit
    PROVE  PublicationInv
  <1>1. JournalInv
    BY JournalInvInit DEF PublicationInit
  <1>2. PublicationType
    BY EmptyIsFile DEF PublicationInit, PublicationType
  <1>3. CopiesAreOfTheJournal
    BY ContinuesEmpty DEF PublicationInit, CopiesAreOfTheJournal
  <1>4. OnePushAtATime
    BY ContinuesEmpty DEF PublicationInit, OnePushAtATime
  <1>5. QED
    BY <1>1, <1>2, <1>3, <1>4 DEF PublicationInv

\* The journal grows, and every copy stays one of an earlier state.
LEMMA JournalSideStep ==
    ASSUME PublicationInv, JournalNext \/ UNCHANGED journalVars, UNCHANGED publicationVars
    PROVE  PublicationInv' /\ (~ mishap' => Continues(file, file'))
  <1>1. JournalInv' /\ (~ mishap' => Continues(file, file'))
    BY JournalInvStep DEF PublicationInv
  <1>2. mishap => mishap'
    BY DEF JournalNext, journalVars
  <1>3. PublicationType'
    BY DEF PublicationInv, PublicationType, publicationVars
  <1>4. CopiesAreOfTheJournal'
    BY <1>1, <1>2, ContinuesOn DEF PublicationInv, CopiesAreOfTheJournal, publicationVars
  <1>5. OnePushAtATime'
    BY <1>2 DEF PublicationInv, OnePushAtATime, publicationVars
  <1>6. QED
    BY <1>1, <1>3, <1>4, <1>5 DEF PublicationInv

LEMMA ScriptTypeStep ==
    ASSUME JournalType, PublicationType, NEW p \in Pushers,
           \/ \E withSnapshot \in BOOLEAN : CopyJournal(p, withSnapshot)
           \/ Compare(p) \/ Commit(p) \/ Push(p) \/ Abort(p)
    PROVE  PublicationType'
  <1>1. file \in Files /\ Empty \in Files
    BY EmptyIsFile DEF JournalType
  <1>2. ASSUME NEW withSnapshot \in BOOLEAN, CopyJournal(p, withSnapshot)
        PROVE  PublicationType'
    <2>1. snapshot' \in Files
      BY <1>1, <1>2 DEF CopyJournal, PublicationType
    <2>2. overlapped' \in BOOLEAN
      BY <1>2 DEF CopyJournal, PublicationType
    <2>3. QED
      BY <1>1, <1>2, <2>1, <2>2 DEF CopyJournal, Goes, JournalFile, PublicationType
  <1>3. CASE Compare(p)
    BY <1>1, <1>3 DEF Compare, Goes, PublicationType
  <1>4. CASE Commit(p)
    BY <1>1, <1>4 DEF Commit, Goes, PublicationType
  <1>5. CASE Push(p)
    BY <1>1, <1>5 DEF Push, Goes, PublicationType
  <1>6. CASE Abort(p)
    BY <1>1, <1>6 DEF Abort, Goes, PublicationType
  <1>7. QED
    BY <1>2, <1>3, <1>4, <1>5, <1>6

\* A worktree that goes leaves nothing to be published, and nobody else's is touched.
LEMMA ScriptCopies ==
    ASSUME PublicationType, NEW p \in Pushers, NEW from, NEW to, NEW tree, Goes(p, from, to, tree)
    PROVE  /\ pushing[p] = from /\ pushing'[p] = to
           /\ copy'[p] = IF to = "idle" THEN Empty ELSE tree
           /\ \A q \in Pushers : q # p => pushing'[q] = pushing[q] /\ copy'[q] = copy[q]
  BY DEF Goes, PublicationType

LEMMA ScriptCopiesStep ==
    ASSUME JournalType, PublicationType, CopiesAreOfTheJournal, UNCHANGED journalVars,
           NEW p \in Pushers,
           \/ \E withSnapshot \in BOOLEAN : CopyJournal(p, withSnapshot)
           \/ Compare(p) \/ Commit(p) \/ Push(p) \/ Abort(p)
    PROVE  CopiesAreOfTheJournal'
  <1>1. SUFFICES ASSUME ~ mishap
                 PROVE  /\ Continues(branch', file) /\ Continues(remote', file)
                        /\ Continues(snapshot', file)
                        /\ \A q \in Pushers : Continues(copy'[q], file)
    BY DEF CopiesAreOfTheJournal, journalVars
  <1>2. /\ Continues(branch, file) /\ Continues(remote, file) /\ Continues(snapshot, file)
        /\ \A q \in Pushers : Continues(copy[q], file)
        /\ Continues(file, file) /\ Continues(Empty, file)
    BY <1>1, ContinuesItself, ContinuesEmpty DEF CopiesAreOfTheJournal
  <1>3. /\ branch' \in {branch, copy[p]} /\ remote' \in {remote, branch}
        /\ snapshot' \in {snapshot, file}
    BY DEF CopyJournal, Compare, Commit, Push, Abort
  <1>4. \E from, to, tree : Goes(p, from, to, tree) /\ tree \in {file, copy[p], Empty}
    BY DEF CopyJournal, Compare, Commit, Push, Abort, JournalFile
  <1>5. /\ copy'[p] \in {file, copy[p], Empty}
        /\ \A q \in Pushers : q # p => copy'[q] = copy[q]
    BY <1>4, ScriptCopies
  <1>6. QED
    BY <1>2, <1>3, <1>5

LEMMA OnePushStep ==
    ASSUME JournalType, PublicationType, CopiesAreOfTheJournal, OnePushAtATime,
           UNCHANGED journalVars, ~ mishap', ~ overlapped', NEW p \in Pushers,
           \/ \E withSnapshot \in BOOLEAN : CopyJournal(p, withSnapshot)
           \/ Compare(p) \/ Commit(p) \/ Push(p) \/ Abort(p)
    PROVE  OnePushAtATime' /\ Continues(remote, remote')
  <1>1. ~ mishap /\ ~ overlapped
    <2>1. ~ mishap
      BY DEF journalVars
    <2>2. CASE \E withSnapshot \in BOOLEAN : CopyJournal(p, withSnapshot)
      BY <2>1, <2>2 DEF CopyJournal
    <2>3. CASE Compare(p) \/ Commit(p) \/ Push(p) \/ Abort(p)
      BY <2>1, <2>3 DEF Compare, Commit, Push, Abort
    <2>4. QED
      BY <2>2, <2>3
  <1>2. /\ \A q, r \in Pushers : pushing[q] # "idle" /\ pushing[r] # "idle" => q = r
        /\ Continues(remote, branch)
        /\ \A q \in Pushers : pushing[q] # "idle" => Continues(branch, copy[q])
    BY <1>1 DEF OnePushAtATime
  <1>3. SUFFICES /\ \A q \in Pushers : q # p => pushing'[q] = "idle"
                 /\ Continues(remote', branch')
                 /\ pushing'[p] # "idle" => Continues(branch', copy'[p])
                 /\ Continues(remote, remote')
    BY DEF OnePushAtATime
  <1>4. CASE \E withSnapshot \in BOOLEAN : CopyJournal(p, withSnapshot)
    <2>1. /\ \A q \in Pushers : pushing[q] = "idle"
          /\ branch' = branch /\ remote' = remote
          /\ Goes(p, "idle", "copied", file)
      BY <1>4 DEF CopyJournal, JournalFile
    <2>2. copy'[p] = file /\ \A q \in Pushers : q # p => pushing'[q] = pushing[q]
      BY <2>1, ScriptCopies
    <2>3. Continues(branch, file)
      BY <1>1 DEF CopiesAreOfTheJournal
    <2>4. QED
      BY <1>2, <2>1, <2>2, <2>3, ContinuesItself
  <1>5. CASE Compare(p)
    <2>1. PICK to \in {"idle", "changed"} :
             Goes(p, "copied", to, copy[p]) /\ branch' = branch /\ remote' = remote
      BY <1>5 DEF Compare
    <2>2. /\ pushing[p] = "copied" /\ pushing'[p] = to
          /\ copy'[p] = IF to = "idle" THEN Empty ELSE copy[p]
          /\ \A q \in Pushers : q # p => pushing'[q] = pushing[q]
      BY <2>1, ScriptCopies
    <2>3. QED
      BY <1>2, <2>1, <2>2, ContinuesItself
  <1>6. CASE Commit(p)
    <2>1. Goes(p, "changed", "committed", copy[p]) /\ branch' = copy[p] /\ remote' = remote
      BY <1>6 DEF Commit
    <2>2. /\ pushing[p] = "changed" /\ copy'[p] = copy[p]
          /\ \A q \in Pushers : q # p => pushing'[q] = pushing[q]
      BY <2>1, ScriptCopies
    <2>3. Continues(remote, copy[p])
      BY <1>2, <2>2, ContinuesOn
    <2>4. QED
      BY <1>2, <2>1, <2>2, <2>3, ContinuesItself
  <1>7. CASE Push(p)
    <2>1. Goes(p, "committed", "idle", copy[p]) /\ branch' = branch /\ remote' = branch
      BY <1>7 DEF Push
    <2>2. /\ pushing[p] = "committed" /\ pushing'[p] = "idle"
          /\ \A q \in Pushers : q # p => pushing'[q] = pushing[q]
      BY <2>1, ScriptCopies
    <2>3. QED
      BY <1>2, <2>1, <2>2, ContinuesItself
  <1>8. CASE Abort(p)
    <2>1. /\ Goes(p, pushing[p], "idle", Empty) /\ branch' = branch /\ remote' = remote
          /\ pushing[p] # "idle"
      BY <1>8 DEF Abort
    <2>2. pushing'[p] = "idle" /\ \A q \in Pushers : q # p => pushing'[q] = pushing[q]
      BY <2>1, ScriptCopies
    <2>3. QED
      BY <1>2, <2>1, <2>2, ContinuesItself
  <1>9. QED
    BY <1>4, <1>5, <1>6, <1>7, <1>8

LEMMA PublicationInvStep ==
    ASSUME PublicationInv, PublicationNext \/ UNCHANGED <<journalVars, publicationVars>>
    PROVE  /\ PublicationInv'
           /\ ~ mishap' => Continues(file, file')
           /\ ~ overlapped' /\ ~ mishap' => Continues(remote, remote')
  <1>1. CASE (JournalNext \/ UNCHANGED journalVars) /\ UNCHANGED publicationVars
    <2>1. Continues(remote, remote')
      BY <1>1, ContinuesItself DEF publicationVars
    <2>2. QED
      BY <1>1, <2>1, JournalSideStep
  <1>2. ASSUME UNCHANGED journalVars, NEW p \in Pushers,
               \/ \E withSnapshot \in BOOLEAN : CopyJournal(p, withSnapshot)
               \/ Compare(p) \/ Commit(p) \/ Push(p) \/ Abort(p)
        PROVE  /\ PublicationInv'
               /\ ~ mishap' => Continues(file, file')
               /\ ~ overlapped' /\ ~ mishap' => Continues(remote, remote')
    <2>1. JournalInv' /\ Continues(file, file')
      BY <1>2, JournalInvStep, ContinuesItself DEF PublicationInv, journalVars
    <2>2. PublicationType' /\ CopiesAreOfTheJournal'
      BY <1>2, ScriptTypeStep, ScriptCopiesStep DEF PublicationInv, JournalInv
    <2>3. ~ overlapped' /\ ~ mishap' => OnePushAtATime' /\ Continues(remote, remote')
      BY <1>2, OnePushStep DEF PublicationInv, JournalInv
    <2>4. OnePushAtATime'
      BY <2>3 DEF OnePushAtATime
    <2>5. QED
      BY <2>1, <2>2, <2>3, <2>4 DEF PublicationInv
  <1>3. QED
    BY <1>1, <1>2, EitherSide

LEMMA PublicationInvAlways == PublicationSpec => []PublicationInv
  <1>1. PublicationInv /\ [PublicationNext]_<<journalVars, publicationVars>> => PublicationInv'
    BY PublicationInvStep
  <1>2. QED
    BY <1>1, PublicationInvInit, PTL DEF PublicationSpec

\* Nothing that could once be read goes away: from the journal never, from the
\* published branch as long as no two script runs overlap.
THEOREM NothingIsTakenBack == PublicationSpec => HistoryIsKept
  <1>1. PublicationInv /\ [PublicationNext]_<<journalVars, publicationVars>>
           => [~ mishap' => Continues(file, file')]_file
    BY PublicationInvStep
  <1>2. PublicationInv /\ [PublicationNext]_<<journalVars, publicationVars>>
           => [~ overlapped' /\ ~ mishap' => Continues(remote, remote')]_remote
    BY PublicationInvStep
  <1>3. QED
    BY <1>1, <1>2, PublicationInvAlways, PTL
       DEF PublicationSpec, HistoryIsKept, ReadsOnlyGrow, PublishedOnlyGrows

\* Whatever source a dashboard falls back to, and however many scripts overlap, it
\* shows the journal as it was at some moment.
THEOREM ViewsAreGenuine == PublicationSpec => []ViewsAreOfTheJournal
  <1>1. PublicationInv => ViewsAreOfTheJournal
    <2>1. SUFFICES ASSUME PublicationInv, ~ mishap, NEW local \in BOOLEAN, NEW reachable \in BOOLEAN
                   PROVE  Continues(LoadJournal(local, reachable).journal, file)
      BY DEF ViewsAreOfTheJournal
    <2> DEFINE loaded == Loaded(local, reachable)
               found == {n \in DOMAIN loaded : ParseJsonl(loaded[n].journal) # {}}
               first == CHOOSE n \in found : \A m \in found : n <= m
    <2>2. /\ Continues(Empty, file) /\ Continues(file, file)
          /\ Continues(remote, file) /\ Continues(snapshot, file)
      BY <2>1, ContinuesEmpty, ContinuesItself DEF PublicationInv, CopiesAreOfTheJournal
    <2>3. DOMAIN loaded = 1..3 /\ \A n \in 1..3 : Continues(loaded[n].journal, file)
      <3>1. DOMAIN loaded = 1..3
        BY DEF Loaded
      <3>2. /\ loaded[1].journal = IF local THEN file ELSE Empty
            /\ loaded[2].journal = IF reachable THEN remote ELSE Empty
            /\ loaded[3].journal = snapshot
        BY DEF Loaded
      <3>3. QED
        BY <2>2, <3>1, <3>2
    <2> HIDE DEF loaded
    <2>4. found # {} => first \in found
      <3>1. SUFFICES ASSUME found # {} PROVE \E n \in found : \A m \in found : n <= m
        OBVIOUS
      <3>2. found \subseteq 1..3
        BY <2>3
      <3> HIDE DEF found
      <3>3. \A n \in found : n = 1 \/ n = 2 \/ n = 3
        BY <3>2
      <3>4. CASE 1 \in found
        BY <3>3, <3>4
      <3>5. CASE 1 \notin found /\ 2 \in found
        BY <3>3, <3>5
      <3>6. CASE found = {3}
        BY <3>6
      <3>7. QED
        BY <3>1, <3>3, <3>4, <3>5, <3>6
    <2>5. found # {} => Continues(loaded[first].journal, file)
      BY <2>3, <2>4
    <2>6. LoadJournal(local, reachable) =
             IF found = {} THEN [source |-> "none", journal |-> Empty] ELSE loaded[first]
      BY DEF LoadJournal, loaded
    <2>7. QED
      BY <2>2, <2>5, <2>6
  <1>2. QED
    BY <1>1, PublicationInvAlways, PTL

=============================================================================
