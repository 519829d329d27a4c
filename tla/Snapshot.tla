------------------------------ MODULE Snapshot ------------------------------
(***************************************************************************)
(* The portfolio snapshot, read by read: Orchestrator.build_portfolio and  *)
(* the dashboard's get_live_state fetch the account, the positions, their  *)
(* Greeks and the spot prices one call after the other, MCPClient and the  *)
(* adapters turn each answer into what build_portfolio_state takes, and    *)
(* that ends in the baseline, whose steps are module Baseline's.           *)
(***************************************************************************)
EXTENDS Baseline

CONSTANTS
    Agents,      \* of Callers; the others are the dashboard's live panels
    Contracts,   \* option contracts the account may hold
    Shares,      \* rows of the account that are no options
    Root,        \* of each contract: its symbol without the last 15 characters
    Prefix,      \* of each contract: the first three characters of its symbol
    Underlyings, \* configured: the dashboard asks for their spot prices
    MaxTrades    \* bound: how often the book or the account moves

ASSUME SnapshotAssumption ==
    /\ Agents \subseteq Callers
    /\ Shares \cap Contracts = {}
    /\ MaxTrades \in Nat

VARIABLES
    book,   \* the contracts the account holds
    reads,  \* of each caller: what its current snapshot has read
    result, \* of each caller: how its last snapshot failed, or "none"
    trades, \* bound: the moves so far
    flaky   \* bound: the one caller whose answers may be other than complete

snapshotVars == <<vars, book, reads, result, trades, flaky>>

-----------------------------------------------------------------------------
\* What a call may come to: the payload of an answer, an MCPError, or another
\* exception.  Null is no text, or a JSON value that is false to Python; Scalar a text
\* that is no JSON, or a JSON string, number or true.

Null == [kind |-> "null"]
Scalar == [kind |-> "scalar"]
Failed == [kind |-> "failed"]
Raised == [kind |-> "raised"]
List(rows) == [kind |-> "list", rows |-> rows]
Object(fields) == [kind |-> "object", fields |-> fields]

\* The field is _alpaca_mcp_security.
SecurityKey == "security"

Sealed(payload) == Object([security |-> Null, data |-> payload])

Unsealed(payload) ==
    IF payload.kind = "object"
    THEN Object([key \in DOMAIN payload.fields \ {SecurityKey} |-> payload.fields[key]])
    ELSE payload

Inside(payload, key) ==
    IF payload.kind = "object" /\ DOMAIN payload.fields = {key}
    THEN payload.fields[key] ELSE payload

\* Mutant: a collection keeps the object around it, which made every book look
\* flat once (mcp_client.py:330).
UnwrapData(payload) == Inside(Unsealed(payload), "data")

\* The envelope goes, and so does the object around a collection.
Unwrap(payload) == Inside(Inside(Unsealed(payload), "data"), "result")

\* An answer that is empty or no JSON is handed on.  A tool error and a timeout
\* become MCPErrors; whatever else session.call_tool raises, for a protocol error or
\* a closed transport, passes through _call as it is.
Outcomes(c, usual, others) ==
    {usual} \cup IF c = flaky THEN others \cup {Null, Scalar, Failed, Raised} ELSE {}

AccountInfo == Sealed(Object([buying_power |-> buyingPower]))

\* Without a buying power, and no object at all.
OtherAccounts == {Sealed(Object([status |-> Null])), List(Shares)}

Rows == List(book \cup Shares)

Positions == Sealed(Object([result |-> Rows]))

Unfamiliar == Sealed(Object([rows |-> Rows]))

\* As unwrap and adapt_positions also take them, and as they do not.
OtherPositions ==
    {Sealed(Rows), Rows, Object([positions |-> Rows]), Unfamiliar,
     Object([positions |-> Scalar])}

\* Of a read per item, the items that arrive.
Arriving(c, items) == IF c = flaky THEN SUBSET items ELSE {items}

-----------------------------------------------------------------------------
\* Adapters.

\* A field that is not there is None, and None is replaced.
Get(payload, key, default) ==
    IF payload.kind = "object" /\ key \in DOMAIN payload.fields
    THEN payload.fields[key] ELSE default

AdaptAccount(payload) == Get(payload, "buying_power", 0)

\* adapt_account copies a dict: MCPBrokerView replaces what is false by an empty
\* one, and of anything else that is no object the copy raises.
AdaptableAccount(payload) == payload.kind = "object" \/ payload \in {Null, List({})}

\* Where the rows are: in the answer, or under its "positions".
RowsOf(payload) ==
    IF payload.kind = "object" THEN Get(payload, "positions", Null) ELSE payload

AdaptPositions(payload) ==
    IF RowsOf(payload).kind = "list" THEN RowsOf(payload).rows ELSE {}

\* Mutant: without its `or`s, an empty answer is as bad as a text.
AdaptableOnly(payload) == RowsOf(payload).kind = "list"

\* Nothing else has fields to get or rows to go through.
Adaptable(payload) == RowsOf(payload).kind \in {"list", "null"}

OptionPositions(rows) == rows \cap Contracts

Held(c) == OptionPositions(reads[c].rows)

\* The agent takes three characters for the underlying.
Asked(c) == IF c \in Agents THEN {Prefix[x] : x \in Held(c)} ELSE Underlyings

\* Mutant: the Greeks are looked for under the underlying's name.
CountedByRoot(c) == {x \in Held(c) : Root[x] \in reads[c].greeks \cap reads[c].spots}

\* The rows that count in net_delta_dollars; the others add 0 to it.
Counted(c) == {x \in Held(c) : x \in reads[c].greeks /\ Root[x] \in reads[c].spots}

-----------------------------------------------------------------------------
\* Snapshots.

\* spoilt is the kind of the answer that MCPBrokerView will not take, or, after a
\* crash, the kind of what it came from.
Fresh == [ next |-> "positions", spoilt |-> "none", strange |-> FALSE,
           rows |-> {}, greeks |-> {}, spots |-> {}, always |-> {}, ever |-> {} ]

\* build_portfolio prices after it has the Greeks, get_live_state before.
AgentOrder == [positions |-> "greeks", greeks |-> "spots", spots |-> "built"]
PageOrder == [positions |-> "spots", spots |-> "greeks", greeks |-> "built"]

After(c, step) == IF c \in Agents THEN AgentOrder[step] ELSE PageOrder[step]

At(c, step) == stage[c] = "snapshot" /\ reads[c].next = step

Proceeds(c, step, read) ==
    /\ reads' = [reads EXCEPT ![c] = [read EXCEPT !.next = After(c, step)]]
    /\ UNCHANGED <<vars, book, result, trades, flaky>>

Ends(c, how, kind) ==
    /\ result' = [result EXCEPT ![c] = how]
    /\ reads' = [reads EXCEPT ![c] =
          [Fresh EXCEPT !.spoilt = IF how = "crashed" THEN kind ELSE "none"]]
    /\ UNCHANGED <<book, trades, flaky>>

\* An MCPError is journalled and the run skipped, anything else ends it; the
\* dashboard catches both and shows that it has no live data.
Failure(c, kind) == IF c \notin Agents THEN "unavailable"
                    ELSE IF kind = "failed" THEN "skipped" ELSE "crashed"

Abandons(c, kind) == Kill(c) /\ Ends(c, Failure(c, kind), kind)

\* An account that cannot be adapted is not noticed until everything is read.
GetAccountInfo(c) ==
    \E answer \in Outcomes(c, AccountInfo, OtherAccounts) :
       LET payload == Unwrap(answer) IN
       \/ /\ payload \in {Failed, Raised} /\ stage[c] = "idle"
          /\ Ends(c, Failure(c, payload.kind), payload.kind)
          /\ UNCHANGED vars
       \/ /\ payload \notin {Failed, Raised}
          /\ ReadAccount(c, AdaptAccount(payload))
          /\ result' = [result EXCEPT ![c] = "none"]
          /\ reads' = [reads EXCEPT ![c] =
                [Fresh EXCEPT !.spoilt = IF AdaptableAccount(payload) THEN "none" ELSE payload.kind,
                              !.always = book, !.ever = book]]
          /\ UNCHANGED <<book, trades, flaky>>

GetAllPositions(c) ==
    /\ At(c, "positions")
    /\ \E answer \in Outcomes(c, Positions, OtherPositions) :
          LET payload == Unwrap(answer) IN
          IF Adaptable(payload)
          THEN Proceeds(c, "positions",
                  [reads[c] EXCEPT !.rows = AdaptPositions(payload),
                                   !.strange = answer \in {Null, Unfamiliar}])
          ELSE Abandons(c, RowsOf(payload).kind)

\* A failed read leaves no Greeks, and an answer may lack some.  The dashboard takes
\* any exception here, and any trouble with a price, for an answer that did not come.
GetOptionSnapshot(c) ==
    /\ At(c, "greeks")
    /\ \E greeks \in Arriving(c, Held(c)) :
          Proceeds(c, "greeks", [reads[c] EXCEPT !.greeks = greeks])

\* One read per symbol, each of which may fail for itself.
GetStockLatestTrade(c) ==
    /\ At(c, "spots")
    /\ \E spots \in Arriving(c, Asked(c)) :
          Proceeds(c, "spots", [reads[c] EXCEPT !.spots = spots])

\* Greeks in another form are handed to MCPBrokerView; another exception than an
\* MCPError, and a price in another form, end the agent's snapshot at once.
ReadsOther(c) ==
    /\ c = flaky
    /\ \/ /\ At(c, "greeks") /\ Held(c) # {}
          /\ \/ Proceeds(c, "greeks",
                   [reads[c] EXCEPT !.spoilt = IF @ = "none" THEN "scalar" ELSE @])
             \/ c \in Agents /\ Abandons(c, "raised")
       \/ /\ At(c, "spots") /\ c \in Agents /\ Asked(c) # {}
          /\ \E kind \in {"raised", "scalar"} : Abandons(c, kind)

\* MCPBrokerView adapts the account and the Greeks; the rows and their delta-dollars
\* are settled before the baseline is looked up.
BuildPortfolioState(c) ==
    /\ At(c, "built")
    /\ \/ reads[c].spoilt # "none" /\ Abandons(c, reads[c].spoilt)
       \/ reads[c].spoilt = "none" /\ Look(c) /\ Ends(c, "none", "none")

Persist(c) ==
    /\ Truncate(c) \/ Write(c)
    /\ UNCHANGED <<book, reads, result, trades, flaky>>

Killed(c) == Kill(c) /\ Ends(c, "none", "none")

\* An order fills or the market moves: the book changes, the buying power, or both.
Trade(level) ==
    /\ trades < MaxTrades /\ trades' = trades + 1
    /\ Account(level)
    /\ \/ UNCHANGED book
       \/ \E x \in Contracts : book' \in {book \cup {x}, book \ {x}}
    /\ reads' = [c \in Callers |-> IF stage[c] = "idle" THEN reads[c] ELSE
          [reads[c] EXCEPT !.always = @ \cap book', !.ever = @ \cup book']]
    /\ UNCHANGED <<result, flaky>>

SnapshotInit ==
    /\ Init
    /\ book \in SUBSET Contracts /\ trades = 0 /\ flaky \in Callers
    /\ reads = [c \in Callers |-> Fresh]
    /\ result = [c \in Callers |-> "none"]

SnapshotNext ==
    \/ \E c \in Callers :
          \/ GetAccountInfo(c) \/ GetAllPositions(c) \/ GetOptionSnapshot(c)
          \/ GetStockLatestTrade(c) \/ ReadsOther(c)
          \/ BuildPortfolioState(c) \/ Persist(c) \/ Killed(c)
    \/ \E level \in Levels : Trade(level)

SnapshotSpec == SnapshotInit /\ [][SnapshotNext]_snapshotVars

-----------------------------------------------------------------------------

\* Everything is read, and build_portfolio_state can take it.
Ready(c) == At(c, "built") /\ reads[c].spoilt = "none"

\* The price that was asked for is of the row's underlying.
PricedRight(c, x) == IF c \in Agents THEN Prefix[x] = Root[x] ELSE Root[x] \in Underlyings

\* The gate, the exits and the panels judge the book that is held: the rows are
\* all the options held since the account was read, and none that was not held at
\* some moment of the snapshot, whatever shape the server gives its answer, and
\* what was held all along counts in Rule 3's delta-dollars unless its Greeks or
\* its price did not arrive.  Only an answer that is empty, or an object that
\* nobody knows, passes for a flat book (adapt_positions); and the agent does not
\* ask the right price for a root that has not three letters (orchestrator.py:237).
BookIsSeen == \A c \in Callers : Ready(c) =>
    \/ reads[c].strange
    \/ /\ reads[c].always \subseteq Held(c) /\ Held(c) \subseteq reads[c].ever
       /\ \A x \in reads[c].always :
             \/ x \in Counted(c)
             \/ x \notin reads[c].greeks
             \/ Root[x] \in Asked(c) \ reads[c].spots
             \/ ~ PricedRight(c, x)

\* "An unattended run needs a journalled reason in the log, not a stack dump"
\* (orchestrator.py:128): an MCPError, which is a refused credential, an error of
\* Alpaca's or a timeout, and an answer that is empty or lacks what is asked for,
\* leave a skipped run or a poorer portfolio, at every one of the reads.  What the
\* code does let through, against that comment, is another exception of the session
\* (mcp_client.py:247 converts the timeout only) and an answer of another kind than
\* the read expects: such a run ends with nothing journalled.
FailuresAreReported ==
    \A c \in Callers : result[c] = "crashed" => reads[c].spoilt \in {"raised", "scalar", "list"}
=============================================================================
