--------------------------- MODULE SnapshotProofs ---------------------------
(***************************************************************************)
(* The baseline is fixed, for every set of callers and of levels, until    *)
(* callers overlap before there is one or the file system fails; and a     *)
(* settled baseline is final, overlap or not.                              *)
(*                                                                         *)
(* Every step of a snapshot is a step of the baseline or leaves it alone,  *)
(* so all this holds of every snapshot too, whatever the answers, for all  *)
(* callers, contracts and levels.  What the snapshot then shows is the     *)
(* book that was held, and how one failed is reported.                     *)
(***************************************************************************)
EXTENDS Snapshot, TLAPS

Stages == {"idle", "snapshot", "anchoring", "writing"}

TypeInv ==
    /\ stage \in [Callers -> Stages]
    /\ current \in [Callers -> Levels]
    /\ buyingPower \in Levels
    /\ used \subseteq Levels
    /\ mishaps \subseteq {"overlap", "error"}

\* Until something goes wrong, whoever is about to write found no baseline, and
\* nobody else is about to.
Orderly ==
    /\ \A c, d \in Callers :
          ~ Persisted /\ stage[c] # "idle" /\ stage[d] # "idle" => c = d
    /\ \A c \in Callers : stage[c] \in {"anchoring", "writing"} => ~ Persisted
    /\ used \subseteq {file}

IInv == TypeInv /\ (mishaps = {} => Orderly)

LEMMA NoLevel == Absent \notin Levels /\ Torn \notin Levels
  BY BaselineAssumption DEF Absent, Torn

LEMMA InitIInv == Init => IInv
  BY NoLevel DEF Init, IInv, TypeInv, Orderly, Stages, Persisted

LEMMA StepTypeInv == ASSUME TypeInv, [Next]_vars PROVE TypeInv'
<1> USE DEF TypeInv, Stages
<1>1. ASSUME NEW c \in Callers, NEW answer \in {buyingPower, 0}, ReadAccount(c, answer)
      PROVE  TypeInv'
  BY <1>1, BaselineAssumption DEF ReadAccount, Goes
<1>2. ASSUME NEW c \in Callers, Look(c) PROVE TypeInv'
  BY <1>2 DEF Look, Goes, Returns, Fails, Persisted
<1>3. ASSUME NEW c \in Callers, Truncate(c) PROVE TypeInv'
  BY <1>3 DEF Truncate, Goes, Returns, Fails
<1>4. ASSUME NEW c \in Callers, Write(c) PROVE TypeInv'
  BY <1>4 DEF Write, Returns, Fails
<1>5. ASSUME NEW c \in Callers, Kill(c) PROVE TypeInv'
  BY <1>5 DEF Kill, Goes
<1>6. ASSUME NEW level \in Levels, Account(level) PROVE TypeInv'
  BY <1>6 DEF Account
<1>7. CASE UNCHANGED vars
  BY <1>7 DEF vars
<1> QED
  BY <1>1, <1>2, <1>3, <1>4, <1>5, <1>6, <1>7 DEF Next

\* A mishap is never forgotten, so an orderly next state had an orderly one
\* before it; every action then keeps the order.
LEMMA StepIInv == ASSUME IInv, [Next]_vars PROVE IInv'
<1>1. TypeInv'
  BY StepTypeInv DEF IInv
<1> SUFFICES ASSUME mishaps' = {} PROVE Orderly'
  BY <1>1 DEF IInv
<1>2. mishaps = {}
  BY DEF Next, ReadAccount, Look, Truncate, Write, Kill, Account, Fails, vars
<1>3. TypeInv /\ Orderly
  BY <1>2 DEF IInv
<1> USE <1>3 DEF TypeInv, Orderly, Stages
<1>4. ASSUME NEW c \in Callers, NEW answer \in {buyingPower, 0}, ReadAccount(c, answer)
      PROVE  Orderly'
  BY <1>4 DEF ReadAccount, Goes, Persisted
<1>5. ASSUME NEW c \in Callers, Look(c) PROVE Orderly'
  BY <1>5 DEF Look, Goes, Returns, Fails, Persisted
<1>6. ASSUME NEW c \in Callers, Truncate(c) PROVE Orderly'
  BY <1>6, NoLevel DEF Truncate, Goes, Returns, Fails, Persisted
<1>7. ASSUME NEW c \in Callers, Write(c) PROVE Orderly'
  BY <1>7, NoLevel DEF Write, Returns, Fails, Persisted
<1>8. ASSUME NEW c \in Callers, Kill(c) PROVE Orderly'
  BY <1>8 DEF Kill, Goes, Persisted
<1>9. ASSUME NEW level \in Levels, Account(level) PROVE Orderly'
  BY <1>9 DEF Account, Persisted
<1>10. CASE UNCHANGED vars
  BY <1>10 DEF vars, Persisted
<1> QED
  BY <1>4, <1>5, <1>6, <1>7, <1>8, <1>9, <1>10 DEF Next

\* The reserve of Rule 9 is measured against one number for as long as
\* the callers that find none take turns and the file system works
\* (position_manager._starting_buying_power).
THEOREM BaselineStaysFixed == Spec => []BaselineIsFixed
<1>1. IInv => BaselineIsFixed
  BY DEF IInv, Orderly, BaselineIsFixed
<1> QED
  BY InitIInv, StepIInv, <1>1, PTL DEF Spec

\* And so is the number that the reserve is a share of, unless it is 0
\* (risk_gate.py:306).
THEOREM FloorStaysAnchored == Spec => []FloorIsAnchored
<1>1. IInv => FloorIsAnchored
  BY DEF IInv, Orderly, FloorIsAnchored, ReserveBase
<1> QED
  BY InitIInv, StepIInv, <1>1, PTL DEF Spec

\* Once a baseline is on disk and nobody is writing, no caller writes it again,
\* overlap or not (position_manager.py:158-164).
THEOREM SettledBaselineIsFinal == Spec => RaceEndsAtFirstBaseline
<1>1. ASSUME TypeInv, [Next]_vars
      PROVE  [Settled /\ "error" \notin mishaps' => Settled' /\ file' = file]_vars
  <2> SUFFICES ASSUME Next, Settled, "error" \notin mishaps'
               PROVE  Settled' /\ file' = file
    BY <1>1
  <2> USE <1>1 DEF TypeInv, Stages, Settled, Persisted
  <2>1. ASSUME NEW c \in Callers, NEW answer \in {buyingPower, 0}, ReadAccount(c, answer)
      PROVE  Settled' /\ file' = file
    BY <2>1 DEF ReadAccount, Goes
  <2>2. ASSUME NEW c \in Callers, Look(c) PROVE Settled' /\ file' = file
    BY <2>2 DEF Look, Goes, Returns, Fails
  <2>3. ASSUME NEW c \in Callers, Truncate(c) \/ Write(c) PROVE FALSE
    BY <2>3 DEF Truncate, Write
  <2>4. ASSUME NEW c \in Callers, Kill(c) PROVE Settled' /\ file' = file
    BY <2>4 DEF Kill, Goes
  <2>5. ASSUME NEW level \in Levels, Account(level) PROVE Settled' /\ file' = file
    BY <2>5 DEF Account
  <2> QED
    BY <2>1, <2>2, <2>3, <2>4, <2>5 DEF Next
<1>2. Init => TypeInv
  BY InitIInv DEF IInv
<1> QED
  BY <1>1, <1>2, StepTypeInv, PTL DEF Spec, RaceEndsAtFirstBaseline
-----------------------------------------------------------------------------
(***************************************************************************)
(* A snapshot.                                                             *)
(***************************************************************************)

\* The envelope is taken off whatever it holds.
LEMMA EnvelopeGoes ==
    ASSUME NEW payload
    PROVE  Unwrap(Sealed(payload)) = Inside(payload, "result")
<1> DEFINE sealed == Sealed(payload)
           opened == [key \in {"data"} |-> payload]
<1>1. Unsealed(sealed) = Object(opened)
  <2>1. sealed.kind = "object" /\ sealed.fields = [security |-> Null, data |-> payload]
    BY DEF Sealed, Object
  <2>2. DOMAIN sealed.fields \ {SecurityKey} = {"data"}
    BY <2>1 DEF SecurityKey
  <2>3. [key \in DOMAIN sealed.fields \ {SecurityKey} |-> sealed.fields[key]] = opened
    BY <2>1, <2>2
  <2> QED
    BY <2>1, <2>3 DEF Unsealed
<1>2. Inside(Object(opened), "data") = payload
  BY DEF Inside, Object
<1> QED
  BY <1>1, <1>2 DEF Unwrap

\* From around an account nothing else is taken off.
LEMMA UnwrapsAccount ==
    ASSUME NEW fields, DOMAIN fields # {"result"}
    PROVE  Unwrap(Sealed(Object(fields))) = Object(fields)
<1>1. Inside(Object(fields), "result") = Object(fields)
  BY DEF Inside, Object
<1> QED
  BY <1>1, EnvelopeGoes

\* What is no object passes through unwrap as it is.
LEMMA OtherKindsStay ==
    ASSUME NEW payload, payload.kind # "object"
    PROVE  Unwrap(payload) = payload
  BY DEF Unwrap, Unsealed, Inside

OddKinds == {"raised", "scalar", "list"}

\* The buying power that a snapshot goes on with is the account's, or 0; what cannot
\* be adapted is of another kind.
LEMMA ReadsBuyingPower ==
    ASSUME NEW c \in Callers,
           NEW answer \in Outcomes(c, AccountInfo, OtherAccounts)
    PROVE  /\ AdaptAccount(Unwrap(answer)) \in {buyingPower, 0}
           /\ Unwrap(answer).kind \in {"object", "null", "failed"} \cup OddKinds
           /\ Unwrap(answer).kind = "null" => Unwrap(answer) = Null
           /\ Unwrap(answer).kind = "failed" => Unwrap(answer) = Failed
<1>1. \/ answer \in {AccountInfo, Sealed(Object([status |-> Null]))}
      \/ answer \in {List(Shares), Null, Scalar, Failed, Raised}
  BY DEF Outcomes, OtherAccounts
<1>2. CASE answer \in {List(Shares), Null, Scalar, Failed, Raised}
  <2>1. /\ answer.kind \in {"null", "failed"} \cup OddKinds
        /\ answer.kind = "null" => answer = Null
        /\ answer.kind = "failed" => answer = Failed
    BY <1>2 DEF List, Null, Scalar, Failed, Raised, OddKinds
  <2>2. answer.kind # "object"
    BY <2>1 DEF OddKinds
  <2>3. Unwrap(answer) = answer
    BY <2>2, OtherKindsStay
  <2> QED
    BY <2>1, <2>2, <2>3 DEF AdaptAccount, Get
<1>3. CASE answer = AccountInfo
  <2> DEFINE fields == [buying_power |-> buyingPower]
  <2>1. DOMAIN fields # {"result"}
    OBVIOUS
  <2>2. Unwrap(answer) = Object(fields)
    BY <1>3, <2>1, UnwrapsAccount DEF AccountInfo
  <2> QED
    BY <2>2 DEF AdaptAccount, Get, Object
<1>4. CASE answer = Sealed(Object([status |-> Null]))
  <2> DEFINE fields == [status |-> Null]
  <2>1. DOMAIN fields # {"result"} /\ "buying_power" \notin DOMAIN fields
    OBVIOUS
  <2>2. Unwrap(answer) = Object(fields)
    BY <1>4, <2>1, UnwrapsAccount
  <2> QED
    BY <2>1, <2>2 DEF AdaptAccount, Get, Object
<1> QED
  BY <1>1, <1>2, <1>3, <1>4

LEMMA SnapshotStep == ASSUME [SnapshotNext]_snapshotVars PROVE [Next]_vars
<1>1. ASSUME NEW c \in Callers, GetAccountInfo(c) PROVE [Next]_vars
  <2>1. PICK answer \in Outcomes(c, AccountInfo, OtherAccounts) :
           \/ UNCHANGED vars
           \/ ReadAccount(c, AdaptAccount(Unwrap(answer)))
    BY <1>1 DEF GetAccountInfo
  <2> QED
    BY <2>1, ReadsBuyingPower DEF Next
<1>2. ASSUME NEW c \in Callers, GetAllPositions(c) PROVE [Next]_vars
  BY <1>2 DEF GetAllPositions, Proceeds, Abandons, Next
<1>3. ASSUME NEW c \in Callers, GetOptionSnapshot(c) \/ GetStockLatestTrade(c)
      PROVE  [Next]_vars
  BY <1>3 DEF GetOptionSnapshot, GetStockLatestTrade, Proceeds
<1>4. ASSUME NEW c \in Callers, ReadsOther(c) \/ Killed(c) PROVE [Next]_vars
  BY <1>4 DEF ReadsOther, Killed, Proceeds, Abandons, Next
<1>5. ASSUME NEW c \in Callers, BuildPortfolioState(c) \/ Persist(c) PROVE [Next]_vars
  BY <1>5 DEF BuildPortfolioState, Persist, Abandons, Next
<1>6. ASSUME NEW level \in Levels, Trade(level) PROVE [Next]_vars
  BY <1>6 DEF Trade, Next
<1>7. CASE UNCHANGED snapshotVars
  BY <1>7 DEF snapshotVars
<1> QED
  BY <1>1, <1>2, <1>3, <1>4, <1>5, <1>6, <1>7 DEF SnapshotNext

\* The detailed snapshot implements the baseline's specification.
THEOREM SnapshotImplementsBaseline == SnapshotSpec => Spec
<1>1. SnapshotInit => Init
  BY DEF SnapshotInit
<1> QED
  BY <1>1, SnapshotStep, PTL DEF SnapshotSpec, Spec

\* Whatever the server answers, Rule 9's reserve is anchored as promised.
THEOREM SnapshotKeepsBaseline ==
    SnapshotSpec => []BaselineIsFixed /\ []FloorIsAnchored /\ RaceEndsAtFirstBaseline
  BY SnapshotImplementsBaseline, BaselineStaysFixed, FloorStaysAnchored,
     SettledBaselineIsFinal, PTL
-----------------------------------------------------------------------------
(***************************************************************************)
(* The book that is seen.                                                  *)
(***************************************************************************)

\* Rows in an object of the broker's own naming, whatever they are.
LEMMA NamedRows ==
    ASSUME NEW rows
    PROVE  RowsOf(Unwrap(Object([positions |-> rows]))) = rows
<1> DEFINE named == Object([positions |-> rows])
<1>1. named.kind = "object" /\ DOMAIN named.fields = {"positions"}
      /\ named.fields["positions"] = rows
  BY DEF Object
<1>2. Unsealed(named) = named
  <2>1. DOMAIN named.fields \ {SecurityKey} = DOMAIN named.fields
    BY <1>1 DEF SecurityKey
  <2>2. [key \in DOMAIN named.fields |-> named.fields[key]] = named.fields
    BY <1>1 DEF Object
  <2> QED
    BY <1>1, <2>1, <2>2 DEF Unsealed, Object
<1>3. Unwrap(named) = named
  BY <1>1, <1>2 DEF Unwrap, Inside
<1> QED
  BY <1>1, <1>3 DEF RowsOf, Get

\* Four shapes of the same rows: in an envelope with or without an object around
\* them, bare, and named.
LEMMA RowsArrive ==
    ASSUME NEW rows, NEW answer, answer \in
             {Sealed(Object([result |-> List(rows)])), Sealed(List(rows)), List(rows),
              Object([positions |-> List(rows)])}
    PROVE  /\ RowsOf(Unwrap(answer)).kind = "list"
           /\ AdaptPositions(Unwrap(answer)) = rows
<1> DEFINE list == List(rows)
<1>1. list.kind = "list" /\ list.rows = rows /\ list.kind # "object"
  BY DEF List
<1> HIDE DEF list
<1>2. RowsOf(list) = list
  BY <1>1 DEF RowsOf
<1>3. Inside(list, "result") = list
  BY <1>1 DEF Inside
<1>4. RowsOf(Unwrap(answer)) = list
  <2>1. CASE answer = Sealed(Object([result |-> list]))
    <3>1. Inside(Object([result |-> list]), "result") = list
      BY DEF Inside, Object
    <3> QED
      BY <1>2, <2>1, <3>1, EnvelopeGoes
  <2>2. CASE answer = Sealed(list)
    BY <1>2, <1>3, <2>2, EnvelopeGoes
  <2>3. CASE answer = list
    BY <1>1, <1>2, <2>3, OtherKindsStay
  <2>4. CASE answer = Object([positions |-> list])
    BY <2>4, NamedRows
  <2> QED
    BY <2>1, <2>2, <2>3, <2>4 DEF list
<1> QED
  BY <1>1, <1>4 DEF AdaptPositions

\* What is empty or of an unknown shape passes for a flat book.
LEMMA StrangeIsEmpty ==
    ASSUME NEW answer, answer \in {Null, Unfamiliar}
    PROVE  RowsOf(Unwrap(answer)) = Null /\ AdaptPositions(Unwrap(answer)) = {}
<1>1. Null.kind = "null"
  BY DEF Null
<1>2. RowsOf(Unwrap(answer)) = Null
  <2>1. CASE answer = Null
    BY <1>1, <2>1, OtherKindsStay DEF RowsOf
  <2>2. CASE answer = Unfamiliar
    <3> DEFINE odd == Object([rows |-> Rows])
    <3>1. odd.kind = "object" /\ DOMAIN odd.fields = {"rows"}
      BY DEF Object
    <3>2. Unwrap(answer) = odd
      BY <2>2, <3>1, EnvelopeGoes DEF Unfamiliar, Inside
    <3> QED
      BY <3>1, <3>2 DEF RowsOf, Get
  <2> QED
    BY <2>1, <2>2
<1> QED
  BY <1>1, <1>2 DEF AdaptPositions

\* An answer that is neither empty nor of an unknown shape shows the book, or cannot
\* be taken, being an error or of another kind.
LEMMA AnswersShowBook ==
    ASSUME NEW c \in Callers, NEW answer \in Outcomes(c, Positions, OtherPositions)
    PROVE  /\ Adaptable(Unwrap(answer)) /\ answer \notin {Null, Unfamiliar}
                => AdaptPositions(Unwrap(answer)) = book \cup Shares
           /\ ~ Adaptable(Unwrap(answer))
                => RowsOf(Unwrap(answer)).kind \in {"failed"} \cup OddKinds
<1>1. CASE answer \in {Positions, Sealed(Rows), Rows, Object([positions |-> Rows])}
  BY <1>1, RowsArrive DEF Positions, Rows, Adaptable
<1>2. CASE answer \in {Null, Unfamiliar}
  BY <1>2, StrangeIsEmpty DEF Adaptable, Null
<1>3. CASE answer = Object([positions |-> Scalar])
  BY <1>3, NamedRows DEF Adaptable, Scalar, OddKinds
<1>4. CASE answer \in {Scalar, Failed, Raised}
  <2>1. answer.kind \in {"scalar", "failed", "raised"}
    BY <1>4 DEF Scalar, Failed, Raised
  <2>2. Unwrap(answer) = answer /\ RowsOf(answer) = answer
    BY <2>1, OtherKindsStay DEF RowsOf
  <2> QED
    BY <2>1, <2>2 DEF Adaptable, OddKinds
<1> QED
  BY <1>1, <1>2, <1>3, <1>4 DEF Outcomes, OtherPositions

Steps == {"positions", "greeks", "spots", "built"}

Symbols == Underlyings \cup {Prefix[x] : x \in Contracts}

ReadType ==
    [ next : Steps, spoilt : {"none"} \cup OddKinds, strange : BOOLEAN,
      rows : SUBSET (Contracts \cup Shares), greeks : SUBSET Contracts,
      spots : SUBSET Symbols, always : SUBSET Contracts, ever : SUBSET Contracts ]

SnapshotType ==
    /\ TypeInv
    /\ book \in SUBSET Contracts
    /\ reads \in [Callers -> ReadType]
    /\ DOMAIN result = Callers

\* The book is between what was held all along and what was held at some moment,
\* and so are the rows that have been read.
BookFollowed ==
    \A c \in Callers : stage[c] = "snapshot" =>
       /\ reads[c].always \subseteq book /\ book \subseteq reads[c].ever
       /\ \/ reads[c].next = "positions" \/ reads[c].strange
          \/ reads[c].always \subseteq Held(c) /\ Held(c) \subseteq reads[c].ever

\* A snapshot that is under way has not failed, and one that crashed was spoilt.
FailuresKnown ==
    \A c \in Callers :
       /\ stage[c] = "snapshot" => result[c] = "none"
       /\ result[c] = "crashed" => reads[c].spoilt \in OddKinds

SnapshotInv == SnapshotType /\ BookFollowed /\ FailuresKnown

\* A read that arrives, of whatever it is, keeps what was seen before.
LEMMA ProceedsKeeps ==
    ASSUME SnapshotInv, NEW c \in Callers, NEW step \in Steps \ {"built"}, At(c, step),
           NEW read \in ReadType, Proceeds(c, step, read),
           read.always = reads[c].always, read.ever = reads[c].ever,
           \/ read.strange
           \/ /\ read.always \subseteq OptionPositions(read.rows)
              /\ OptionPositions(read.rows) \subseteq read.ever
    PROVE  SnapshotInv'
<1>1. /\ SnapshotType /\ BookFollowed /\ FailuresKnown
      /\ stage[c] = "snapshot" /\ stage' = stage /\ book' = book /\ result' = result
  BY DEF SnapshotInv, At, Proceeds, vars
<1>2. PICK next \in Steps \ {"positions"} : next = After(c, step)
  BY DEF After, AgentOrder, PageOrder, Steps
<1> DEFINE new == [read EXCEPT !.next = next]
<1>3. /\ new \in ReadType /\ new.always = read.always /\ new.ever = read.ever
      /\ new.strange = read.strange /\ new.rows = read.rows
      /\ new.next = next
  BY DEF ReadType
<1>4. reads' = [reads EXCEPT ![c] = new]
  BY <1>2 DEF Proceeds
<1> HIDE DEF new
<1>5. \A d \in Callers : reads'[d] = IF d = c THEN new ELSE reads[d]
  BY <1>1, <1>4 DEF SnapshotType
<1>6. SnapshotType'
  BY <1>1, <1>3, <1>4 DEF SnapshotType, TypeInv, Proceeds, vars
<1>7. BookFollowed'
  BY <1>1, <1>2, <1>3, <1>5 DEF BookFollowed, Held, OptionPositions
<1>8. FailuresKnown'
  BY <1>1, <1>3, <1>5 DEF FailuresKnown
<1> QED
  BY <1>6, <1>7, <1>8 DEF SnapshotInv

\* A snapshot that ends, in a portfolio or without one.
LEMMA EndsKeeps ==
    ASSUME SnapshotInv, TypeInv', NEW c \in Callers, NEW how, NEW kind,
           Ends(c, how, kind), how = "crashed" => kind \in OddKinds,
           NEW where \in Stages \ {"snapshot"}, stage' = [stage EXCEPT ![c] = where]
    PROVE  SnapshotInv'
<1>1. SnapshotType /\ BookFollowed /\ FailuresKnown
  BY DEF SnapshotInv
<1> DEFINE new == [Fresh EXCEPT !.spoilt = IF how = "crashed" THEN kind ELSE "none"]
<1>2. new \in ReadType /\ (how = "crashed" => new.spoilt \in OddKinds)
  BY DEF Fresh, ReadType, Steps
<1>3. reads' = [reads EXCEPT ![c] = new]
  BY DEF Ends
<1> HIDE DEF new
<1>4. \A d \in Callers :
         /\ reads'[d] = IF d = c THEN new ELSE reads[d]
         /\ result'[d] = IF d = c THEN how ELSE result[d]
         /\ stage'[d] = IF d = c THEN where ELSE stage[d]
  BY <1>1, <1>3 DEF SnapshotType, TypeInv, Ends
<1>5. SnapshotType'
  BY <1>1, <1>2, <1>3 DEF SnapshotType, Ends
<1>6. BookFollowed'
  BY <1>1, <1>4 DEF BookFollowed, Held, Ends
<1>7. FailuresKnown'
  BY <1>1, <1>2, <1>4 DEF FailuresKnown
<1> QED
  BY <1>5, <1>6, <1>7 DEF SnapshotInv

\* An MCPError does not end a run in an exception.
LEMMA AbandonsKeeps ==
    ASSUME SnapshotInv, TypeInv', NEW c \in Callers, NEW kind \in {"failed"} \cup OddKinds,
           Abandons(c, kind)
    PROVE  SnapshotInv'
<1>1. Failure(c, kind) = "crashed" => kind \in OddKinds
  BY DEF Failure
<1>2. "idle" \in Stages \ {"snapshot"} /\ stage' = [stage EXCEPT ![c] = "idle"]
  BY DEF Abandons, Kill, Goes, Stages
<1> QED
  BY <1>1, <1>2, EndsKeeps DEF Abandons

LEMMA AccountReadKeeps ==
    ASSUME SnapshotInv, TypeInv', NEW c \in Callers, GetAccountInfo(c)
    PROVE  SnapshotInv'
<1>1. SnapshotType /\ BookFollowed /\ FailuresKnown
  BY DEF SnapshotInv
<1>2. CASE \E kind \in {"failed"} \cup OddKinds :
              stage[c] = "idle" /\ UNCHANGED vars /\ Ends(c, Failure(c, kind), kind)
  <2>1. PICK kind \in {"failed"} \cup OddKinds :
              stage[c] = "idle" /\ UNCHANGED vars /\ Ends(c, Failure(c, kind), kind)
    BY <1>2
  <2>2. Failure(c, kind) = "crashed" => kind \in OddKinds
    BY DEF Failure
  <2>3. "idle" \in Stages \ {"snapshot"} /\ stage' = [stage EXCEPT ![c] = "idle"]
    BY <1>1, <2>1 DEF Stages, vars, SnapshotType, TypeInv
  <2> QED
    BY <2>1, <2>2, <2>3, EndsKeeps
<1>3. CASE \E level : \E spoilt \in {"none"} \cup OddKinds :
           /\ ReadAccount(c, level)
           /\ result' = [result EXCEPT ![c] = "none"]
           /\ reads' = [reads EXCEPT ![c] =
                 [Fresh EXCEPT !.spoilt = spoilt, !.always = book, !.ever = book]]
           /\ UNCHANGED <<book, trades, flaky>>
  <2> PICK level : \E spoilt \in {"none"} \cup OddKinds :
           /\ ReadAccount(c, level)
           /\ result' = [result EXCEPT ![c] = "none"]
           /\ reads' = [reads EXCEPT ![c] =
                 [Fresh EXCEPT !.spoilt = spoilt, !.always = book, !.ever = book]]
           /\ UNCHANGED <<book, trades, flaky>>
    BY <1>3
  <2>1. PICK spoilt \in {"none"} \cup OddKinds :
           /\ ReadAccount(c, level)
           /\ result' = [result EXCEPT ![c] = "none"]
           /\ reads' = [reads EXCEPT ![c] =
                 [Fresh EXCEPT !.spoilt = spoilt, !.always = book, !.ever = book]]
           /\ UNCHANGED <<book, trades, flaky>>
    OBVIOUS
  <2> DEFINE new == [Fresh EXCEPT !.spoilt = spoilt, !.always = book, !.ever = book]
  <2>2. new \in ReadType /\ new.always = book /\ new.ever = book /\ new.next = "positions"
    BY <1>1 DEF Fresh, ReadType, Steps, SnapshotType
  <2>3. reads' = [reads EXCEPT ![c] = new] /\ stage' = [stage EXCEPT ![c] = "snapshot"]
    BY <2>1 DEF ReadAccount, Goes
  <2> HIDE DEF new
  <2>4. \A d \in Callers :
           /\ reads'[d] = IF d = c THEN new ELSE reads[d]
           /\ result'[d] = IF d = c THEN "none" ELSE result[d]
           /\ stage'[d] = IF d = c THEN "snapshot" ELSE stage[d]
    BY <1>1, <2>1, <2>3 DEF SnapshotType, TypeInv
  <2>5. SnapshotType'
    BY <1>1, <2>1, <2>2, <2>3 DEF SnapshotType
  <2>6. BookFollowed'
    BY <1>1, <2>1, <2>2, <2>4 DEF BookFollowed, Held
  <2>7. FailuresKnown'
    BY <1>1, <2>4 DEF FailuresKnown
  <2> QED
    BY <2>5, <2>6, <2>7 DEF SnapshotInv
<1>4. PICK answer \in Outcomes(c, AccountInfo, OtherAccounts) :
         LET payload == Unwrap(answer) IN
         \/ /\ payload \in {Failed, Raised} /\ stage[c] = "idle"
            /\ Ends(c, Failure(c, payload.kind), payload.kind)
            /\ UNCHANGED vars
         \/ /\ payload \notin {Failed, Raised}
            /\ ReadAccount(c, AdaptAccount(payload))
            /\ result' = [result EXCEPT ![c] = "none"]
            /\ reads' = [reads EXCEPT ![c] =
                  [Fresh EXCEPT !.spoilt = IF AdaptableAccount(payload) THEN "none" ELSE payload.kind,
                                !.always = book, !.ever = book]]
            /\ UNCHANGED <<book, trades, flaky>>
  BY DEF GetAccountInfo
<1>5. CASE Unwrap(answer) \in {Failed, Raised}
  <2>1. Unwrap(answer).kind \in {"failed"} \cup OddKinds
    BY <1>5 DEF Failed, Raised, OddKinds
  <2> QED
    BY <1>2, <1>4, <1>5, <2>1
<1>6. CASE Unwrap(answer) \notin {Failed, Raised}
  <2> DEFINE spoilt == IF AdaptableAccount(Unwrap(answer)) THEN "none" ELSE Unwrap(answer).kind
  <2>1. ~ AdaptableAccount(Unwrap(answer)) => Unwrap(answer).kind \in OddKinds
    BY <1>6, ReadsBuyingPower DEF AdaptableAccount
  <2>2. spoilt \in {"none"} \cup OddKinds
    BY <2>1
  <2>3. /\ ReadAccount(c, AdaptAccount(Unwrap(answer)))
        /\ result' = [result EXCEPT ![c] = "none"]
        /\ reads' = [reads EXCEPT ![c] =
              [Fresh EXCEPT !.spoilt = spoilt, !.always = book, !.ever = book]]
        /\ UNCHANGED <<book, trades, flaky>>
    BY <1>4, <1>6
  <2> HIDE DEF spoilt
  <2> QED
    BY <1>3, <2>2, <2>3
<1> QED
  BY <1>5, <1>6

LEMMA PositionsReadKeeps ==
    ASSUME SnapshotInv, TypeInv', NEW c \in Callers, GetAllPositions(c)
    PROVE  SnapshotInv'
<1>1. PICK answer \in Outcomes(c, Positions, OtherPositions) :
         IF Adaptable(Unwrap(answer))
         THEN Proceeds(c, "positions",
                 [reads[c] EXCEPT !.rows = AdaptPositions(Unwrap(answer)),
                                  !.strange = answer \in {Null, Unfamiliar}])
         ELSE Abandons(c, RowsOf(Unwrap(answer)).kind)
  BY DEF GetAllPositions
<1>2. CASE ~ Adaptable(Unwrap(answer))
  BY <1>1, <1>2, AnswersShowBook, AbandonsKeeps
<1>3. CASE Adaptable(Unwrap(answer))
  <2> DEFINE rows == AdaptPositions(Unwrap(answer))
             odd == answer \in {Null, Unfamiliar}
             read == [reads[c] EXCEPT !.rows = rows, !.strange = odd]
  <2>1. reads[c] \in ReadType /\ book \subseteq Contracts /\ stage[c] = "snapshot"
    BY DEF SnapshotInv, SnapshotType, GetAllPositions, At
  <2>2. ~ odd => rows = book \cup Shares
    BY <1>3, AnswersShowBook
  <2>3. rows \subseteq Contracts \cup Shares
    <3>1. CASE odd
      BY <3>1, StrangeIsEmpty
    <3> QED
      BY <2>1, <2>2, <3>1
  <2>4. ~ odd => OptionPositions(rows) = book
    BY <2>1, <2>2, SnapshotAssumption DEF OptionPositions
  <2>5. reads[c].always \subseteq book /\ book \subseteq reads[c].ever
    BY <2>1 DEF SnapshotInv, BookFollowed
  <2> HIDE DEF rows, odd
  <2>6. odd \in BOOLEAN
    BY DEF odd
  <2>7. /\ read \in ReadType /\ read.always = reads[c].always /\ read.ever = reads[c].ever
        /\ read.strange = odd /\ read.rows = rows
    BY <2>1, <2>3, <2>6 DEF ReadType
  <2>8. Proceeds(c, "positions", read)
    BY <1>1, <1>3 DEF rows, odd
  <2>9. \/ read.strange
        \/ /\ read.always \subseteq OptionPositions(read.rows)
           /\ OptionPositions(read.rows) \subseteq read.ever
    BY <2>4, <2>5, <2>7
  <2>10. "positions" \in Steps \ {"built"} /\ At(c, "positions")
    BY DEF Steps, GetAllPositions
  <2> HIDE DEF read
  <2> QED
    BY <2>7, <2>8, <2>9, <2>10, ProceedsKeeps
<1> QED
  BY <1>2, <1>3
\* What else arrives leaves the rows alone, in whatever form.
LEMMA LaterReadsKeep ==
    ASSUME SnapshotInv, TypeInv', NEW c \in Callers,
           GetOptionSnapshot(c) \/ GetStockLatestTrade(c) \/ ReadsOther(c)
    PROVE  SnapshotInv'
<1>1. reads[c] \in ReadType
  BY DEF SnapshotInv, SnapshotType
<1>2. stage[c] = "snapshot" /\ reads[c].next # "positions"
  BY DEF GetOptionSnapshot, GetStockLatestTrade, ReadsOther, At
<1>3. \/ reads[c].strange
      \/ reads[c].always \subseteq Held(c) /\ Held(c) \subseteq reads[c].ever
  BY <1>2 DEF SnapshotInv, BookFollowed
<1>4. CASE GetOptionSnapshot(c)
  <2>1. PICK greeks \in Arriving(c, Held(c)) :
           Proceeds(c, "greeks", [reads[c] EXCEPT !.greeks = greeks])
    BY <1>4 DEF GetOptionSnapshot
  <2>2. greeks \subseteq Contracts
    BY DEF Arriving, Held, OptionPositions
  <2> DEFINE read == [reads[c] EXCEPT !.greeks = greeks]
  <2>3. /\ read \in ReadType /\ read.always = reads[c].always /\ read.ever = reads[c].ever
        /\ read.strange = reads[c].strange /\ read.rows = reads[c].rows
    BY <1>1, <2>2 DEF ReadType
  <2>4. "greeks" \in Steps \ {"built"} /\ At(c, "greeks") /\ Proceeds(c, "greeks", read)
    BY <1>4, <2>1 DEF Steps, GetOptionSnapshot
  <2> HIDE DEF read
  <2> QED
    BY <1>3, <2>3, <2>4, ProceedsKeeps DEF Held
<1>5. CASE GetStockLatestTrade(c)
  <2>1. PICK spots \in Arriving(c, Asked(c)) :
           Proceeds(c, "spots", [reads[c] EXCEPT !.spots = spots])
    BY <1>5 DEF GetStockLatestTrade
  <2>2. spots \subseteq Symbols
    BY DEF Arriving, Asked, Symbols, Held, OptionPositions
  <2> DEFINE read == [reads[c] EXCEPT !.spots = spots]
  <2>3. /\ read \in ReadType /\ read.always = reads[c].always /\ read.ever = reads[c].ever
        /\ read.strange = reads[c].strange /\ read.rows = reads[c].rows
    BY <1>1, <2>2 DEF ReadType
  <2>4. "spots" \in Steps \ {"built"} /\ At(c, "spots") /\ Proceeds(c, "spots", read)
    BY <1>5, <2>1 DEF Steps, GetStockLatestTrade
  <2> HIDE DEF read
  <2> QED
    BY <1>3, <2>3, <2>4, ProceedsKeeps DEF Held
<1>6. CASE ReadsOther(c)
  <2>1. CASE \E kind \in {"raised", "scalar"} : Abandons(c, kind)
    BY <2>1, AbandonsKeeps DEF OddKinds
  <2>2. CASE At(c, "greeks") /\ Proceeds(c, "greeks",
               [reads[c] EXCEPT !.spoilt = IF @ = "none" THEN "scalar" ELSE @])
    <3> DEFINE read == [reads[c] EXCEPT !.spoilt = IF @ = "none" THEN "scalar" ELSE @]
    <3>1. /\ read \in ReadType /\ read.always = reads[c].always /\ read.ever = reads[c].ever
          /\ read.strange = reads[c].strange /\ read.rows = reads[c].rows
      BY <1>1 DEF ReadType, OddKinds
    <3>2. "greeks" \in Steps \ {"built"} /\ Proceeds(c, "greeks", read)
      BY <2>2 DEF Steps
    <3> HIDE DEF read
    <3> QED
      BY <1>3, <2>2, <3>1, <3>2, ProceedsKeeps DEF Held
  <2> QED
    BY <1>6, <2>1, <2>2 DEF ReadsOther
<1> QED
  BY <1>4, <1>5, <1>6

LEMMA BuildKeeps ==
    ASSUME SnapshotInv, TypeInv', NEW c \in Callers, BuildPortfolioState(c)
    PROVE  SnapshotInv'
<1>1. CASE reads[c].spoilt # "none" /\ Abandons(c, reads[c].spoilt)
  <2>1. reads[c].spoilt \in OddKinds
    BY <1>1 DEF SnapshotInv, SnapshotType, ReadType
  <2> QED
    BY <1>1, <2>1, AbandonsKeeps
<1>2. CASE Look(c) /\ Ends(c, "none", "none")
  <2>1. PICK where \in {"idle", "anchoring"} : stage' = [stage EXCEPT ![c] = where]
    BY <1>2 DEF Look, Goes, Returns
  <2>2. where \in Stages \ {"snapshot"}
    BY DEF Stages
  <2> QED
    BY <1>2, <2>1, <2>2, EndsKeeps
<1> QED
  BY <1>1, <1>2 DEF BuildPortfolioState

\* The baseline is written when the snapshot is over.
LEMMA PersistKeeps ==
    ASSUME SnapshotInv, TypeInv', NEW c \in Callers, Persist(c)
    PROVE  SnapshotInv'
<1>1. UNCHANGED <<book, reads, result>>
  BY DEF Persist
<1>2. \A d \in Callers : stage'[d] = "snapshot" => stage[d] = "snapshot"
  BY DEF Persist, Truncate, Write, Goes, Returns, SnapshotInv, SnapshotType, TypeInv
<1> QED
  BY <1>1, <1>2 DEF SnapshotInv, SnapshotType, BookFollowed, FailuresKnown, Held

\* The book moves under a snapshot, and the bounds move with it.
LEMMA TradeKeeps ==
    ASSUME SnapshotInv, TypeInv', NEW level \in Levels, Trade(level)
    PROVE  SnapshotInv'
<1>1. SnapshotType /\ BookFollowed /\ FailuresKnown
  BY DEF SnapshotInv
<1>2. stage' = stage /\ result' = result /\ book' \subseteq Contracts
  BY <1>1 DEF Trade, Account, SnapshotType
<1> DEFINE moved(c) == [reads[c] EXCEPT !.always = @ \cap book', !.ever = @ \cup book']
<1>3. \A c \in Callers :
         /\ moved(c) \in ReadType /\ moved(c).always = reads[c].always \cap book'
         /\ moved(c).ever = reads[c].ever \cup book' /\ moved(c).spoilt = reads[c].spoilt
         /\ moved(c).strange = reads[c].strange /\ moved(c).rows = reads[c].rows
         /\ moved(c).next = reads[c].next
  BY <1>1, <1>2 DEF SnapshotType, ReadType
<1>4. reads' = [c \in Callers |-> IF stage[c] = "idle" THEN reads[c] ELSE moved(c)]
  BY DEF Trade
<1> HIDE DEF moved
<1>5. SnapshotType'
  BY <1>1, <1>2, <1>3, <1>4 DEF SnapshotType
<1>6. BookFollowed'
  <2> SUFFICES ASSUME NEW c \in Callers, stage[c] = "snapshot"
               PROVE  /\ reads'[c].always \subseteq book' /\ book' \subseteq reads'[c].ever
                      /\ \/ reads'[c].next = "positions" \/ reads'[c].strange
                         \/ /\ reads'[c].always \subseteq Held(c)'
                            /\ Held(c)' \subseteq reads'[c].ever
    BY <1>2 DEF BookFollowed
  <2>1. reads'[c] = moved(c)
    BY <1>4
  <2>2. Held(c)' = Held(c)
    BY <1>3, <2>1 DEF Held
  <2> QED
    BY <1>1, <1>3, <2>1, <2>2 DEF BookFollowed
<1>7. FailuresKnown'
  BY <1>1, <1>2, <1>3, <1>4 DEF FailuresKnown
<1> QED
  BY <1>5, <1>6, <1>7 DEF SnapshotInv

LEMMA InitSnapshotInv == SnapshotInit => SnapshotInv
<1> SUFFICES ASSUME SnapshotInit PROVE SnapshotInv
  OBVIOUS
<1>1. TypeInv
  BY InitIInv DEF SnapshotInit, IInv
<1>2. Fresh \in ReadType
  BY DEF Fresh, ReadType, Steps
<1> QED
  BY <1>1, <1>2 DEF SnapshotInit, Init, SnapshotInv, SnapshotType, BookFollowed, FailuresKnown

LEMMA StepSnapshotInv ==
    ASSUME SnapshotInv, [SnapshotNext]_snapshotVars PROVE SnapshotInv'
<1>1. TypeInv'
  BY SnapshotStep, StepTypeInv DEF SnapshotInv, SnapshotType
<1>2. ASSUME NEW c \in Callers, GetAccountInfo(c) PROVE SnapshotInv'
  BY <1>1, <1>2, AccountReadKeeps
<1>3. ASSUME NEW c \in Callers, GetAllPositions(c) PROVE SnapshotInv'
  BY <1>1, <1>3, PositionsReadKeeps
<1>4. ASSUME NEW c \in Callers, GetOptionSnapshot(c) \/ GetStockLatestTrade(c)
      PROVE  SnapshotInv'
  BY <1>1, <1>4, LaterReadsKeep
<1>5. ASSUME NEW c \in Callers, ReadsOther(c) PROVE SnapshotInv'
  BY <1>1, <1>5, LaterReadsKeep
<1>6. ASSUME NEW c \in Callers, BuildPortfolioState(c) PROVE SnapshotInv'
  BY <1>1, <1>6, BuildKeeps
<1>7. ASSUME NEW c \in Callers, Persist(c) PROVE SnapshotInv'
  BY <1>1, <1>7, PersistKeeps
<1>8. ASSUME NEW c \in Callers, Killed(c) PROVE SnapshotInv'
  <2>1. "idle" \in Stages \ {"snapshot"} /\ stage' = [stage EXCEPT ![c] = "idle"]
    BY <1>8 DEF Killed, Kill, Goes, Stages
  <2> QED
    BY <1>1, <1>8, <2>1, EndsKeeps DEF Killed
<1>9. ASSUME NEW level \in Levels, Trade(level) PROVE SnapshotInv'
  BY <1>1, <1>9, TradeKeeps
<1>10. CASE UNCHANGED snapshotVars
  <2>1. UNCHANGED <<stage, book, reads, result>>
    BY <1>10 DEF snapshotVars, vars
  <2> QED
    BY <1>1, <2>1 DEF SnapshotInv, SnapshotType, BookFollowed, FailuresKnown, Held
<1> QED
  BY <1>2, <1>3, <1>4, <1>5, <1>6, <1>7, <1>8, <1>9, <1>10 DEF SnapshotNext

\* The gate, the exits and the panels judge the book that was held, whatever shape
\* the server gives its answer and however the account trades between the reads
\* (build_portfolio, agent/orchestrator.py; build_portfolio_state).
THEOREM SnapshotSeesBook == SnapshotSpec => []BookIsSeen
<1>1. SnapshotInv => BookIsSeen
  <2> SUFFICES ASSUME SnapshotInv, NEW c \in Callers, Ready(c), ~ reads[c].strange
               PROVE  /\ reads[c].always \subseteq Held(c) /\ Held(c) \subseteq reads[c].ever
                      /\ \A x \in reads[c].always :
                            \/ x \in Counted(c)
                            \/ x \notin reads[c].greeks
                            \/ Root[x] \in Asked(c) \ reads[c].spots
                            \/ ~ PricedRight(c, x)
    BY DEF BookIsSeen
  <2>1. reads[c].always \subseteq Held(c) /\ Held(c) \subseteq reads[c].ever
    BY DEF SnapshotInv, BookFollowed, Ready, At
  <2>2. ASSUME NEW x \in Held(c), PricedRight(c, x) PROVE Root[x] \in Asked(c)
    BY <2>2 DEF PricedRight, Asked
  <2> QED
    BY <2>1, <2>2 DEF Counted
<1> QED
  BY <1>1, InitSnapshotInv, StepSnapshotInv, PTL DEF SnapshotSpec

\* At every read, an MCPError and an answer that is empty or incomplete leave a
\* journalled reason or a poorer portfolio; a run ends without one only over another
\* exception, or an answer of another kind (run_cycle, agent/orchestrator.py:126).
THEOREM SnapshotReportsFailures == SnapshotSpec => []FailuresAreReported
<1>1. SnapshotInv => FailuresAreReported
  BY DEF SnapshotInv, FailuresKnown, FailuresAreReported, OddKinds
<1> QED
  BY <1>1, InitSnapshotInv, StepSnapshotInv, PTL DEF SnapshotSpec
=============================================================================
