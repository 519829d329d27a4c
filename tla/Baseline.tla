------------------------------ MODULE Baseline ------------------------------
(***************************************************************************)
(* The Rule 9 baseline, position_manager._starting_buying_power: read from *)
(* data/account_baseline.json by every portfolio snapshot, and written     *)
(* there by the first.                                                     *)
(***************************************************************************)
EXTENDS Integers

CONSTANTS
    Callers, \* agent processes, and the dashboard: they snapshot the portfolio
    Levels   \* what may be read as the account's buying power

\* An answer without a buying power reads as 0.
ASSUME BaselineAssumption == Levels \subseteq Nat /\ 0 \in Levels

VARIABLES
    buyingPower, \* the account's, now
    file,        \* a level, or what is not one: no file, or one that does not parse
    stage,       \* of each caller: "idle", "snapshot", "anchoring", "writing"
    current,     \* the buying power each caller read from the account
    used,        \* history: the baselines handed to the gate
    mishaps      \* history: "overlap" of two callers before there is a baseline,
                 \* "error" of the file system

vars == <<buyingPower, file, stage, current, used, mishaps>>

Absent == -1
Torn == -2

\* Mutant: the file is looked for where it is not written.
LooksElsewhere == FALSE

\* path.exists(), and it parses to a number.
Persisted == file \in Levels

\* Mutant: a share of the buying power of the moment.
ReserveOfNow(baseline, now) == now

\* What Rule 9 takes its reserve as a share of: a baseline of 0 is falsy.
ReserveBase(baseline, now) == IF baseline # 0 THEN baseline ELSE now

Returns(c, baseline) ==
    /\ used' = used \cup {baseline}
    /\ stage' = [stage EXCEPT ![c] = "idle"]

Goes(c, next) ==
    /\ stage' = [stage EXCEPT ![c] = next]
    /\ UNCHANGED used

Fails == mishaps' = mishaps \cup {"error"}

\* The account is read first.
ReadAccount(c, answer) ==
    /\ stage[c] = "idle"
    /\ current' = [current EXCEPT ![c] = answer]
    /\ Goes(c, "snapshot")
    /\ mishaps' = IF Persisted \/ \A other \in Callers : stage[other] = "idle"
                  THEN mishaps ELSE mishaps \cup {"overlap"}
    /\ UNCHANGED <<buyingPower, file>>

\* Every way of not reading a number leads to the same place.
Look(c) ==
    /\ stage[c] = "snapshot"
    /\ \/ Persisted /\ Returns(c, file) /\ UNCHANGED mishaps
       \/ ~ Persisted /\ Goes(c, "anchoring") /\ UNCHANGED mishaps
       \/ Persisted /\ Goes(c, "anchoring") /\ Fails
    /\ UNCHANGED <<buyingPower, file, current>>

\* open(path, "w") empties the file before anything is written to it.
Truncate(c) ==
    /\ stage[c] = "anchoring"
    /\ \/ file' = Torn /\ Goes(c, "writing") /\ UNCHANGED mishaps
       \/ UNCHANGED file /\ Returns(c, current[c]) /\ Fails
    /\ UNCHANGED <<buyingPower, current>>

\* Two writers write from the start of the same file: the longer record's end may
\* stay behind the shorter one.
Write(c) ==
    /\ stage[c] = "writing"
    /\ \/ file' = current[c] /\ UNCHANGED mishaps
       \/ Persisted /\ file' = Torn /\ UNCHANGED mishaps
       \/ UNCHANGED file /\ Fails
    /\ Returns(c, current[c])
    /\ UNCHANGED <<buyingPower, current>>

Kill(c) ==
    /\ stage[c] # "idle"
    /\ Goes(c, "idle")
    /\ UNCHANGED <<buyingPower, file, current, mishaps>>

\* Trades, fills and the market move the account's buying power.
Account(level) ==
    /\ buyingPower' = level
    /\ UNCHANGED <<file, stage, current, used, mishaps>>

Init ==
    /\ buyingPower \in Levels
    /\ file = Absent
    /\ stage = [c \in Callers |-> "idle"]
    /\ current = [c \in Callers |-> buyingPower]
    /\ used = {} /\ mishaps = {}

Next ==
    \/ \E c \in Callers :
          \/ \E answer \in {buyingPower, 0} : ReadAccount(c, answer)
          \/ Look(c) \/ Truncate(c) \/ Write(c) \/ Kill(c)
    \/ \E level \in Levels : Account(level)

Spec == Init /\ [][Next]_vars

-----------------------------------------------------------------------------

\* The baseline is fixed at the first run: once the gate has been handed one, it
\* is on disk, and no other is ever handed to it, whatever the account does and
\* wherever a process is killed.  Only callers that overlap before there is one, or a
\* file error, which the code answers with the current buying power, can change it
\* (position_manager.py:147-150).
BaselineIsFixed == mishaps = {} => used \subseteq {file}

\* Rule 9 keeps a share of one number, whatever the buying power is by then and
\* however often a later account read comes back without one: the reserve follows
\* the buying power only if what was persisted is 0, which the first read without
\* one leaves on disk for good (risk_gate.py:306, position_manager.py:171).
FloorIsAnchored ==
    mishaps = {} /\ file # 0 =>
       \A baseline \in used, now \in Levels : ReserveBase(baseline, now) = file

Settled == file \in Levels /\ \A c \in Callers : stage[c] \in {"idle", "snapshot"}

\* Callers that overlap (the agent and the dashboard's live mode both take the
\* snapshot) can only disagree about the first baseline: from the moment one is
\* on disk and nobody is writing, it is never written again.
RaceEndsAtFirstBaseline ==
    [][ Settled /\ "error" \notin mishaps' => Settled' /\ file' = file ]_vars
=============================================================================
