------------------------------ MODULE Journal ------------------------------
(***************************************************************************)
(* The append-only trade journal, agent/journal.py: TradeJournal.write in  *)
(* every process that is running, and read_all in the dashboard.           *)
(*                                                                         *)
(* A write reaches the file at once or in two pieces, and a process may be *)
(* killed at any point of it.  The file is the lines that have ended and   *)
(* the one that has not; a line is the pieces it holds.                    *)
(***************************************************************************)
EXTENDS Integers, Sequences

CONSTANTS
    Writers,    \* processes that write to the journal
    MaxRecords, \* bound on the records of one process
    MaxKills    \* bound on processes killed while writing

ASSUME JournalAssumption ==
    MaxRecords \in Nat /\ MaxKills \in Nat

VARIABLES
    file,      \* the lines that have ended and the open one
    writing,     \* of each writer: "idle", "open", "half"
    prefixed,  \* what each writer found _needs_newline to be
    count,     \* records each writer has begun
    completed, \* history: records whose write returned, in that order
    kills,
    mishap     \* history: the check of the file's end was overtaken, or failed

journalVars == <<file, writing, prefixed, count, completed, kills, mishap>>

Record(w) == [writer |-> w, record |-> count[w]]
Whole(w) == <<Record(w), "whole">>
Head1(w) == <<Record(w), "head">>
Tail1(w) == <<Record(w), "tail">>

Put(f, piece) == [f EXCEPT !.open = Append(@, piece)]
EndLine(f) == [ended |-> Append(f.ended, f.open), open |-> <<>>]

\* The file as the writer's first piece finds it, behind its prefix.
Prefixed(w) == IF prefixed[w] THEN EndLine(file) ELSE file

-----------------------------------------------------------------------------

\* Mutant: the record goes straight onto whatever the file ends with.
NoPrefix == FALSE

\* _needs_newline: the last byte is looked at before the file is opened to append.
NeedsNewline == file.open # <<>>

Begin(w, newline) ==
    /\ writing[w] = "idle" /\ count[w] < MaxRecords
    /\ writing' = [writing EXCEPT ![w] = "open"]
    /\ prefixed' = [prefixed EXCEPT ![w] = newline]
    /\ count' = [count EXCEPT ![w] = @ + 1]
    /\ UNCHANGED <<file, completed, kills>>

BeginWrite(w) == Begin(w, NeedsNewline)

\* An OSError while looking counts as a file that ends well.
BeginBlind(w) == Begin(w, FALSE)

\* The file is open in append mode: a piece lands behind all others.
Completes(w, newFile) ==
    /\ file' = newFile
    /\ writing' = [writing EXCEPT ![w] = "idle"]
    /\ completed' = Append(completed, Record(w))
    /\ UNCHANGED <<prefixed, count, kills>>

WriteAll(w) == writing[w] = "open" /\ Completes(w, EndLine(Put(Prefixed(w), Whole(w))))

WriteHead(w) ==
    /\ writing[w] = "open"
    /\ file' = Put(Prefixed(w), Head1(w))
    /\ writing' = [writing EXCEPT ![w] = "half"]
    /\ UNCHANGED <<prefixed, count, completed, kills>>

WriteTail(w) == writing[w] = "half" /\ Completes(w, EndLine(Put(file, Tail1(w))))

\* An OSError, after one piece or before the first, is logged and swallowed: the
\* record is gone, the cycle goes on.
WriteFails(w) ==
    /\ writing[w] # "idle"
    /\ writing' = [writing EXCEPT ![w] = "idle"]
    /\ UNCHANGED <<file, prefixed, count, completed, kills>>

\* The process is killed; a later one takes its place.  It leaves nothing more, or
\* the next piece, which may lack nothing but its line end.
Kill(w) ==
    /\ kills < MaxKills /\ writing[w] # "idle"
    /\ kills' = kills + 1
    /\ writing' = [writing EXCEPT ![w] = "idle"]
    /\ \/ UNCHANGED file
       \/ writing[w] = "open" /\ \E piece \in {Head1(w), Whole(w)} : file' = Put(Prefixed(w), piece)
       \/ writing[w] = "half" /\ file' = Put(file, Tail1(w))
    /\ UNCHANGED <<prefixed, count, completed>>

JournalInit ==
    /\ file = [ended |-> <<>>, open |-> <<>>] /\ completed = <<>>
    /\ kills = 0 /\ mishap = FALSE
    /\ writing = [w \in Writers |-> "idle"]
    /\ prefixed = [w \in Writers |-> FALSE]
    /\ count = [w \in Writers |-> 0]

Busy(w) == writing[w] # "idle" \/ writing'[w] # "idle"

\* A line is left open while two processes are at the file.
Overtaken ==
    file'.open # <<>> /\ \E v, w \in Writers : v # w /\ Busy(v) /\ Busy(w)

JournalNext ==
    \/ /\ \E w \in Writers : \/ BeginWrite(w) \/ WriteAll(w) \/ WriteHead(w) \/ WriteTail(w)
                              \/ WriteFails(w) \/ Kill(w)
       /\ mishap' = (mishap \/ Overtaken)
    \/ /\ \E w \in Writers : BeginBlind(w)
       /\ mishap' = TRUE

JournalSpec == JournalInit /\ [][JournalNext]_journalVars

-----------------------------------------------------------------------------

\* A line parses when it holds the pieces of one record and nothing else.
Parses(line) ==
    \/ Len(line) = 1 /\ line[1][2] = "whole"
    \/ /\ Len(line) = 2 /\ line[1][2] = "head" /\ line[2][2] = "tail"
       /\ line[1][1] = line[2][1]

\* The lines as a reader splits the file: the last may be open, or empty.
Lines(f) == Append(f.ended, f.open)

\* read_all: the places of the lines that parse, in whose order it yields them.
ReadAll(f) == {i \in DOMAIN Lines(f) : Parses(Lines(f)[i])}

\* What it yields for one of them.
RecordAt(f, i) == Lines(f)[i][1][1]

PlacesOf(f, r) == {i \in ReadAll(f) : RecordAt(f, i) = r}

\* A reader of g has all that a reader of f has, as it was, and more only behind it.
Continues(f, g) ==
    /\ ReadAll(f) \subseteq ReadAll(g)
    /\ \A i \in ReadAll(f) : RecordAt(g, i) = RecordAt(f, i)
    /\ \A i \in ReadAll(f), j \in ReadAll(g) \ ReadAll(f) : i < j

-----------------------------------------------------------------------------
(***************************************************************************)
(* Properties.                                                             *)
(***************************************************************************)

\* A record whose write returned is read back, once and in the order of the
\* writes, whatever was torn before it or is torn after it: write starts a fresh
\* line behind a torn one.  The check
\* can be overtaken by another process (journal.py:105), and by nothing else.
CompletedAreRead ==
    ~ mishap => \A k \in DOMAIN completed : \E i \in ReadAll(file) :
                   /\ PlacesOf(file, completed[k]) = {i}
                   /\ \A j \in 1..(k - 1) : \A h \in PlacesOf(file, completed[j]) : h < i

\* What read_all has yielded once it always yields, in the same order: the
\* journal as the dashboard reads it only grows.
ReadsOnlyGrow == [][ ~ mishap' => Continues(file, file') ]_file
=============================================================================
