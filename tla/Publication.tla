---------------------------- MODULE Publication ----------------------------
(***************************************************************************)
(* The way of the journal to a dashboard: scripts/push_journal.sh, which   *)
(* cron runs after every cycle, copies the file to the branch `data` and   *)
(* pushes that; agent/journal_source.py takes the first source that has    *)
(* events.  Nothing keeps two pushes apart, and writers do not stop for    *)
(* one.  A branch holds one commit, so it is the file that commit holds,   *)
(* and an empty file where there is no branch yet.                         *)
(***************************************************************************)
EXTENDS Journal

CONSTANTS
    Pushers,    \* runs of the script that may overlap
    ByHand,     \* those not started by cron, which may be given --snapshot
    MaxAborts   \* bound on script runs that fail or are killed

ASSUME PublicationAssumption == MaxAborts \in Nat /\ ByHand \subseteq Pushers

VARIABLES
    pushing,     \* of each script run: "idle", "copied", "changed", "committed"
    copy,       \* the journal in each one's worktree
    branch,     \* the local branch `data`
    remote,     \* the branch as the raw URL serves it
    snapshot,   \* data/snapshot/journal_snapshot.jsonl
    aborts,
    unpushed,   \* history: a script run ended between its commit and its push
    overlapped  \* history: two script runs have overlapped

publicationVars ==
    <<pushing, copy, branch, remote, snapshot, aborts, unpushed, overlapped>>

Empty == [ended |-> <<>>, open |-> <<>>]

-----------------------------------------------------------------------------
(***************************************************************************)
(* scripts/push_journal.sh.                                                *)
(***************************************************************************)

\* The worktree goes when the script ends.
Goes(p, from, to, tree) ==
    /\ pushing[p] = from /\ pushing' = [pushing EXCEPT ![p] = to]
    /\ copy' = [copy EXCEPT ![p] = IF to = "idle" THEN Empty ELSE tree]

\* A missing or empty journal is not published.
HasJournal == file # Empty

\* Mutant: only the newest records are published, to keep the branch small.
NewestRecords == [file EXCEPT !.ended = IF Len(@) > 1 THEN Tail(@) ELSE @]

JournalFile == file

\* The journal goes to the worktree and, with --snapshot, to the snapshot too.
CopyJournal(p, withSnapshot) ==
    /\ HasJournal /\ Goes(p, "idle", "copied", JournalFile)
    /\ withSnapshot => p \in ByHand
    /\ snapshot' = IF withSnapshot THEN file ELSE snapshot
    /\ overlapped' = (overlapped \/ \E q \in Pushers : pushing[q] # "idle")
    /\ UNCHANGED <<branch, remote, aborts, unpushed>>

\* Mutant: the number of lines is compared, as `wc -l` counts them.
SameLength(p) == Len(copy[p].ended) = Len(branch.ended)

\* `git diff --cached` compares with the last commit, pushed or not.
Unchanged(p) == copy[p] = branch

Compare(p) ==
    /\ Goes(p, "copied", IF Unchanged(p) THEN "idle" ELSE "changed", copy[p])
    /\ UNCHANGED <<branch, remote, snapshot, aborts, unpushed, overlapped>>

\* The worktrees share the branch: whoever amends last, replaces.
Commit(p) ==
    /\ Goes(p, "changed", "committed", copy[p])
    /\ branch' = copy[p]
    /\ UNCHANGED <<remote, snapshot, aborts, unpushed, overlapped>>

\* push --force sends what the branch is by then.
Push(p) ==
    /\ Goes(p, "committed", "idle", copy[p])
    /\ remote' = branch /\ unpushed' = FALSE
    /\ UNCHANGED <<branch, snapshot, aborts, overlapped>>

\* set -e: a git command fails, or the script is killed.
Abort(p) ==
    /\ aborts < MaxAborts /\ pushing[p] # "idle"
    /\ Goes(p, pushing[p], "idle", Empty)
    /\ aborts' = aborts + 1
    /\ unpushed' = (unpushed \/ pushing[p] = "committed")
    /\ UNCHANGED <<branch, remote, snapshot, overlapped>>

PublicationInit ==
    /\ JournalInit
    /\ pushing = [p \in Pushers |-> "idle"]
    /\ copy = [p \in Pushers |-> Empty]
    /\ branch = Empty /\ remote = Empty /\ snapshot = Empty
    /\ aborts = 0 /\ unpushed = FALSE /\ overlapped = FALSE

Starts(p) == (\E withSnapshot \in BOOLEAN : CopyJournal(p, withSnapshot)) /\ UNCHANGED journalVars
Proceeds(p) == (Compare(p) \/ Commit(p) \/ Push(p)) /\ UNCHANGED journalVars

PublicationNext ==
    \/ JournalNext /\ UNCHANGED publicationVars
    \/ \E p \in Pushers : Starts(p) \/ Proceeds(p) \/ (Abort(p) /\ UNCHANGED journalVars)

\* Cron starts the script after every cycle, and a script that runs goes on.  (Its
\* scan for anything that looks like a key is left out: the journal holds none.)
PublicationSpec ==
    /\ PublicationInit /\ [][PublicationNext]_<<journalVars, publicationVars>>
    /\ \A p \in Pushers : WF_<<journalVars, publicationVars>>(Proceeds(p))
    /\ \A p \in Pushers \ ByHand : WF_<<journalVars, publicationVars>>(Starts(p))

-----------------------------------------------------------------------------
(***************************************************************************)
(* agent/journal_source.py.                                                *)
(***************************************************************************)

\* parse_jsonl skips what does not parse, as read_all does.
ParseJsonl(f) == ReadAll(f)

\* _load_local, _load_remote, _load_snapshot, in the order they are asked; a branch
\* that cannot be reached yields nothing.
Loaded(local, reachable) ==
    <<[source |-> "local", journal |-> IF local THEN file ELSE Empty],
      [source |-> "remote", journal |-> IF reachable THEN remote ELSE Empty],
      [source |-> "snapshot", journal |-> snapshot]>>

\* load_journal: the first source with an event, or none.
LoadJournal(local, reachable) ==
    LET loaded == Loaded(local, reachable)
        found == {n \in DOMAIN loaded : ParseJsonl(loaded[n].journal) # {}}
    IN  IF found = {} THEN [source |-> "none", journal |-> Empty]
        ELSE loaded[CHOOSE n \in found : \A m \in found : n <= m]

-----------------------------------------------------------------------------
(***************************************************************************)
(* Properties.                                                             *)
(***************************************************************************)

\* Whatever the source, a dashboard shows the journal as it was at some moment:
\* its first records, none missing in between and none torn, although the file is
\* copied while it is written.
ViewsAreOfTheJournal ==
    ~ mishap => \A local, reachable \in BOOLEAN :
        Continues(LoadJournal(local, reachable).journal, file)

\* What a reader of the branch has seen does not go away again, as long as no
\* two script runs overlap: every push puts a file there that has only grown.
PublishedOnlyGrows ==
    [][ ~ overlapped' /\ ~ mishap' => Continues(remote, remote') ]_remote

\* Nothing that could once be read is taken back, neither from the journal nor
\* from the branch.
HistoryIsKept == ReadsOnlyGrow /\ PublishedOnlyGrows

\* "So the deployed dashboard can read it" (push_journal.sh:3).
\* Once the writers are done the branch serves all they have written, unless a
\* push has failed and nothing has been written since: "nothing to do" compares
\* with the last commit, not with the last push.
PublishingCatchesUp == <>[](unpushed \/ remote = file)
=============================================================================
