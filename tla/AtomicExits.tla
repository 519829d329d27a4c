---------------------------- MODULE AtomicExits ----------------------------
(***************************************************************************)
(* What exit management promises about the book: the legs of one           *)
(* (underlying, expiry) group are given up together, once the group as a   *)
(* whole has been judged due, unless they expire.                          *)
(***************************************************************************)
EXTENDS Integers

CONSTANTS
    Groups,     \* <<underlying, expiry>>
    NoPosition

VARIABLES
    book,   \* what each group holds, or NoPosition
    judged, \* the groups judged due and not given up since
    day

vars == <<book, judged, day>>

Init == /\ book = [g \in Groups |-> NoPosition]
        /\ judged = {} /\ day = 0

Judge == judged \subseteq judged' /\ UNCHANGED <<book, day>>

GiveUp(g) ==
    /\ g \in judged /\ judged' = judged \ {g}
    /\ book' = [book EXCEPT ![g] = NoPosition]
    /\ UNCHANGED day

\* A spread is opened in a group that nothing is about to give up.
Open(g) ==
    /\ g \notin judged
    /\ book'[g] # NoPosition /\ book' = [book EXCEPT ![g] = book'[g]]
    /\ UNCHANGED <<judged, day>>

Expire ==
    /\ day' = day + 1
    /\ book' = [g \in Groups |-> IF g[2] <= day THEN NoPosition ELSE book[g]]
    /\ UNCHANGED judged

Next == Judge \/ Expire \/ \E g \in Groups : GiveUp(g) \/ Open(g)

Spec == Init /\ [][Next]_vars
=============================================================================
