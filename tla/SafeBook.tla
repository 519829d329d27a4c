------------------------------ MODULE SafeBook ------------------------------
(***************************************************************************)
(* What the risk gate promises about the book, whoever calls it and        *)
(* however the calls interleave.  A short position is opened only at a     *)
(* strike the book is not already short, and only if the book's delta is   *)
(* within its budget once it is open (config/risk_config.json, rules 3     *)
(* and 5).  Short positions may be covered, and the delta and the budget   *)
(* may drift with the market, at any time.                                 *)
(***************************************************************************)
EXTENDS Integers

VARIABLES
    shorts,      \* the open short positions: [leg, contracts]
    delta,       \* the book's net delta-dollars
    deltaBudget  \* the cap on its magnitude, in hundredths of a dollar

Magnitude(x) == IF x < 0 THEN -x ELSE x

\* A short position that is what is left of one the book had.
NotEnlarged(s) == \E old \in shorts : old.leg = s.leg /\ s.contracts <= old.contracts

Init == shorts = {}

Open ==
    /\ \E new \in shorts' :
          /\ \A old \in shorts : old.leg # new.leg
          /\ \A s \in shorts' \ {new} : NotEnlarged(s)
    /\ 100 * Magnitude(delta') <= deltaBudget'

Close == \A s \in shorts' : NotEnlarged(s)

Next == Open \/ Close

Spec == Init /\ [][Next]_shorts
=============================================================================
