-------------------------------- MODULE Desk --------------------------------
(***************************************************************************)
(* What the trading cycle promises its broker, whatever crashes, times out *)
(* or overlaps: every order it places carries out a decision the gate has  *)
(* approved in the same run, at the approved size, and an order id is      *)
(* placed at most once.                                                    *)
(***************************************************************************)
VARIABLES
    approved,  \* the decisions to trade: [run, spread, contracts]
    placed     \* the orders at the broker: [id, run, spread, contracts]

Init == approved = {} /\ placed = {}

Decision(o) == [run |-> o.run, spread |-> o.spread, contracts |-> o.contracts]

Approve == approved \subseteq approved' /\ UNCHANGED placed

Place ==
    /\ UNCHANGED approved
    /\ \E o \in placed' :
          /\ placed' = placed \cup {o}
          /\ Decision(o) \in approved
          /\ \A earlier \in placed : earlier.id # o.id

Next == Approve \/ Place

Spec == Init /\ [][Next]_<<approved, placed>>
=============================================================================
