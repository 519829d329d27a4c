--------------------------- MODULE MCGateSession ---------------------------
(***************************************************************************)
(* A $10,000 account: a $200 loss budget, $2,000 of delta, 20% reserve.    *)
(* The offers share strikes, so that Rule 5 has something to refuse, and   *)
(* differ in max loss and delta, so that either budget can bind.           *)
(***************************************************************************)
EXTENDS GateSession

Put(sell, buy, credit, maxLoss, sellDelta, delta, dte) ==
    [ticker |-> "SPY", expiry |-> 30, sell |-> sell, buy |-> buy,
     sellDelta |-> sellDelta, netDelta |-> delta, netCredit |-> credit,
     maxLoss |-> maxLoss, dte |-> dte]

MCOffers ==
    { Put(100, 95, 40, 90, -18, 6, 10),    \* two fit either budget
      Put(95, 90, 30, 70, -15, 9, 10),     \* its short leg is the first one's long leg
      Put(100, 90, 60, 130, -19, 12, 10),  \* the first one's short leg again; one fits
      Put(90, 80, 50, 210, -12, 4, 7),     \* not one contract fits the loss budget
      Put(105, 100, 20, 60, -25, 5, 15) }  \* too thin, too close, too far out

MCRequests == {1, 3}
MCPnls == {-6, -5, 0}
MCShifts == {-900, 0, 900}
=============================================================================
