---------------------------- MODULE OrderPromise ----------------------------
(***************************************************************************)
(* What sending one real order promises its caller (execute_order): it     *)
(* ends, either in doubt or with the final state the order has at IOL.     *)
(* The order itself may be placed, filled or cancelled before, during and  *)
(* after that, and is never placed twice.                                  *)
(***************************************************************************)
EXTENDS OrderExecution

VARIABLES
    orders,     \* the orders IOL has for this operation, in order of arrival
    result      \* Working, Unknown or the execution handed to the caller

Init == orders = <<>> /\ result = Working

Place ==
    /\ orders = <<>>
    /\ orders' \in {<<Placed>>, <<Refused>>}
    /\ UNCHANGED result

Progress ==
    /\ orders # <<>>
    /\ \E next \in Successors(orders[1]) : orders' = <<next>>
    /\ UNCHANGED result

\* A rejection may come without the order's number.
Resolve ==
    /\ result = Working /\ orders # <<>> /\ Terminal(orders[1])
    /\ \/ result' = orders[1]
       \/ orders[1].status = "Rejected" /\ result' = [orders[1] EXCEPT !.id = FALSE]
    /\ UNCHANGED orders

GiveUp == result = Working /\ result' = Unknown /\ UNCHANGED orders

Next == Place \/ Progress \/ Resolve \/ GiveUp

Safety == Init /\ [][Next]_<<orders, result>>
Ends == <>[](result # Working)
=============================================================================
