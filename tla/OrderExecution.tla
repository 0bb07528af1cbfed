--------------------------- MODULE OrderExecution ---------------------------
(***************************************************************************)
(* What the program makes of an order's state as IOL reports it            *)
(* (src/src/broker.rs, src/src/iol_client.rs), and what IOL may do with an *)
(* order.  An execution is a record                                        *)
(*   status  the OrderStatus                                               *)
(*   filled  filled_quantity                                               *)
(*   id      IOL's order number is present                                 *)
(* A fill price is taken to be present exactly when something is filled;   *)
(* an answer where it is not, or with another order's number, is one of    *)
(* the malformed answers, which parse_order_execution turns into an error. *)
(***************************************************************************)
EXTENDS Naturals

CONSTANT Quantity       \* contracts the order asks for

ASSUME QuantityAssumption == Quantity \in Nat \ {0}

OrderStatus == {"Pending", "PartiallyExecuted", "Executed", "Rejected", "Cancelled"}
Executions == [status : OrderStatus, filled : 0..Quantity, id : BOOLEAN]

\* What sending an order has come to: not finished, an error (OrderUnknown), or
\* an execution.
Working == [status |-> "Working", filled |-> 0, id |-> FALSE]
Unknown == [status |-> "Unknown", filled |-> 0, id |-> FALSE]
Outcomes == Executions \cup {Working, Unknown}

\* order_is_terminal
Terminal(e) == e.status \in {"Executed", "Rejected", "Cancelled"}

\* validate_order_execution: quantity, order number and status agree.
ValidExecution(e) ==
    /\ e.status \in {"Pending", "Rejected"} => e.filled = 0
    /\ e.status = "PartiallyExecuted" => e.filled \in 1..(Quantity - 1)
    /\ e.status = "Executed" => e.filled = Quantity
    /\ e.status = "Cancelled" => e.filled < Quantity
    /\ e.status \in {"PartiallyExecuted", "Executed", "Cancelled"} => e.id

\* validate_order_transition: number, quantity and status never go back.
ValidTransition(previous, next) ==
    /\ ~Terminal(previous)
    /\ previous.id => next.id
    /\ next.filled >= previous.filled
    /\ previous.status = "PartiallyExecuted" =>
        next.status \in {"PartiallyExecuted", "Executed", "Cancelled"}

-----------------------------------------------------------------------------
(* The order at IOL (external).                                            *)

Placed == [status |-> "Pending", filled |-> 0, id |-> TRUE]
Refused == [status |-> "Rejected", filled |-> 0, id |-> TRUE]
FilledUpTo(n) ==
    [status |-> IF n = Quantity THEN "Executed" ELSE "PartiallyExecuted",
     filled |-> n, id |-> TRUE]

\* An open order fills, is cancelled (by the program, the operator or the end of
\* the session) or, while nothing is filled, rejected.
Successors(e) ==
    IF Terminal(e) THEN {}
    ELSE {FilledUpTo(n) : n \in (e.filled + 1)..Quantity}
         \cup {[e EXCEPT !.status = "Cancelled"]}
         \cup (IF e.filled = 0 THEN {Refused} ELSE {})
=============================================================================
