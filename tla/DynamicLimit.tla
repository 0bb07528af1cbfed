----------------------------- MODULE DynamicLimit -----------------------------
(***************************************************************************)
(* The simulated dynamic limit (src/src/broker.rs): an order that is       *)
(* cancelled and replaced at a better price with every later frame, and    *)
(* the metrics that count how such orders ended.  Prices are left out: a   *)
(* frame crosses the limit of its attempt or not; the last limit is the    *)
(* one asked for.                                                          *)
(***************************************************************************)
EXTENDS Integers

CONSTANTS
    Quantities,     \* bound: what orders ask for
    Frames,         \* bound: how many frames there may be
    Depth           \* bound: of the book

ASSUME DynamicAssumption ==
    /\ Quantities \subseteq Nat \ {0} /\ Frames \subseteq Nat \ {0}
    /\ Depth \in Nat

VARIABLES
    order,          \* [quantity, cap, attempt, filled, phase]
    requested,      \* the remaining quantity of the first transition, which the metrics read
    atVenue         \* history: what the orders sent so far can still execute

dynamicLimit == <<order, requested, atVenue>>

NoOrder == [quantity |-> 0, cap |-> 0, attempt |-> 0, filled |-> 0, phase |-> "None"]
Unfilled(o) == o.quantity - o.filled

DynamicInit == order = NoOrder /\ requested = 0 /\ atVenue = 0

\* maximum_attempts is at least one and at most the frames there are.
Simulate ==
    /\ order = NoOrder
    /\ \E q \in Quantities, cap \in Frames :
        order' = [NoOrder EXCEPT !.quantity = q, !.cap = cap, !.phase = "Cancelled"]
    /\ UNCHANGED <<requested, atVenue>>

\* Mutant: the whole quantity is asked for again.
ReplacementQuantityWhole == order.quantity
ReplacementQuantity == Unfilled(order)

Replace ==
    /\ order.phase = "Cancelled" /\ order.attempt < order.cap
    /\ order' = [order EXCEPT !.attempt = @ + 1,
                              !.phase = IF order.attempt = 0 THEN "Pending" ELSE "ReplacementSubmitted"]
    /\ requested' = IF order.attempt = 0 THEN Unfilled(order) ELSE requested
    /\ atVenue' = atVenue + ReplacementQuantity

Submitted == order.phase \in {"Pending", "ReplacementSubmitted"}

\* The frame crosses: what is ahead in the queue may leave nothing.
Cross ==
    /\ Submitted
    /\ \E depth \in 0..Depth, ahead \in 0..Depth :
        LET there == IF ahead < depth THEN depth - ahead ELSE 0
            executable == IF there < ReplacementQuantity THEN there ELSE ReplacementQuantity
        IN  /\ order' = [order EXCEPT !.filled = @ + executable,
                                      !.phase = IF order.filled + executable = order.quantity
                                                THEN "Executed" ELSE "PartiallyFilled"]
            /\ atVenue' = atVenue - executable
    /\ UNCHANGED requested

RequestCancel ==
    /\ Submitted \/ order.phase = "PartiallyFilled"
    /\ order' = [order EXCEPT !.phase = "CancelRequested"]
    /\ UNCHANGED <<requested, atVenue>>

CancelAcknowledged ==
    /\ order.phase = "CancelRequested"
    /\ order' = [order EXCEPT !.phase = "Cancelled"]
    /\ atVenue' = 0
    /\ UNCHANGED requested

\* Mutant: the next frame replaces what nobody confirmed cancelled.
AfterSilenceReplaced == "Cancelled"
AfterSilence == "StoppedUncertainCancellation"

CancelUnconfirmed ==
    /\ order.phase = "CancelRequested"
    /\ order' = [order EXCEPT !.phase = AfterSilence]
    /\ UNCHANGED <<requested, atVenue>>

DynamicEnded ==
    \/ order.phase \in {"Executed", "StoppedUncertainCancellation"}
    \/ order.phase = "Cancelled" /\ order.attempt = order.cap /\ order # NoOrder

DynamicNext == Simulate \/ Replace \/ Cross \/ RequestCancel \/ CancelAcknowledged \/ CancelUnconfirmed

-----------------------------------------------------------------------------
(* What is made of an order that ended                                     *)

FinalStatus ==
    CASE order.filled = order.quantity -> "Executed"
      [] order.filled < order.quantity /\ order.phase = "StoppedUncertainCancellation" ->
            IF order.filled > 0 THEN "PartiallyExecuted" ELSE "Pending"
      [] OTHER -> "Cancelled"

\* summarize_dynamic_executions
CountsAs == {c \in {"fully_filled", "partial_fills", "no_fills"} :
    CASE c = "fully_filled" -> FinalStatus = "Executed"
      [] c = "partial_fills" ->
            FinalStatus = "PartiallyExecuted" \/ (FinalStatus = "Cancelled" /\ order.filled > 0)
      [] c = "no_fills" -> order.filled = 0}

\* However frames cross, queues eat the book and cancellations go unanswered,
\* what was executed and what may still execute at the venue never add up to
\* more than was asked for, and an order that ended counts in one class of the
\* metrics, against the quantity it asked for.
NeverOrdersTwice ==
    /\ order.filled + atVenue <= order.quantity
    /\ DynamicEnded =>
        /\ \E c \in {"fully_filled", "partial_fills", "no_fills"} : CountsAs = {c}
        /\ requested = order.quantity
=============================================================================
