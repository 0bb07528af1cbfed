----------------------- MODULE OrderTrackingProperties -----------------------
(* What tracking a real order promises.                                    *)
EXTENDS OrderTracking

Promise == INSTANCE OrderPromise WITH orders <- orders, result <- result

\* The order is placed at most once, and what the caller is told of it is its
\* final state at IOL or "unknown": never a state that may still change, and
\* never the cancellation that was only asked for (track_order_to_terminal).
KeepsPromise == Promise!Safety

\* Tracking ends, whatever IOL answers: each window has a deadline and the
\* second one is the last (poll_order_until).
TrackingEnds == Promise!Ends

\* The journal holds OrderAccepted(initial) and then OrderUpdated(result): a
\* restart replays both through validate_order_transition, and a pair it
\* refuses would keep the program from ever starting again
\* (app.rs unresolved_local_orders).
JournaledOrderReplays ==
    result \in Executions => initial = result \/ ValidTransition(initial, result)

-----------------------------------------------------------------------------
(* The inductive strengthening the proofs use.                             *)

\* At most one order, and what IOL may report of it: states it has been in, the
\* final one only when it is there.
HistoryInv ==
    /\ wire = 1 => orders = <<>>
    /\ pc = "submit" => wire = 0 /\ orders = <<>>
    /\ orders = <<>> => past = {}
    /\ orders # <<>> => orders[1] \in past
    /\ \A e \in past : e.id /\ ValidExecution(e) /\ (Terminal(e) => orders = <<e>>)

\* While the order is followed its number is known and it is not known to have
\* ended.
FollowInv ==
    /\ pc = "done" <=> result # Working
    /\ pc = "accepted" => initial \in OrderAnswers
    /\ pc \in {"poll", "wait", "lastRead", "cancel", "lateRead"} =>
        /\ initial.id /\ ~Terminal(initial) /\ last.id /\ ~Terminal(last)
        /\ initial = last \/ ValidTransition(initial, last)

TrackInv == TypeOK /\ HistoryInv /\ FollowInv /\ JournaledOrderReplays
=============================================================================
