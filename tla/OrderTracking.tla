---------------------------- MODULE OrderTracking ----------------------------
(***************************************************************************)
(* One real order: IolClient::submit_order and track_order_to_terminal     *)
(* (src/src/iol_client.rs), from the POST to the result execute_order      *)
(* (src/src/app.rs) records, against an IOL that answers late, stale,      *)
(* malformed or not at all.                                                *)
(*                                                                         *)
(*   submit -> posting -> accepted -> poll <-> wait -> lastRead -> cancel  *)
(*          -> poll <-> wait (window "cancelling") or lateRead -> done     *)
(***************************************************************************)
EXTENDS OrderExecution, Sequences

VARIABLES
    orders,     \* the orders IOL has for this operation, in order of arrival
    wire,       \* POSTs that left and that IOL has neither received nor lost
    past,       \* states the first order has been in: what IOL may still answer
    pc,
    initial,    \* the execution journaled as OrderAccepted
    last,       \* last_execution
    cancelling, \* the window that follows an accepted DELETE
    expired,    \* the window's deadline has passed
    result      \* Working, Unknown (the error OrderUnknown records) or an execution

iol == <<orders, wire, past>>
known == <<initial, last, cancelling, expired>>
vars == <<iol, pc, known, result>>

Phases == {"submit", "posting", "accepted", "poll", "wait", "lastRead", "cancel",
           "lateRead", "done"}

TypeOK ==
    /\ orders \in {<<>>} \cup {<<e>> : e \in Executions}
    /\ wire \in 0..1
    /\ past \subseteq Executions
    /\ pc \in Phases
    /\ initial \in Executions /\ last \in Executions
    /\ cancelling \in BOOLEAN /\ expired \in BOOLEAN
    /\ result \in Outcomes

Init ==
    /\ orders = <<>> /\ wire = 0 /\ past = {}
    /\ pc = "submit"
    /\ initial = Placed /\ last = Placed
    /\ cancelling = FALSE /\ expired = FALSE
    /\ result = Working

-----------------------------------------------------------------------------
(* IOL and the network (external).                                         *)

Arrive ==
    /\ wire > 0
    /\ wire' = wire - 1
    /\ \E e \in {Placed, Refused} :
        /\ orders' = Append(orders, e)
        /\ past' = IF orders = <<>> THEN {e} ELSE past
    /\ UNCHANGED <<pc, known, result>>

Lose == wire > 0 /\ wire' = wire - 1 /\ UNCHANGED <<orders, past, pc, known, result>>

Progress ==
    /\ orders # <<>>
    /\ \E next \in Successors(orders[1]) :
        /\ orders' = [orders EXCEPT ![1] = next]
        /\ past' = past \cup {next}
    /\ UNCHANGED <<wire, pc, known, result>>

\* What a well-formed answer may say: any state the order has been in, with or
\* without its number.
OrderAnswers ==
    {e \in {[seen EXCEPT !.id = numbered] : seen \in past, numbered \in BOOLEAN} :
        ValidExecution(e)}

-----------------------------------------------------------------------------
(* The client.                                                             *)

\* Every way out: an error, which the caller records as OrderUnknown, or a
\* terminal execution.
GiveUp == result' = Unknown /\ pc' = "done"
Finish(e) == result' = e /\ pc' = "done"

\* submit_order: the POST leaves, or no token can be had before it.
Submit ==
    /\ pc = "submit"
    /\ \/ wire' = wire + 1 /\ pc' = "posting" /\ UNCHANGED result
       \/ GiveUp /\ UNCHANGED wire
    /\ UNCHANGED <<orders, past, known>>

PostAnswered ==
    /\ pc = "posting"
    /\ \E e \in OrderAnswers : initial' = e
    /\ pc' = "accepted"
    /\ UNCHANGED <<iol, last, cancelling, expired, result>>

\* Mutant: an order whose POST failed is sent again.
PostRepeated ==
    /\ pc = "posting" /\ pc' = "submit"
    /\ UNCHANGED <<iol, known, result>>

\* A timeout, a 401, an HTTP error or a malformed answer: never sent again,
\* though it may still be on its way.
PostFails == pc = "posting" /\ GiveUp /\ UNCHANGED <<iol, known>>

\* track_order_to_terminal: done at once, impossible without a number, or polled.
Track ==
    /\ pc = "accepted"
    /\ IF Terminal(initial)
       THEN Finish(initial) /\ UNCHANGED <<last, expired>>
       ELSE IF initial.id
       THEN last' = initial /\ expired' = FALSE /\ pc' = "poll" /\ UNCHANGED result
       ELSE GiveUp /\ UNCHANGED <<last, expired>>
    /\ UNCHANGED <<iol, initial, cancelling>>

\* An answer to a status query: inconsistent, final, or the state to go on from.
Read(e, next) ==
    IF ~ValidTransition(last, e) THEN GiveUp /\ UNCHANGED last
    ELSE /\ last' = e
         /\ IF Terminal(e) THEN Finish(e) ELSE pc' = next /\ UNCHANGED result

\* poll_order_until; a retryable error is as good as no news.
Poll ==
    /\ pc = "poll"
    /\ \/ \E e \in OrderAnswers : Read(e, "wait")
       \/ pc' = "wait" /\ UNCHANGED <<last, result>>
       \/ GiveUp /\ UNCHANGED last
    /\ UNCHANGED <<iol, initial, cancelling, expired>>

\* Mutant: a cancellation IOL accepted is taken for a cancelled order.
WaitTrusting ==
    /\ pc = "wait"
    /\ IF ~expired THEN pc' = "poll" /\ UNCHANGED result
       ELSE IF cancelling THEN Finish([last EXCEPT !.status = "Cancelled"])
       ELSE pc' = "lastRead" /\ UNCHANGED result
    /\ UNCHANGED <<iol, known>>

\* Mutant: once the DELETE is accepted the order is awaited without a deadline.
WaitForever ==
    /\ pc = "wait"
    /\ IF ~expired \/ cancelling THEN pc' = "poll" ELSE pc' = "lastRead"
    /\ UNCHANGED <<iol, known, result>>

\* The deadline is looked at after each query; the sleep may end early on a
\* WebSocket movement of this order.
Wait ==
    /\ pc = "wait"
    /\ IF ~expired THEN pc' = "poll" /\ UNCHANGED result
       ELSE IF cancelling THEN GiveUp
       ELSE pc' = "lastRead" /\ UNCHANGED result
    /\ UNCHANGED <<iol, known>>

Expire ==
    /\ pc \in {"poll", "wait"} /\ ~expired
    /\ expired' = TRUE
    /\ UNCHANGED <<iol, pc, initial, last, cancelling, result>>

\* The last look before the DELETE.
LastRead ==
    /\ pc = "lastRead"
    /\ \/ \E e \in OrderAnswers : Read(e, "cancel")
       \/ pc' = "cancel" /\ UNCHANGED <<last, result>>
       \/ GiveUp /\ UNCHANGED last
    /\ UNCHANGED <<iol, initial, cancelling, expired>>

\* DELETE: accepted, a new window opens; refused, one more look.
Cancel ==
    /\ pc = "cancel"
    /\ cancelling' = TRUE
    /\ \/ pc' = "poll" /\ expired' = FALSE
       \/ pc' = "lateRead" /\ UNCHANGED expired
    /\ UNCHANGED <<iol, initial, last, result>>

\* Mutant: the late answer is not compared with what was known.
LateReadUnchecked ==
    /\ pc = "lateRead"
    /\ \/ \E e \in OrderAnswers : Terminal(e) /\ Finish(e)
       \/ GiveUp
    /\ UNCHANGED <<iol, known>>

\* After a failed DELETE only a terminal state settles the order.
LateRead ==
    /\ pc = "lateRead"
    /\ \/ \E e \in OrderAnswers : ValidTransition(last, e) /\ Terminal(e) /\ Finish(e)
       \/ GiveUp
    /\ UNCHANGED <<iol, known>>

-----------------------------------------------------------------------------
Client == Submit \/ PostAnswered \/ PostFails \/ Track \/ Poll \/ Wait \/ LastRead \/ Cancel \/ LateRead
IOL == Arrive \/ Lose \/ Progress
Finished == pc = "done" /\ UNCHANGED vars

Next == Client \/ Expire \/ IOL \/ Finished

Spec == Init /\ [][Next]_vars

\* HTTP calls have timeouts and deadlines pass; nothing is asked of IOL.
FairSpec == Spec /\ WF_vars(Client) /\ WF_vars(Expire)
=============================================================================
