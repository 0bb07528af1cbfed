------------------------- MODULE OrderTrackingProofs -------------------------
(***************************************************************************)
(* One real order, for every quantity: the result is IOL's final state or  *)
(* "unknown", one order at most is placed, and what is journaled replays.  *)
(***************************************************************************)
EXTENDS OrderTrackingProperties, TLAPS

USE QuantityAssumption DEF iol, known, vars

-----------------------------------------------------------------------------
(* Executions and their transitions.                                       *)

\* A chain of accepted answers is itself an accepted transition: the journal may
\* leave out the ones in between.
LEMMA TransitionsCompose ==
    ASSUME NEW a \in Executions, NEW b \in Executions, NEW c \in Executions,
           a = b \/ ValidTransition(a, b), ValidTransition(b, c)
    PROVE  ValidTransition(a, c)
<1>1. CASE a = b
    BY <1>1
<1>2. CASE ValidTransition(a, b)
    <2>1. c.filled >= a.filled
        <3>1. a.filled \in Nat /\ b.filled \in Nat /\ c.filled \in Nat
            BY DEF Executions
        <3>2. QED
            BY <1>2, <3>1 DEF ValidTransition
    <2>2. ~Terminal(a) /\ (a.id => c.id)
        BY <1>2 DEF ValidTransition
    <2>3. a.status = "PartiallyExecuted" => b.status = "PartiallyExecuted"
        BY <1>2 DEF ValidTransition, Terminal
    <2>4. QED
        BY <1>2, <2>1, <2>2, <2>3 DEF ValidTransition
<1>3. QED
    BY <1>1, <1>2

\* No answer goes on from a final state, and the number stays known.
LEMMA TransitionFacts ==
    ASSUME NEW a \in Executions, NEW b \in Executions, ValidTransition(a, b)
    PROVE  ~Terminal(a) /\ (a.id => b.id)
BY DEF ValidTransition, Terminal, Executions, OrderStatus

LEMMA NewOrderFacts ==
    \A e \in {Placed, Refused} : e \in Executions /\ ValidExecution(e) /\ e.id
<1>1. Placed \in Executions /\ Refused \in Executions
    BY DEF Placed, Refused, Executions, OrderStatus
<1>2. Placed.id /\ Refused.id
    BY DEF Placed, Refused
<1>3. ValidExecution(Placed)
    BY DEF Placed, ValidExecution
<1>4. ValidExecution(Refused)
    BY DEF Refused, ValidExecution
<1>5. QED
    BY <1>1, <1>2, <1>3, <1>4

\* What IOL may turn an order into is a well-formed numbered execution.
LEMMA SuccessorFacts ==
    ASSUME NEW e \in Executions, ValidExecution(e), e.id, NEW next \in Successors(e)
    PROVE  next \in Executions /\ ValidExecution(next) /\ next.id /\ ~Terminal(e)
<1>1. ~Terminal(e)
    BY DEF Successors
<1>2. CASE \E n \in (e.filled + 1)..Quantity : next = FilledUpTo(n)
    <2>1. PICK n \in 1..Quantity : next = FilledUpTo(n)
        BY <1>2 DEF Executions
    <2>2. CASE n = Quantity
        BY <1>1, <2>1, <2>2 DEF FilledUpTo, Executions, OrderStatus, ValidExecution
    <2>3. CASE n # Quantity
        BY <1>1, <2>1, <2>3 DEF FilledUpTo, Executions, OrderStatus, ValidExecution
    <2>4. QED
        BY <2>2, <2>3
<1>3. CASE next = [e EXCEPT !.status = "Cancelled"]
    BY <1>1, <1>3 DEF Executions, OrderStatus, ValidExecution, Terminal
<1>4. CASE next = Refused
    BY <1>1, <1>4, NewOrderFacts
<1>5. QED
    BY <1>1, <1>2, <1>3, <1>4 DEF Successors

LEMMA ExecutionFields ==
    \A e \in Executions : e = [status |-> e.status, filled |-> e.filled, id |-> e.id]
BY DEF Executions

\* A result is one thing or the other.
LEMMA ResultsDiffer ==
    /\ Working # Unknown
    /\ \A e \in Executions : e # Working /\ e # Unknown
<1>1. Working.status = "Working" /\ Unknown.status = "Unknown"
    BY DEF Working, Unknown
<1>2. \A e \in Executions : e.status \in OrderStatus
    BY DEF Executions
<1>3. QED
    BY <1>1, <1>2 DEF OrderStatus

\* A final answer is the order's final state, a rejection perhaps unnumbered.
LEMMA FinalAnswer ==
    ASSUME TypeOK, HistoryInv, NEW e \in OrderAnswers
    PROVE  /\ e \in Executions
           /\ Terminal(e) =>
                /\ orders # <<>> /\ Terminal(orders[1])
                /\ \/ e = orders[1]
                   \/ orders[1].status = "Rejected" /\ e = [orders[1] EXCEPT !.id = FALSE]
<1>1. PICK seen \in past, numbered \in BOOLEAN :
        e = [seen EXCEPT !.id = numbered] /\ ValidExecution(e)
    BY DEF OrderAnswers
<1>2. seen \in Executions /\ seen.id
    BY <1>1 DEF TypeOK, HistoryInv
<1>3. e \in Executions /\ e.status = seen.status /\ e.id = numbered
    BY <1>1, <1>2 DEF Executions
<1>4. ASSUME Terminal(e) PROVE orders # <<>> /\ orders[1] = seen /\ Terminal(orders[1])
    <2>1. Terminal(seen)
        BY <1>3, <1>4 DEF Terminal
    <2>2. orders = <<seen>>
        BY <2>1 DEF HistoryInv
    <2>3. QED
        BY <2>1, <2>2
<1>5. CASE numbered
    <2>1. e = seen
        <3>1. e.filled = seen.filled /\ e.id = seen.id
            BY <1>1, <1>2, <1>3, <1>5 DEF Executions
        <3>2. QED
            BY <1>2, <1>3, <3>1, ExecutionFields
    <2>2. QED
        BY <1>3, <1>4, <2>1
<1>6. CASE ~numbered
    <2>1. Terminal(e) => e.status = "Rejected"
        BY <1>1, <1>3, <1>6 DEF ValidExecution, Terminal
    <2>2. e = [seen EXCEPT !.id = FALSE]
        BY <1>1, <1>6
    <2>3. QED
        BY <1>3, <1>4, <2>1, <2>2
<1>7. QED
    BY <1>5, <1>6

-----------------------------------------------------------------------------
(* The invariant.                                                          *)

\* What IOL and the network do leaves the client alone.
LEMMA IOLStep == TrackInv /\ IOL => TrackInv'
<1>. SUFFICES ASSUME TrackInv, IOL PROVE TrackInv'
    OBVIOUS
<1>. TypeOK /\ HistoryInv /\ FollowInv /\ JournaledOrderReplays
    BY DEF TrackInv
<1>1. UNCHANGED <<pc, known, result>>
    BY DEF IOL, Arrive, Lose, Progress
<1>2. FollowInv' /\ JournaledOrderReplays'
    <2>1. past \subseteq past'
        BY DEF IOL, Arrive, Lose, Progress, HistoryInv
    <2>2. OrderAnswers \subseteq OrderAnswers'
        BY <2>1 DEF OrderAnswers
    <2>3. QED
        BY <1>1, <2>2 DEF FollowInv, JournaledOrderReplays
<1>3. CASE Arrive
    <2>1. wire = 1 /\ orders = <<>> /\ past = {} /\ wire' = 0 /\ pc # "submit"
        BY <1>3 DEF Arrive, TypeOK, HistoryInv
    <2>2. PICK e \in {Placed, Refused} : orders' = <<e>> /\ past' = {e}
        BY <1>3, <2>1 DEF Arrive
    <2>3. e \in Executions /\ ValidExecution(e) /\ e.id
        BY NewOrderFacts
    <2>4. TypeOK'
        BY <1>1, <2>1, <2>2, <2>3 DEF TypeOK
    <2>5. HistoryInv'
        BY <1>1, <2>1, <2>2, <2>3 DEF HistoryInv
    <2>6. QED
        BY <1>2, <2>4, <2>5 DEF TrackInv
<1>4. CASE Lose
    <2>1. TypeOK'
        BY <1>1, <1>4 DEF Lose, TypeOK
    <2>2. HistoryInv'
        BY <1>1, <1>4 DEF Lose, HistoryInv, TypeOK
    <2>3. QED
        BY <1>2, <2>1, <2>2 DEF TrackInv
<1>5. CASE Progress
    <2>1. PICK e \in Executions : orders = <<e>>
        BY <1>5 DEF Progress, TypeOK
    <2>2. e \in past /\ ValidExecution(e) /\ e.id
        BY <2>1 DEF HistoryInv
    <2>3. PICK next \in Successors(e) : orders' = <<next>> /\ past' = past \cup {next}
        BY <1>5, <2>1 DEF Progress
    <2>4. next \in Executions /\ ValidExecution(next) /\ next.id /\ ~Terminal(e)
        BY <2>2, SuccessorFacts
    <2>5. TypeOK'
        BY <1>1, <1>5, <2>3, <2>4 DEF TypeOK, Progress
    <2>6. \A seen \in past : ~Terminal(seen)
        BY <2>1, <2>4 DEF HistoryInv
    <2>7. HistoryInv'
        BY <1>1, <1>5, <2>1, <2>3, <2>4, <2>6 DEF HistoryInv, Progress
    <2>8. QED
        BY <1>2, <2>5, <2>7 DEF TrackInv
<1>6. QED
    BY <1>3, <1>4, <1>5 DEF IOL

\* An answer the client goes on from keeps the chain from the first one.
LEMMA ReadStep ==
    ASSUME TrackInv, NEW e \in OrderAnswers, NEW next \in {"wait", "cancel"},
           pc \in {"poll", "lastRead"}, Read(e, next), UNCHANGED <<iol, initial, cancelling, expired>>
    PROVE  TrackInv'
<1>. TypeOK /\ HistoryInv /\ FollowInv /\ JournaledOrderReplays
    BY DEF TrackInv
<1>1. HistoryInv'
    BY DEF HistoryInv, Read, GiveUp, Finish
<1>2. e \in Executions /\ initial \in Executions /\ last \in Executions /\ result = Working
    BY FinalAnswer DEF TypeOK, FollowInv
<1>3. CASE ~ValidTransition(last, e)
    BY <1>1, <1>2, <1>3, ResultsDiffer
    DEF Read, GiveUp, TypeOK, FollowInv, JournaledOrderReplays, TrackInv, Phases, Outcomes
<1>4. CASE ValidTransition(last, e)
    <2>1. ValidTransition(initial, e) /\ e.id /\ last' = e
        BY <1>2, <1>4, TransitionsCompose, TransitionFacts DEF FollowInv, Read
    <2>2. CASE Terminal(e)
        BY <1>1, <1>2, <1>4, <2>1, <2>2, ResultsDiffer
        DEF Read, Finish, TypeOK, FollowInv, JournaledOrderReplays, TrackInv, Phases, Outcomes
    <2>3. CASE ~Terminal(e)
        BY <1>1, <1>2, <1>4, <2>1, <2>3
        DEF Read, TypeOK, FollowInv, JournaledOrderReplays, TrackInv, Phases
    <2>4. QED
        BY <2>2, <2>3
<1>5. QED
    BY <1>3, <1>4

\* Giving up keeps the invariant wherever the client is.
LEMMA FailStep ==
    ASSUME TrackInv, pc # "done", GiveUp, UNCHANGED <<iol, known>>
    PROVE  TrackInv'
BY ResultsDiffer
DEF GiveUp, TypeOK, HistoryInv, FollowInv, JournaledOrderReplays, TrackInv, Phases, Outcomes

LEMMA ClientStep == TrackInv /\ (Client \/ Expire) => TrackInv'
<1>. SUFFICES ASSUME TrackInv, Client \/ Expire PROVE TrackInv'
    OBVIOUS
<1>. TypeOK /\ HistoryInv /\ FollowInv /\ JournaledOrderReplays
    BY DEF TrackInv
<1>1. CASE Submit
    <2>1. CASE wire' = wire + 1 /\ pc' = "posting" /\ UNCHANGED <<orders, past, known, result>>
        <3>1. wire = 0 /\ orders = <<>> /\ pc = "submit"
            BY <1>1 DEF Submit, HistoryInv
        <3>2. QED
            BY <2>1, <3>1
            DEF TypeOK, HistoryInv, FollowInv, JournaledOrderReplays, TrackInv, Phases
    <2>2. QED
        BY <1>1, <2>1, FailStep DEF Submit
<1>2. CASE PostAnswered
    <2>1. initial' \in Executions
        BY <1>2, FinalAnswer DEF PostAnswered
    <2>2. result = Working
        BY <1>2 DEF PostAnswered, FollowInv
    <2>3. initial' \in OrderAnswers'
        BY <1>2 DEF PostAnswered, OrderAnswers
    <2>4. QED
        BY <1>2, <2>1, <2>2, <2>3, ResultsDiffer
        DEF PostAnswered, TypeOK, HistoryInv, FollowInv, JournaledOrderReplays, TrackInv, Phases
<1>3. CASE PostFails
    BY <1>3, FailStep DEF PostFails
<1>4. CASE Track
    BY <1>4, ResultsDiffer
    DEF Track, GiveUp, Finish, TypeOK, HistoryInv, FollowInv, JournaledOrderReplays, TrackInv, Phases, Outcomes
<1>5. CASE Poll
    <2>1. CASE \E e \in OrderAnswers : Read(e, "wait")
        BY <1>5, <2>1, ReadStep DEF Poll
    <2>2. CASE pc' = "wait" /\ UNCHANGED <<last, result>>
        BY <1>5, <2>2
        DEF Poll, TypeOK, HistoryInv, FollowInv, JournaledOrderReplays, TrackInv, Phases
    <2>3. QED
        BY <1>5, <2>1, <2>2, FailStep DEF Poll
<1>6. CASE Wait
    <2>1. CASE GiveUp
        BY <1>6, <2>1, FailStep DEF Wait
    <2>2. CASE pc' \in {"poll", "lastRead"} /\ UNCHANGED result
        BY <1>6, <2>2
        DEF Wait, TypeOK, HistoryInv, FollowInv, JournaledOrderReplays, TrackInv, Phases
    <2>3. QED
        BY <1>6, <2>1, <2>2 DEF Wait
<1>7. CASE LastRead
    <2>1. CASE \E e \in OrderAnswers : Read(e, "cancel")
        BY <1>7, <2>1, ReadStep DEF LastRead
    <2>2. CASE pc' = "cancel" /\ UNCHANGED <<last, result>>
        BY <1>7, <2>2
        DEF LastRead, TypeOK, HistoryInv, FollowInv, JournaledOrderReplays, TrackInv, Phases
    <2>3. QED
        BY <1>7, <2>1, <2>2, FailStep DEF LastRead
<1>8. CASE Cancel
    BY <1>8 DEF Cancel, TypeOK, HistoryInv, FollowInv, JournaledOrderReplays, TrackInv, Phases
<1>9. CASE LateRead
    <2>1. ASSUME NEW e \in OrderAnswers, ValidTransition(last, e), Terminal(e), Finish(e)
          PROVE  TrackInv'
        <3>1. e \in Executions /\ last \in Executions /\ initial \in Executions
            BY FinalAnswer DEF TypeOK
        <3>2. ValidTransition(initial, e)
            BY <1>9, <2>1, <3>1, TransitionsCompose DEF FollowInv, LateRead
        <3>3. QED
            BY <1>9, <2>1, <3>1, <3>2, ResultsDiffer
            DEF LateRead, Finish, TypeOK, HistoryInv, FollowInv, JournaledOrderReplays, TrackInv,
                Phases, Outcomes
    <2>2. QED
        BY <1>9, <2>1, FailStep DEF LateRead
<1>10. CASE Expire
    BY <1>10 DEF Expire, TypeOK, HistoryInv, FollowInv, JournaledOrderReplays, TrackInv
<1>11. QED
    BY <1>1, <1>2, <1>3, <1>4, <1>5, <1>6, <1>7, <1>8, <1>9, <1>10 DEF Client

LEMMA TrackingInvariant == Spec => []TrackInv
<1>1. Init => TrackInv
    <2>. SUFFICES ASSUME Init PROVE TrackInv
        OBVIOUS
    <2>1. TypeOK
        <3>1. orders \in {<<>>} \cup {<<e>> : e \in Executions}
            BY DEF Init
        <3>2. Working \in Outcomes /\ Placed \in Executions
            BY NewOrderFacts DEF Outcomes
        <3>3. initial \in Executions /\ last \in Executions /\ result \in Outcomes
            BY <3>2, Zenon DEF Init
        <3>4. wire \in 0..1 /\ past \subseteq Executions /\ pc \in Phases
            BY DEF Init, Phases
        <3>5. QED
            BY <3>1, <3>3, <3>4 DEF Init, TypeOK
    <2>2. HistoryInv /\ FollowInv
        BY DEF Init, HistoryInv, FollowInv
    <2>3. JournaledOrderReplays
        BY ResultsDiffer DEF Init, JournaledOrderReplays
    <2>4. QED
        BY <2>1, <2>2, <2>3 DEF TrackInv
<1>2. TrackInv /\ [Next]_vars => TrackInv'
    <2>1. TrackInv /\ UNCHANGED vars => TrackInv'
        BY DEF TypeOK, HistoryInv, FollowInv, JournaledOrderReplays, TrackInv, OrderAnswers
    <2>2. QED
        BY <2>1, IOLStep, ClientStep DEF Next, Finished
<1>3. QED
    BY <1>1, <1>2, PTL DEF Spec

-----------------------------------------------------------------------------
(* The results.                                                            *)

\* Every variable of the tracking keeps its type.
THEOREM TrackingTypes == Spec => []TypeOK
BY TrackingInvariant, PTL DEF TrackInv

\* What tracking an order journals can be replayed by the next start, whatever
\* IOL answered in between.
THEOREM JournalReplays == Spec => []JournaledOrderReplays
BY TrackingInvariant, PTL DEF TrackInv

\* A result other than "unknown" is the final state of the only order there is.
LEMMA ResultIsFinal ==
    ASSUME TrackInv, Client
    PROVE  \/ UNCHANGED <<orders, result>>
           \/ Promise!Resolve \/ Promise!GiveUp
<1>. TypeOK /\ HistoryInv /\ FollowInv
    BY DEF TrackInv
<1>1. UNCHANGED orders
    BY DEF Client, Submit, PostAnswered, PostFails, Track, Poll, Wait, LastRead, Cancel, LateRead
<1>2. pc # "done" /\ result = Working
    BY DEF FollowInv, Client, Submit, PostAnswered, PostFails, Track, Poll, Wait, LastRead, Cancel,
           LateRead
<1>3. result = Promise!Working
    BY <1>2 DEF Working, Promise!Working
<1>4. result' = Unknown => Promise!GiveUp
    BY <1>1, <1>3 DEF Promise!GiveUp, Unknown, Promise!Unknown
<1>5. ASSUME NEW e \in OrderAnswers, Terminal(e), result' = e PROVE Promise!Resolve
    BY <1>1, <1>3, <1>5, FinalAnswer DEF Promise!Resolve, Terminal, Promise!Terminal
<1>6. \/ UNCHANGED result \/ result' = Unknown
      \/ \E e \in OrderAnswers : Terminal(e) /\ result' = e
    <2>1. CASE Track
        BY <2>1 DEF Track, GiveUp, Finish, FollowInv
    <2>2. CASE Poll \/ LastRead
        BY <2>2 DEF Poll, LastRead, Read, GiveUp, Finish
    <2>3. CASE LateRead
        BY <2>3 DEF LateRead, GiveUp, Finish
    <2>4. CASE Submit \/ PostAnswered \/ PostFails \/ Wait \/ Cancel
        BY <2>4 DEF Submit, PostAnswered, PostFails, Wait, Cancel, GiveUp
    <2>5. QED
        BY <2>1, <2>2, <2>3, <2>4 DEF Client
<1>7. QED
    BY <1>1, <1>4, <1>5, <1>6

\* Sending a real order keeps its promise: one order at most, and a result that
\* is IOL's final state or "unknown".
THEOREM PromiseKept == Spec => KeepsPromise
<1>1. Init => Promise!Init
    BY DEF Init, Promise!Init, Working, Promise!Working
<1>2. TrackInv /\ [Next]_vars => [Promise!Next]_<<orders, result>>
    <2>. SUFFICES ASSUME TrackInv, [Next]_vars PROVE [Promise!Next]_<<orders, result>>
        OBVIOUS
    <2>1. CASE Client
        BY <2>1, ResultIsFinal DEF Promise!Next
    <2>2. CASE Arrive
        <3>1. orders = <<>> /\ UNCHANGED result
            BY <2>2 DEF TrackInv, TypeOK, HistoryInv, Arrive
        <3>2. orders' \in {<<Placed>>, <<Refused>>}
            BY <2>2, <3>1 DEF Arrive
        <3>3. Promise!Place
            BY <3>1, <3>2 DEF Promise!Place, Placed, Promise!Placed, Refused, Promise!Refused
        <3>4. QED
            BY <3>3 DEF Promise!Next
    <2>3. CASE Progress
        <3>1. PICK e \in Executions : orders = <<e>>
            BY <2>3 DEF TrackInv, TypeOK, Progress
        <3>2. PICK next \in Successors(e) : orders' = <<next>>
            BY <2>3, <3>1 DEF Progress
        <3>3. next \in Promise!Successors(e)
            BY <3>2 DEF Successors, Promise!Successors, Terminal, Promise!Terminal, FilledUpTo,
               Promise!FilledUpTo, Refused, Promise!Refused
        <3>4. Promise!Progress
            BY <2>3, <3>1, <3>2, <3>3 DEF Progress, Promise!Progress
        <3>5. QED
            BY <3>4 DEF Promise!Next
    <2>4. CASE Lose \/ Expire \/ Finished \/ UNCHANGED vars
        BY <2>4 DEF Lose, Expire, Finished
    <2>5. QED
        BY <2>1, <2>2, <2>3, <2>4 DEF Next, IOL
<1>3. QED
    BY <1>1, <1>2, TrackingInvariant, PTL DEF Spec, KeepsPromise, Promise!Safety
=============================================================================
