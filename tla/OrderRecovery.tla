---------------------------- MODULE OrderRecovery ----------------------------
(***************************************************************************)
(* Orders, the journal, the snapshot and the restart after a crash: what   *)
(* execute_order and the booking of fills write (src/src/app.rs,           *)
(* src/src/persistence.rs), what new_with_source reads back, and the       *)
(* reconciliation with the account at IOL.                                 *)
(*                                                                         *)
(* The journal is a sequence of events; events after `synced` are lost     *)
(* with the power, not with the process.  The snapshot is durable once     *)
(* saved.  An order id is [n, t, side]: the operation counter, the         *)
(* timestamp of the market frame, and the "-close" suffix of a sale.       *)
(* Tracking is taken from its promise (OrderPromise): a final state of     *)
(* the order at IOL, or doubt.                                             *)
(***************************************************************************)
EXTENDS Integers, Sequences, FiniteSets, SequencesExt

CONSTANTS
    Routes,         \* "Real" (Canary/Live) and/or "Paper" (readonly)
    Failures,       \* what may strike, one kind in a behaviour: "Crash" (of the
                    \* process), "PowerLoss" or "None"
    Requests,       \* what else tells two requests apart: the prices
    MaxIntents,     \* bound: orders sent
    MaxRuns         \* bound: starts of the program

ASSUME RecoveryAssumption ==
    /\ Routes \subseteq {"Real", "Paper"} /\ Failures \subseteq {"Crash", "PowerLoss", "None"}
    /\ MaxIntents \in Nat /\ MaxRuns \in Nat \ {0}

VARIABLES
    route, failure,
    journal, synced,    \* the events, and how many are safe from a power loss
    snapshot,           \* state.json: [seq, position, trades, counter, halted]
    position,           \* engine and portfolio: NoPosition or [op, contracts]
    trades,             \* risk.state.trades
    halted,             \* the operational kill switch: no more buys
    counter,            \* operation_counter
    pending,            \* local_pending_orders
    blocked,            \* reconciliation_blocked
    current,            \* the order being executed: [op, request, number, contracts]
    pc,
    now,                \* timestamp of this run's market frames: the run's number
    wire, orders,       \* at IOL (external): POSTs on their way, orders received
    unsaved             \* history: events appended since the last snapshot

disk == <<journal, synced, snapshot, unsaved>>
book == <<position, trades>>
alarm == <<halted, pending, blocked>>
memory == <<book, alarm, counter, current, pc, now>>
iol == <<wire, orders>>
setting == <<route, failure>>
vars == <<setting, disk, memory, iol>>

Full == 2               \* contracts a buy asks for; 1 is a partial fill
NoOp == [n |-> 0, t |-> 0, side |-> "none"]
NoPosition == [op |-> NoOp, contracts |-> 0]
NoOrder == [op |-> NoOp, request |-> 0, number |-> 0, contracts |-> 0]
Real == route = "Real"

\* The broker's verdicts on an order: "Unfilled" is a rejection or a cancellation
\* without fills, "Partial" a cancellation after a fill.
Final == {"Executed", "Unfilled", "Partial"}
Settled == {"Executed", "Unfilled"}

-----------------------------------------------------------------------------
(* Journal events.                                                         *)

Event(kind) == [kind |-> kind, op |-> NoOp, request |-> 0, number |-> 0, status |-> "none",
                contracts |-> 0]
IntentCreated(o) == [Event("Intent") EXCEPT !.op = o.op, !.request = o.request]
\* OrderAccepted and OrderUpdated; number is IOL's.
OrderState(o, status) ==
    [Event("State") EXCEPT !.op = o.op, !.number = o.number, !.status = status]
OrderUnknown(o) == [Event("Unknown") EXCEPT !.op = o.op, !.request = o.request]
PartialFillExposure(o) == [Event("Exposure") EXCEPT !.op = o.op]
PositionOpened(op, contracts) == [Event("Opened") EXCEPT !.op = op, !.contracts = contracts]
PositionClosed(op) == [Event("Closed") EXCEPT !.op = op]
OrderEvents == {"Intent", "State", "Unknown", "Exposure"}

Write(events) ==
    /\ journal' = journal \o events
    /\ unsaved' = unsaved + Len(events)
\* journal.sync: everything written is safe, earlier events included.
WriteSynced(events) == Write(events) /\ synced' = Len(journal')

\* snapshot()
Snapshot == [seq |-> Len(journal), position |-> position, trades |-> trades,
             counter |-> counter, halted |-> halted]

-----------------------------------------------------------------------------
(* Recovery: unresolved_local_orders and apply_recovery_event.             *)

\* The journal contradicts itself: of one order id, an intent that changed,
\* another number at IOL, or something after the final state.
Contradicts(events) ==
    \E i, j \in DOMAIN events :
        /\ i < j /\ events[i].op = events[j].op
        /\ \/ /\ events[i].kind = "Intent" /\ events[j].kind = "Intent"
              /\ events[i].request # events[j].request
           \/ /\ events[i].kind = "State" /\ events[j].kind = "State"
              /\ \/ events[i].number # events[j].number
                 \/ events[i].status \in Final /\ events[i].status # events[j].status
           \/ /\ events[i].kind = "State" /\ events[i].status \in Final
              /\ events[j].kind = "Unknown"

\* Mutant: any cancellation settles an order.
UnresolvedSomewhat(events) ==
    {events[i].op : i \in
        {k \in DOMAIN events :
            /\ events[k].kind \in OrderEvents \ {"Exposure"}
            /\ ~(events[k].kind = "State" /\ events[k].status \in Final)
            /\ \A j \in DOMAIN events :
                j > k /\ events[j].kind \in OrderEvents \ {"Exposure"} => events[j].op # events[k].op}}

\* An order is unresolved unless the last word on it is a settled state.
Unresolved(events) ==
    {events[i].op : i \in
        {k \in DOMAIN events :
            /\ events[k].kind \in OrderEvents
            /\ ~(events[k].kind = "State" /\ events[k].status \in Settled)
            /\ \A j \in DOMAIN events :
                j > k /\ events[j].kind \in OrderEvents => events[j].op # events[k].op}}

\* Mutant: closes are not replayed.
ApplyOpens(state, event) ==
    IF event.kind = "Opened" /\ state.position = NoPosition
    THEN [state EXCEPT !.position = [op |-> event.op, contracts |-> event.contracts]]
    ELSE state

\* apply_recovery_event over [position, trades, ok].
Apply(state, event) ==
    CASE event.kind = "Opened" ->
            IF state.position = NoPosition
            THEN [state EXCEPT !.position = [op |-> event.op, contracts |-> event.contracts]]
            ELSE [state EXCEPT !.ok = @ /\ state.position.op = event.op]
      [] event.kind = "Closed" /\ state.position # NoPosition ->
            IF state.position.op = event.op
            THEN [state EXCEPT !.position = NoPosition, !.trades = @ + 1]
            ELSE [state EXCEPT !.ok = FALSE]
      [] OTHER -> state

\* Mutant: the events the snapshot holds are replayed too.
EventsFromStart(seq) == journal

\* events_after(seq)
EventsAfter(seq) == SubSeq(journal, seq + 1, Len(journal))
Recovered ==
    FoldLeft(Apply, [position |-> snapshot.position, trades |-> snapshot.trades, ok |-> TRUE],
             EventsAfter(snapshot.seq))

-----------------------------------------------------------------------------
(* IOL (external).                                                         *)

\* What the account holds: contracts bought less contracts sold.
FilledContracts(o) ==
    CASE o.status = "Executed" -> o.contracts [] o.status = "Partial" -> 1 [] OTHER -> 0
ContractsOf(side) ==
    MapThenSumSet(FilledContracts, {o \in orders : o.op.side = side})
Holding == ContractsOf("Buy") - ContractsOf("Sell")

\* A lost order is one that never arrives.  IOL numbers every order it gets,
\* those it refuses too.
Arrive ==
    \E o \in wire :
        /\ wire' = wire \ {o}
        /\ orders' = orders \cup {[op |-> o.op, number |-> o.number, contracts |-> o.contracts,
                                  status |-> "Open"]}
        /\ UNCHANGED <<disk, memory, setting>>

\* IOL does not sell what is not there.
Decide ==
    \E o \in orders, status \in Final :
        /\ o.status = "Open"
        /\ status = "Partial" => o.contracts > 1
        /\ o.op.side = "Sell" /\ status \in {"Executed", "Partial"} => Holding >= o.contracts
        /\ orders' = (orders \ {o}) \cup {[o EXCEPT !.status = status]}
        /\ UNCHANGED <<wire, disk, memory, setting>>

\* Mutant: an unknown position of the account is none of our business.
AgreesWhenFlat ==
    /\ \A o \in orders : o.status # "Open"
    /\ position = NoPosition \/ position.contracts = Holding

\* apply_account_snapshot: no pending order, and the same position or none.
AccountAgrees ==
    /\ \A o \in orders : o.status # "Open"
    /\ position.contracts = Holding

-----------------------------------------------------------------------------
(* Orders: execute_order.                                                  *)

Init ==
    /\ route \in Routes /\ failure \in Failures
    /\ journal = <<Event("Other")>> /\ synced = 1
    /\ position = NoPosition /\ trades = 0 /\ counter = 0
    /\ halted = FALSE /\ pending = {} /\ blocked = FALSE
    /\ snapshot = Snapshot
    /\ current = NoOrder /\ pc = "idle" /\ now = 1
    /\ wire = {} /\ orders = {} /\ unsaved = 0

\* Bound: orders sent.
MayOrder == Cardinality({i \in DOMAIN journal : journal[i].kind = "Intent"}) < MaxIntents

\* record_order_intent.
Order(op, contracts) ==
    /\ pc = "idle" /\ ~blocked /\ MayOrder
    /\ \E request \in Requests :
        current' = [op |-> op, request |-> request, number |-> Len(journal) + 1,
                    contracts |-> contracts]
    /\ Write(<<IntentCreated(current')>>)
    /\ pc' = "intent"
    /\ UNCHANGED <<synced, snapshot, book, alarm, now, iol, setting>>

\* A real entry looks at the account first.
Buy ==
    /\ position = NoPosition /\ ~halted
    /\ Real => AccountAgrees
    /\ counter' = counter + 1
    /\ Order([n |-> counter', t |-> now, side |-> "Buy"], Full)

\* A sale's id is fixed by its position.
Sell ==
    /\ position # NoPosition
    /\ Order([position.op EXCEPT !.side = "Sell"], position.contracts)
    /\ UNCHANGED counter

\* Mutant: the POST does not wait for the disk.
SendUnsynced ==
    /\ pc = "intent" /\ Real
    /\ wire' = wire \cup {current}
    /\ pc' = "sent"
    /\ UNCHANGED <<disk, book, alarm, counter, current, now, orders, setting>>

\* The intent is synced; the POST leaves.
Send ==
    /\ pc = "intent" /\ Real
    /\ synced' = Len(journal)
    /\ wire' = wire \cup {current}
    /\ pc' = "sent"
    /\ UNCHANGED <<journal, snapshot, unsaved, book, alarm, counter, current, now, orders, setting>>

\* The simulated broker decides at once; nothing is synced.  Its slippage either
\* rejects every buy or fills every order.
Simulate ==
    /\ pc = "intent" /\ ~Real
    /\ pc' \in IF current.op.side = "Buy" THEN {"Executed", "Unfilled"} ELSE {"Executed"}
    /\ Write(<<OrderState(current, pc')>>)
    /\ UNCHANGED <<synced, snapshot, book, alarm, counter, current, now, iol, setting>>

\* record_order_accepted: IOL answered the POST.
Accept ==
    /\ pc = "sent"
    /\ \E o \in orders :
        /\ o.number = current.number
        /\ WriteSynced(<<OrderState(current, o.status)>>)
    /\ pc' = "tracking"
    /\ UNCHANGED <<snapshot, book, alarm, counter, current, now, iol, setting>>

\* record_order_terminal: tracking ended with the order's final state.
Settle ==
    /\ pc = "tracking"
    /\ \E o \in orders :
        /\ o.number = current.number /\ o.status \in Final
        /\ WriteSynced(<<OrderState(current, o.status)>>)
        /\ pc' = o.status
    /\ UNCHANGED <<snapshot, book, alarm, counter, current, now, iol, setting>>

\* The current order needs an eye on the account.
Alarm == pending' = pending \cup {current.op} /\ blocked' = TRUE /\ halted' = TRUE

\* record_unknown_order: the POST, or the tracking of an order that was not
\* final yet, failed.  The run ends.
Doubt ==
    /\ pc = "sent" \/ (pc = "tracking" /\ Last(journal).status \notin Final)
    /\ WriteSynced(<<OrderUnknown(current)>>)
    /\ Alarm
    /\ pc' = "failing"
    /\ UNCHANGED <<snapshot, book, counter, current, now, iol, setting>>

-----------------------------------------------------------------------------
(* Booking the result: evaluate_entry, close_position, handle_unfilled_order. *)

BookBuy ==
    /\ pc = "Executed" /\ current.op.side = "Buy"
    /\ Write(<<PositionOpened(current.op, current.contracts)>>)
    /\ position' = [op |-> current.op, contracts |-> current.contracts]
    /\ pc' = "ending" /\ current' = NoOrder
    /\ UNCHANGED <<synced, snapshot, trades, alarm, counter, now, iol, setting>>

\* A step may buy again after a sale, so it does not end here.
BookSale ==
    /\ pc = "Executed" /\ current.op.side = "Sell"
    /\ Write(<<PositionClosed(position.op)>>)
    /\ position' = NoPosition /\ trades' = trades + 1
    /\ pc' = "idle" /\ current' = NoOrder
    /\ UNCHANGED <<synced, snapshot, alarm, counter, now, iol, setting>>

Unfilled ==
    /\ pc = "Unfilled"
    /\ pc' = "ending" /\ current' = NoOrder
    /\ UNCHANGED <<disk, book, alarm, counter, now, iol, setting>>

PartlyFilled ==
    /\ pc = "Partial"
    /\ Write(<<PartialFillExposure(current)>>)
    /\ Alarm
    /\ pc' = "ending" /\ current' = NoOrder
    /\ UNCHANGED <<synced, snapshot, book, counter, now, iol, setting>>

\* The snapshot at the end of a step, or of the step after a manual close.
EndStep ==
    /\ pc = "ending" \/ (pc = "idle" /\ unsaved > 0)
    /\ snapshot' = Snapshot /\ unsaved' = 0
    /\ pc' = "idle"
    /\ UNCHANGED <<journal, synced, book, alarm, counter, current, now, iol, setting>>

\* Memory is gone; the position and the trades stay as history.
Down ==
    /\ pc' = "down"
    /\ halted' = FALSE /\ pending' = {} /\ blocked' = FALSE
    /\ counter' = 0 /\ current' = NoOrder
    /\ UNCHANGED <<book, now, iol, setting>>

\* shutdown_with_status: Shutdown is journaled, then the snapshot, then the sync.
Shutdown ==
    /\ pc \in {"idle", "failing"}
    /\ journal' = Append(journal, Event("Other"))
    /\ synced' = Len(journal')
    /\ snapshot' = [Snapshot EXCEPT !.seq = Len(journal')]
    /\ unsaved' = 0
    /\ Down

-----------------------------------------------------------------------------
(* Crashes and restarts.                                                   *)

Fall == pc \notin {"down", "aborted"} /\ UNCHANGED snapshot /\ Down

Crash == failure = "Crash" /\ Fall /\ UNCHANGED <<journal, synced, unsaved>>

PowerLoss ==
    /\ failure = "PowerLoss" /\ Fall
    /\ \E surviving \in synced..Len(journal) :
        /\ journal' = SubSeq(journal, 1, surviving)
        /\ synced' = surviving
        /\ unsaved' = Max({0, unsaved - (Len(journal) - surviving)})

\* new_with_source: the snapshot, the events after it, the unresolved orders.
\* The frames that follow are newer than those before.
Restart ==
    /\ pc = "down" /\ now < MaxRuns /\ Recovered.ok /\ ~Contradicts(journal)
    /\ position' = Recovered.position /\ trades' = Recovered.trades
    /\ counter' = snapshot.counter /\ halted' = snapshot.halted
    /\ pending' = Unresolved(journal) /\ blocked' = FALSE
    /\ Write(<<Event("Other")>>)
    /\ current' = NoOrder /\ now' = now + 1
    /\ pc' = "starting"
    /\ UNCHANGED <<synced, snapshot, iol, setting>>

RestartAborts ==
    /\ pc = "down" /\ (~Recovered.ok \/ Contradicts(journal))
    /\ pc' = "aborted"
    /\ UNCHANGED <<disk, book, alarm, counter, current, now, iol, setting>>

\* block_reconciliation: the step ends.
Block ==
    /\ Write(<<Event("Other")>>)
    /\ blocked' = TRUE /\ halted' = TRUE
    /\ pc' = "ending"
    /\ UNCHANGED book

\* reconcile_startup in readonly.
ReconcileReadonly ==
    /\ pc = "starting" /\ ~Real
    /\ \/ pending # {} /\ Block
       \/ pending = {} /\ pc' = "idle" /\ UNCHANGED <<book, halted, blocked, journal, unsaved>>
    /\ UNCHANGED <<synced, snapshot, counter, pending, current, now, iol, setting>>

\* Mutant: the sales count up and the purchases down.
AdoptInverted ==
    /\ position' = [op |-> [n |-> 0, t |-> now, side |-> "Buy"], contracts |-> 0 - Holding]
    /\ Write(<<PositionOpened(position'.op, 0 - Holding)>>)
    /\ halted' \in {halted, TRUE}
    /\ pc' = "idle"
    /\ UNCHANGED <<trades, blocked>>

\* reconstruct_account_position; too large a one stops the buys.
AdoptPosition ==
    /\ position' = [op |-> [n |-> 0, t |-> now, side |-> "Buy"], contracts |-> Holding]
    /\ Write(<<PositionOpened(position'.op, Holding)>>)
    /\ halted' \in {halted, TRUE}
    /\ pc' = "idle"
    /\ UNCHANGED <<trades, blocked>>

\* At the start, whatever is pending here, and once a minute after it.
ReconcileAccount ==
    /\ Real /\ (pc = "starting" \/ (pc = "idle" /\ ~blocked))
    /\ \/ AccountAgrees /\ pc' = "idle" /\ UNCHANGED <<book, halted, blocked, journal, unsaved>>
       \/ /\ ~AccountAgrees /\ position = NoPosition /\ \A o \in orders : o.status # "Open"
          /\ AdoptPosition
       \/ ~AccountAgrees /\ (position # NoPosition \/ \E o \in orders : o.status = "Open") /\ Block
    /\ UNCHANGED <<synced, snapshot, counter, pending, current, now, iol, setting>>

-----------------------------------------------------------------------------
Execute == Buy \/ Sell \/ Send \/ Simulate \/ Accept \/ Settle \/ Doubt
Book == BookBuy \/ BookSale \/ Unfilled \/ PartlyFilled \/ EndStep
Reconcile == ReconcileReadonly \/ ReconcileAccount
Fail == Crash \/ PowerLoss
IOL == Arrive \/ Decide

Next == Execute \/ Book \/ Shutdown \/ Reconcile \/ Fail \/ Restart \/ RestartAborts \/ IOL

Spec == Init /\ [][Next]_vars
=============================================================================
