----------------------- MODULE OrderRecoveryProperties -----------------------
(* What survives a crash or a power loss, and what the repository says of it. *)
EXTENDS OrderRecovery

OrderIds == [n : Nat, t : Nat, side : {"Buy", "Sell", "none"}]
Positions == [op : OrderIds, contracts : Nat]

\* Types of the state.
TypeOK ==
    /\ route \in Routes /\ failure \in Failures
    /\ synced \in 1..Len(journal)
    /\ snapshot \in [seq : Nat, position : Positions, trades : Nat, counter : Nat, halted : BOOLEAN]
    /\ position \in Positions /\ trades \in Nat /\ counter \in Nat
    /\ halted \in BOOLEAN /\ blocked \in BOOLEAN /\ pending \subseteq OrderIds
    /\ current.op \in OrderIds /\ current.request \in Requests \cup {0}
    /\ now \in 1..MaxRuns /\ unsaved \in 0..Len(journal)

\* Unless the power failed, every trade closed is counted, and once, however often
\* its event is there to be replayed (record_close, apply_recovery_event).
TradesAreCountedOnce ==
    failure # "PowerLoss" =>
        trades = Cardinality({i \in DOMAIN journal : journal[i].kind = "Closed"})

\* Write-ahead: no crash and no power loss can leave an order at IOL, or on its
\* way there, that the journal does not know (record_order_intent).
OrdersAreJournaled ==
    \A o \in wire \cup orders :
        \E i \in 1..synced : journal[i].kind = "Intent" /\ journal[i].op = o.op

InFlight == wire \cup {o \in orders : o.status = "Open"}

\* An id sent again before the journal settled its last attempt: a position's
\* sale, after a live restart that left it pending.
ResentInDoubt(op) ==
    \E i, j \in DOMAIN journal :
        /\ i < j
        /\ \A k \in {i, j} : journal[k].kind = "Intent" /\ journal[k].op = op
        /\ \A k \in i..j : ~(journal[k].op = op /\ journal[k].status \in Settled)

\* After a restart the program knows, as pending, every order that may still
\* change the account and every partial fill it could not book
\* (unresolved_local_orders), but for ids sent again in doubt.
LooseEndsAreKnown ==
    pc \in {"starting", "idle"} =>
        \A o \in InFlight \cup {p \in orders : p.status = "Partial"} :
            o.op \in pending \/ ResentInDoubt(o.op)

\* When the account was looked at and no local order is pending, the engine
\* holds what the account holds, whatever was lost before
\* (apply_account_snapshot after apply_recovery_event), but for ids sent again
\* in doubt.
SettledStateMatchesAccount ==
    Real /\ pc = "idle" /\ ~blocked /\ pending = {} =>
        \/ position.contracts = Holding
        \/ \E o \in orders : ResentInDoubt(o.op)

\* A restart after crashes of the process finds the position and the day's
\* trades where the program left them (snapshot, apply_recovery_event).
RecoveryRestoresState == [][failure # "PowerLoss" /\ Restart => UNCHANGED book]_vars

-----------------------------------------------------------------------------
(* What the repository says and the code does not keep.                    *)

\* docs/ALGORITMO.md, section 11: the snapshot is loaded and the later events
\* are replayed: none of those written since falls before its sequence.
LaterEventsAreReplayed == unsaved = Len(EventsAfter(snapshot.seq))

\* docs/ALGORITMO.md, section 8.2: a rejection, or a cancellation without fills,
\* frees the sale; the program can go on selling and start again.
JournalReplays == pc # "aborted"

\* docs/ALGORITMO.md, section 8.2: an order whose result could have touched real
\* money is never sent again by the program.
UnknownOrderIsNotResent ==
    \A op \in {o.op : o \in InFlight} : Cardinality({o \in InFlight : o.op = op}) = 1
=============================================================================
