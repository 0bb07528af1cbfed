-------------------------- MODULE OrderRecoveryProofs --------------------------
(***************************************************************************)
(* Orders, journal, snapshot and account, for any number of orders,        *)
(* requests, trades and starts: no order is at IOL, or on its way there,   *)
(* without its intent in the journal a crash leaves; what may still change *)
(* the account is known; a restart gives back position and trades; each    *)
(* close is one trade; and a settled engine holds what the account holds.  *)
(***************************************************************************)
EXTENDS OrderRecoveryProperties, FoldFacts, TLAPS

IntentIn(op, last) == \E i \in 1..last : journal[i].kind = "Intent" /\ journal[i].op = op

\* What is safe is part of the journal, and so is the intent of the order in
\* hand before it is sent.
JournalInv ==
    /\ \E S : journal \in Seq(S)
    /\ synced \in Nat /\ synced <= Len(journal)
    /\ pc = "intent" => IntentIn(current.op, Len(journal))

WriteAhead == JournalInv /\ OrdersAreJournaled

\* The journal goes on: what was in it still is, at its place.
GoesOn ==
    /\ \E S : journal' \in Seq(S)
    /\ Len(journal') >= Len(journal)
    /\ \A i \in 1..Len(journal) : journal'[i] = journal[i]

-----------------------------------------------------------------------------

LEMMA AppendGoesOn ==
    ASSUME NEW S, NEW s \in Seq(S), NEW e
    PROVE  /\ \E T : Append(s, e) \in Seq(T)
           /\ Len(Append(s, e)) = Len(s) + 1
           /\ \A i \in 1..Len(s) : Append(s, e)[i] = s[i]
           /\ Append(s, e)[Len(s) + 1] = e
  <1> DEFINE T == S \cup {e}
  <1>1. s \in Seq(T)  OBVIOUS
  <1>2. e \in T  OBVIOUS
  <1>3. Append(s, e) \in Seq(T)  BY <1>1, <1>2
  <1> QED  BY <1>1, <1>2, <1>3

LEMMA WriteOne ==
    ASSUME NEW S, NEW s \in Seq(S), NEW e
    PROVE  s \o <<e>> = Append(s, e)
  <1> DEFINE T == S \cup {e}
  <1>1. s \in Seq(T) /\ e \in T  OBVIOUS
  <1> HIDE DEF T
  <1> QED  BY <1>1

LEMMA WriteGoesOn ==
    ASSUME JournalInv, NEW e, journal' = journal \o <<e>>
    PROVE  GoesOn /\ Len(journal') = Len(journal) + 1 /\ journal'[Len(journal) + 1] = e
  <1>1. PICK S : journal \in Seq(S)  BY DEF JournalInv
  <1>2. journal' = Append(journal, e)  BY <1>1, WriteOne
  <1>3. Len(journal) \in Nat  BY <1>1
  <1>4. /\ \E T : Append(journal, e) \in Seq(T)
        /\ Len(Append(journal, e)) = Len(journal) + 1
        /\ \A i \in 1..Len(journal) : Append(journal, e)[i] = journal[i]
        /\ Append(journal, e)[Len(journal) + 1] = e
    BY <1>1, AppendGoesOn
  <1> QED  BY <1>2, <1>3, <1>4 DEF GoesOn

LEMMA SameGoesOn == ASSUME JournalInv, journal' = journal PROVE GoesOn
  BY DEF JournalInv, GoesOn

\* A step that sends nothing new and loses nothing of the journal keeps the rule.
LEMMA Kept ==
    ASSUME WriteAhead, GoesOn, synced' \in {synced, Len(journal')},
           \A o \in (wire \cup orders)' : \E p \in wire \cup orders : p.op = o.op,
           pc' = "intent" => IntentIn(current.op, Len(journal))'
    PROVE  WriteAhead'
  <1>1. /\ Len(journal) \in Nat /\ Len(journal') \in Nat
        /\ synced \in Nat /\ synced <= Len(journal) /\ Len(journal) <= Len(journal')
    BY DEF WriteAhead, JournalInv, GoesOn
  <1>2. JournalInv'  BY <1>1 DEF JournalInv, GoesOn
  <1>3. synced <= synced' /\ synced' \in Nat  BY <1>1
  <1>4. OrdersAreJournaled'
    <2> SUFFICES ASSUME NEW o \in (wire \cup orders)'
                 PROVE  \E i \in 1..synced' : journal'[i].kind = "Intent" /\ journal'[i].op = o.op
      BY DEF OrdersAreJournaled
    <2>1. PICK p \in wire \cup orders : p.op = o.op  OBVIOUS
    <2>2. PICK i \in 1..synced : journal[i].kind = "Intent" /\ journal[i].op = p.op
      BY DEF WriteAhead, OrdersAreJournaled
    <2>3. i \in 1..synced' /\ journal'[i] = journal[i]  BY <1>1, <1>3, <2>2 DEF GoesOn
    <2> QED  BY <2>1, <2>2, <2>3
  <1> QED  BY <1>2, <1>4 DEF WriteAhead

\* The same, of a step that leaves the orders at IOL alone.
LEMMA Quiet ==
    ASSUME WriteAhead, UNCHANGED iol, pc' # "intent", synced' \in {synced, Len(journal')},
           \/ UNCHANGED journal
           \/ \E e : journal' = journal \o <<e>>
    PROVE  WriteAhead'
  <1>1. GoesOn  BY SameGoesOn, WriteGoesOn DEF WriteAhead
  <1>2. \A o \in (wire \cup orders)' : \E p \in wire \cup orders : p.op = o.op  BY DEF iol
  <1> QED  BY <1>1, <1>2, Kept

LEMMA RuleStarts == Init => WriteAhead
  <1> SUFFICES ASSUME Init PROVE WriteAhead  OBVIOUS
  <1>1. journal = <<Event("Other")>> /\ synced = 1 /\ pc = "idle" /\ wire = {} /\ orders = {}
    BY DEF Init
  <1>2. journal \in Seq({Event("Other")}) /\ Len(journal) = 1  BY <1>1
  <1>3. \E S : journal \in Seq(S)  BY <1>2, Zenon
  <1> QED  BY <1>1, <1>2, <1>3 DEF WriteAhead, JournalInv, OrdersAreJournaled

\* An order enters the journal before anything else.
LEMMA OrderKeeps == ASSUME WriteAhead, NEW op, NEW n, Order(op, n) PROVE WriteAhead'
  <1>1. /\ journal' = journal \o <<IntentCreated(current')>>
        /\ synced' = synced /\ UNCHANGED iol /\ pc' = "intent"
    BY DEF Order, Write
  <1>2. GoesOn /\ Len(journal') = Len(journal) + 1
        /\ journal'[Len(journal) + 1] = IntentCreated(current')
    BY <1>1, WriteGoesOn DEF WriteAhead
  <1>3. IntentCreated(current').kind = "Intent" /\ IntentCreated(current').op = current'.op
    BY DEF IntentCreated, Event
  <1>4. Len(journal) \in Nat  BY DEF WriteAhead, JournalInv
  <1>5. IntentIn(current.op, Len(journal))'
    BY <1>2, <1>3, <1>4 DEF IntentIn
  <1>6. \A o \in (wire \cup orders)' : \E p \in wire \cup orders : p.op = o.op  BY <1>1 DEF iol
  <1> QED  BY <1>1, <1>2, <1>5, <1>6, Kept

\* Its POST waits for the disk.
LEMMA SendKeeps == ASSUME WriteAhead, Send PROVE WriteAhead'
  <1>1. /\ pc = "intent" /\ pc' = "sent" /\ journal' = journal /\ synced' = Len(journal)
        /\ wire' = wire \cup {current} /\ orders' = orders
    BY DEF Send
  <1>2. /\ JournalInv /\ Len(journal) \in Nat /\ synced \in Nat /\ synced <= Len(journal)
    BY DEF WriteAhead, JournalInv
  <1>3. JournalInv'  BY <1>1, <1>2 DEF JournalInv
  <1>4. IntentIn(current.op, Len(journal))  BY <1>1, <1>2 DEF JournalInv
  <1>5. OrdersAreJournaled'
    <2> SUFFICES ASSUME NEW o \in wire \cup orders \cup {current}
                 PROVE  IntentIn(o.op, Len(journal))
      BY <1>1 DEF OrdersAreJournaled, IntentIn
    <2>1. CASE o \in wire \cup orders
      BY <1>2, <2>1 DEF WriteAhead, OrdersAreJournaled, IntentIn
    <2> QED  BY <1>4, <2>1
  <1> QED  BY <1>3, <1>5 DEF WriteAhead

\* IOL may receive and decide, not invent.
LEMMA IOLKeeps == ASSUME WriteAhead, IOL PROVE WriteAhead'
  <1>1. journal' = journal /\ synced' = synced /\ pc' = pc /\ current' = current
    BY DEF IOL, Arrive, Decide, disk, memory
  <1>2. \A o \in (wire \cup orders)' : \E p \in wire \cup orders : p.op = o.op
    <2>1. CASE Arrive
      <3>1. PICK q \in wire :
                /\ wire' = wire \ {q}
                /\ orders' = orders \cup {[op |-> q.op, number |-> q.number,
                                          contracts |-> q.contracts, status |-> "Open"]}
        BY <2>1 DEF Arrive
      <3> QED  BY <3>1
    <2>2. CASE Decide
      <3>1. PICK q \in orders, status \in Final :
                wire' = wire /\ orders' = (orders \ {q}) \cup {[q EXCEPT !.status = status]}
        BY <2>2 DEF Decide
      <3>2. [q EXCEPT !.status = status].op = q.op  OBVIOUS
      <3> QED  BY <3>1, <3>2
    <2> QED  BY <2>1, <2>2 DEF IOL
  <1>3. GoesOn  BY <1>1, SameGoesOn DEF WriteAhead
  <1>4. pc' = "intent" => IntentIn(current.op, Len(journal))'
    BY <1>1 DEF WriteAhead, JournalInv, IntentIn
  <1> QED  BY <1>1, <1>2, <1>3, <1>4, Kept

\* The power takes what is not safe, and no intent of an order sent.
LEMMA PowerLossKeeps == ASSUME WriteAhead, PowerLoss PROVE WriteAhead'
  <1>1. PICK surviving \in synced..Len(journal) :
            journal' = SubSeq(journal, 1, surviving) /\ synced' = surviving
    BY DEF PowerLoss
  <1>2. pc' = "down" /\ UNCHANGED iol  BY DEF PowerLoss, Fall, Down
  <1>3. PICK S : journal \in Seq(S)  BY DEF WriteAhead, JournalInv
  <1>4. /\ synced \in Nat /\ surviving \in Nat /\ surviving <= Len(journal) /\ synced <= surviving
    BY <1>1, <1>3 DEF WriteAhead, JournalInv
  <1>5. /\ journal' \in Seq(S) /\ Len(journal') = surviving
        /\ \A i \in 1..surviving : journal'[i] = journal[i]
    BY <1>1, <1>3, <1>4
  <1>6. JournalInv'
    <2>1. \E T : journal' \in Seq(T)  BY <1>5, Zenon
    <2> QED  BY <1>1, <1>2, <1>4, <1>5, <2>1 DEF JournalInv
  <1>7. OrdersAreJournaled'
    BY <1>1, <1>2, <1>4, <1>5 DEF WriteAhead, OrdersAreJournaled, iol
  <1> QED  BY <1>6, <1>7 DEF WriteAhead

LEMMA WriteAheadStep == ASSUME WriteAhead, [Next]_vars PROVE WriteAhead'
  <1>1. CASE Buy  BY <1>1, OrderKeeps DEF Buy
  <1>2. CASE Sell  BY <1>2, OrderKeeps DEF Sell
  <1>3. CASE Send  BY <1>3, SendKeeps
  <1>4. CASE Simulate \/ Accept \/ Settle \/ Doubt
    <2>1. /\ UNCHANGED iol /\ synced' \in {synced, Len(journal')}
          /\ \E e : journal' = journal \o <<e>>
      BY <1>4, Zenon DEF Simulate, Accept, Settle, Doubt, Write, WriteSynced, iol
    <2>2. pc' # "intent"
      BY <1>4 DEF Simulate, Accept, Settle, Doubt, Final
    <2> QED  BY <2>1, <2>2, Quiet
  <1>5. CASE Book
    BY <1>5, Quiet
    DEF Book, BookBuy, BookSale, Unfilled, PartlyFilled, EndStep, Write, disk, Alarm
  <1>6. CASE Shutdown
    <2>1. PICK S : journal \in Seq(S)  BY DEF WriteAhead, JournalInv
    <2>2. /\ journal' = Append(journal, Event("Other")) /\ synced' = Len(journal')
          /\ pc' = "down" /\ UNCHANGED iol
      BY <1>6 DEF Shutdown, Down
    <2>3. journal' = journal \o <<Event("Other")>>  BY <2>1, <2>2, WriteOne
    <2> QED  BY <2>2, <2>3, Quiet
  <1>7. CASE Reconcile
    BY <1>7, Quiet DEF Reconcile, ReconcileReadonly, ReconcileAccount, AdoptPosition, Block, Write
  <1>8. CASE Crash  BY <1>8, Quiet DEF Crash, Fall, Down
  <1>9. CASE PowerLoss  BY <1>9, PowerLossKeeps
  <1>10. CASE Restart  BY <1>10, Quiet DEF Restart, Write
  <1>11. CASE RestartAborts  BY <1>11, Quiet DEF RestartAborts, disk
  <1>12. CASE IOL  BY <1>12, IOLKeeps
  <1>13. CASE UNCHANGED vars
    BY <1>13 DEF vars, disk, memory, iol, WriteAhead, JournalInv, IntentIn, OrdersAreJournaled
  <1> QED
    BY <1>1, <1>2, <1>3, <1>4, <1>5, <1>6, <1>7, <1>8, <1>9, <1>10, <1>11, <1>12, <1>13
    DEF Next, Execute, Fail

\* record_order_intent syncs before submit_order sends: whatever crash or power
\* loss follows, the journal knows every order that may be at IOL.
THEOREM WriteAheadHolds == Spec => []OrdersAreJournaled
  <1>1. WriteAhead /\ [Next]_vars => WriteAhead'  BY WriteAheadStep
  <1> QED  BY RuleStarts, <1>1, PTL DEF Spec, WriteAhead
-----------------------------------------------------------------------------
(* What a restart knows of the orders that may still change the account.    *)

At(i, kind, op) == journal[i].kind = kind /\ journal[i].op = op

\* IOL knows an order by the place of its intent in the journal; only a real
\* one gets there.
Numbered ==
    /\ \A o \in wire \cup orders : o.number \in 1..Len(journal) /\ At(o.number, "Intent", o.op)
    /\ \A o, p \in wire : o.number = p.number => o = p
    /\ \A o, p \in orders : o.number = p.number => o = p
    /\ \A o \in wire, p \in orders : o.number # p.number
    /\ ~Real => wire \cup orders = {}

\* The order in hand is the one whose intent was written last.
Hand == {"intent", "sent", "tracking", "Executed", "Unfilled", "Partial"}
InHand ==
    pc \in Hand =>
        /\ current.number \in 1..Len(journal) /\ At(current.number, "Intent", current.op)
        /\ \A j \in current.number + 1..Len(journal) : journal[j].kind # "Intent"
        /\ pc = "intent" =>
            /\ current.number = Len(journal)
            /\ \A o \in wire \cup orders : o.number # current.number

\* Event k is the settled end of the last attempt of its order before k.
Closes(k) ==
    /\ journal[k].kind = "State"
    /\ journal[k].number \in 1..k - 1
    /\ At(journal[k].number, "Intent", journal[k].op)
    /\ \A j \in journal[k].number + 1..k - 1 : ~At(j, "Intent", journal[k].op)
    /\ \A o \in wire : o.number # journal[k].number
    /\ \A o \in orders : o.number = journal[k].number => o.status \in Settled

SettledClosesLast == \A k \in 1..Len(journal) : journal[k].status \in Settled => Closes(k)

\* Orders that may still change the account, or did so in part.
Loose == InFlight \cup {p \in orders : p.status = "Partial"}

\* Between restarts, every one of them is pending, sent again in doubt, or the
\* order in hand.
Watched ==
    pc \notin {"down", "aborted"} =>
        \A o \in Loose :
            \/ o.op \in pending \/ ResentInDoubt(o.op)
            \/ pc \in {"sent", "tracking", "Partial"} /\ o.number = current.number

Traced == Numbered /\ InHand /\ SettledClosesLast /\ Watched

LEMMA JournalDomain ==
    ASSUME JournalInv PROVE Len(journal) \in Nat /\ DOMAIN journal = 1..Len(journal)
  BY DEF JournalInv

LEMMA AtStays ==
    ASSUME JournalInv, GoesOn, NEW i \in 1..Len(journal), NEW kind, NEW op
    PROVE  At(i, kind, op)' <=> At(i, kind, op)
  BY DEF GoesOn, At

\* An id sent again in doubt stays so as the journal grows.
LEMMA ResentStays ==
    ASSUME JournalInv, GoesOn, NEW op, ResentInDoubt(op)
    PROVE  ResentInDoubt(op)'
  <1>1. /\ Len(journal) \in Nat /\ DOMAIN journal = 1..Len(journal)
        /\ Len(journal') \in Nat /\ DOMAIN journal' = 1..Len(journal')
        /\ Len(journal) <= Len(journal')
    BY JournalDomain DEF GoesOn
  <1>2. PICK i, j \in DOMAIN journal :
            /\ i < j
            /\ \A k \in {i, j} : journal[k].kind = "Intent" /\ journal[k].op = op
            /\ \A k \in i..j : ~(journal[k].op = op /\ journal[k].status \in Settled)
    BY DEF ResentInDoubt
  <1>3. \A k \in i..j : k \in 1..Len(journal) /\ journal'[k] = journal[k]
    BY <1>1, <1>2 DEF GoesOn
  <1>4. i \in DOMAIN journal' /\ j \in DOMAIN journal'  BY <1>1, <1>2
  <1>5. i \in i..j /\ j \in i..j  BY <1>1, <1>2
  <1> QED  BY <1>2, <1>3, <1>4, <1>5 DEF ResentInDoubt

\* What the end of an attempt says stays true while the orders of that attempt
\* stay decided.
LEMMA ClosesStays ==
    ASSUME JournalInv, GoesOn, NEW k \in 1..Len(journal), Closes(k),
           \A o \in wire' : o.number # journal[k].number,
           \A o \in orders' : o.number = journal[k].number => o.status \in Settled
    PROVE  Closes(k)'
  <1>1. Len(journal) \in Nat /\ k \in Nat  BY JournalDomain
  <1>2. journal'[k] = journal[k]  BY DEF GoesOn
  <1>3. journal[k].number \in 1..k - 1 /\ 1..k - 1 \subseteq 1..Len(journal)
    BY <1>1 DEF Closes
  <1>4. \A j \in 1..k - 1 : journal'[j] = journal[j]  BY <1>3 DEF GoesOn
  <1>5. \A j \in journal[k].number + 1..k - 1 : j \in 1..k - 1  BY <1>3
  <1> QED  BY <1>2, <1>3, <1>4, <1>5 DEF Closes, At

\* An event that is neither an intent nor a settled state changes no order's
\* past.
LEMMA PastStays ==
    ASSUME JournalInv, Numbered, SettledClosesLast, UNCHANGED <<iol, setting>>, GoesOn,
           \A k \in Len(journal) + 1..Len(journal') : journal'[k].status \notin Settled
    PROVE  Numbered' /\ SettledClosesLast'
  <1>1. Len(journal) \in Nat /\ Len(journal') \in Nat /\ Len(journal) <= Len(journal')
    BY JournalDomain DEF GoesOn
  <1>2. wire' = wire /\ orders' = orders /\ Real' = Real  BY DEF iol, setting, Real
  <1>3. Numbered'
    BY <1>1, <1>2, AtStays DEF Numbered
  <1>4. ASSUME NEW k \in 1..Len(journal'), journal'[k].status \in Settled PROVE Closes(k)'
    <2>1. k \in 1..Len(journal)  BY <1>1, <1>4
    <2>2. Closes(k)  BY <1>4, <2>1 DEF SettledClosesLast, GoesOn
    <2> QED  BY <1>2, <2>1, <2>2, ClosesStays DEF Closes
  <1> QED  BY <1>3, <1>4 DEF SettledClosesLast

\* A step that ends the work on the order in hand, or has none, watches what was
\* watched.
LEMMA TracedQuiet ==
    ASSUME JournalInv, Traced, UNCHANGED <<iol, setting>>, pc' \notin Hand, GoesOn,
           \A k \in Len(journal) + 1..Len(journal') : journal'[k].status \notin Settled,
           \/ pc' \in {"down", "aborted"}
           \/ /\ pc \notin {"down", "aborted"} /\ pending \subseteq pending'
              /\ pc \in {"sent", "tracking", "Partial"} => current.op \in pending'
    PROVE  Traced'
  <1>1. Numbered' /\ SettledClosesLast'  BY PastStays DEF Traced
  <1>2. InHand'  BY DEF InHand
  <1>3. Watched'
    <2> SUFFICES ASSUME pc' \notin {"down", "aborted"}, NEW o \in Loose
                 PROVE  o.op \in pending' \/ ResentInDoubt(o.op)'
      BY DEF Watched, Loose, InFlight, iol
    <2>1. CASE o.op \in pending  BY <2>1
    <2>2. CASE ResentInDoubt(o.op)  BY <2>2, ResentStays
    <2>3. CASE pc \in {"sent", "tracking", "Partial"} /\ o.number = current.number
      <3>1. o \in wire \cup orders  BY DEF Loose, InFlight
      <3>2. o.op = current.op
        BY <2>3, <3>1 DEF Traced, Numbered, InHand, Hand, At
      <3> QED  BY <2>3, <3>2
    <2> QED  BY <2>1, <2>2, <2>3 DEF Traced, Watched
  <1> QED  BY <1>1, <1>2, <1>3 DEF Traced

LEMMA OrderTraces ==
    ASSUME JournalInv, Traced, NEW op, NEW n, Order(op, n) PROVE Traced'
  <1>1. /\ journal' = journal \o <<IntentCreated(current')>>
        /\ current'.number = Len(journal) + 1
        /\ UNCHANGED <<iol, setting, pending>> /\ pc = "idle" /\ pc' = "intent"
    BY DEF Order, Write, alarm
  <1>2. GoesOn /\ Len(journal') = Len(journal) + 1
        /\ journal'[Len(journal) + 1] = IntentCreated(current')
    BY <1>1, WriteGoesOn
  <1>3. /\ IntentCreated(current').kind = "Intent" /\ IntentCreated(current').op = current'.op
        /\ IntentCreated(current').status = "none"
    BY DEF IntentCreated, Event
  <1>4. Len(journal) \in Nat  BY JournalDomain
  <1>5. Numbered' /\ SettledClosesLast'
    <2>1. \A k \in Len(journal) + 1..Len(journal') : journal'[k].status \notin Settled
      BY <1>2, <1>3, <1>4 DEF Settled
    <2> QED  BY <1>1, <1>2, <2>1, PastStays DEF Traced
  <1>6. InHand'
    <2>1. \A o \in (wire \cup orders)' : o.number # Len(journal) + 1
      BY <1>1, <1>4 DEF Traced, Numbered, iol
    <2> QED  BY <1>1, <1>2, <1>3, <1>4, <2>1 DEF InHand, At
  <1>7. Watched'
    <2> SUFFICES ASSUME NEW o \in Loose PROVE o.op \in pending' \/ ResentInDoubt(o.op)'
      BY <1>1 DEF Watched, Loose, InFlight, iol
    <2> QED  BY <1>1, <1>2, ResentStays DEF Traced, Watched
  <1> QED  BY <1>5, <1>6, <1>7 DEF Traced

LEMMA SendTraces == ASSUME JournalInv, Traced, Send PROVE Traced'
  <1>1. /\ pc = "intent" /\ pc' = "sent" /\ Real /\ journal' = journal
        /\ wire' = wire \cup {current}
        /\ UNCHANGED <<orders, setting, pending, current>>
    BY DEF Send, alarm
  <1>2. GoesOn /\ Len(journal) \in Nat  BY <1>1, SameGoesOn, JournalDomain
  <1>3. /\ current.number = Len(journal) /\ current.number \in 1..Len(journal)
        /\ At(current.number, "Intent", current.op)
        /\ \A o \in wire \cup orders : o.number # current.number
    BY <1>1 DEF Traced, InHand, Hand
  <1>4. Numbered'
    BY <1>1, <1>3 DEF Traced, Numbered, At, Real, setting
  <1>5. InHand'
    BY <1>1 DEF Traced, InHand, Hand, At
  <1>6. SettledClosesLast'
    <2> SUFFICES ASSUME NEW k \in 1..Len(journal), journal[k].status \in Settled
                 PROVE  Closes(k)'
      BY <1>1 DEF SettledClosesLast
    <2>1. Closes(k)  BY DEF Traced, SettledClosesLast
    <2>2. journal[k].number # current.number  BY <1>2, <1>3, <2>1 DEF Closes
    <2> QED  BY <1>1, <1>2, <2>1, <2>2, ClosesStays DEF Closes
  <1>7. Watched'
    <2> SUFFICES ASSUME NEW o \in Loose'
                 PROVE  \/ o.op \in pending' \/ ResentInDoubt(o.op)'
                        \/ o.number = current.number
      BY <1>1 DEF Watched
    <2>1. CASE o \in Loose
      BY <1>1, <1>2, <2>1, ResentStays DEF Traced, Watched
    <2>2. CASE o \notin Loose
      BY <1>1, <2>2 DEF Loose, InFlight
    <2> QED  BY <2>1, <2>2
  <1> QED  BY <1>4, <1>5, <1>6, <1>7 DEF Traced

LEMMA SimulateTraces == ASSUME JournalInv, Traced, Simulate PROVE Traced'
  <1>1. /\ pc = "intent" /\ pc' \in {"Executed", "Unfilled"} /\ ~Real
        /\ journal' = journal \o <<OrderState(current, pc')>>
        /\ UNCHANGED <<iol, setting, current>>
    BY DEF Simulate, Write
  <1>2. GoesOn /\ Len(journal') = Len(journal) + 1
        /\ journal'[Len(journal) + 1] = OrderState(current, pc')
    BY <1>1, WriteGoesOn
  <1>3. /\ OrderState(current, pc').kind = "State" /\ OrderState(current, pc').op = current.op
        /\ OrderState(current, pc').number = current.number
    BY DEF OrderState, Event
  <1>4. Len(journal) \in Nat  BY JournalDomain
  <1>5. /\ current.number = Len(journal) /\ current.number \in 1..Len(journal)
        /\ At(current.number, "Intent", current.op)
    BY <1>1 DEF Traced, InHand, Hand
  <1>6. wire = {} /\ orders = {} /\ wire' = {} /\ orders' = {} /\ ~Real'
    BY <1>1 DEF Traced, Numbered, iol, setting, Real
  <1>7. Numbered' /\ Watched'  BY <1>6 DEF Numbered, Watched, Loose, InFlight
  <1>8. At(current.number, "Intent", current.op)'
    BY <1>1, <1>2, <1>5, AtStays DEF At
  <1>9. InHand'
    BY <1>1, <1>2, <1>3, <1>4, <1>5, <1>8 DEF InHand
  <1>10. SettledClosesLast'
    <2> SUFFICES ASSUME NEW k \in 1..Len(journal) + 1, journal'[k].status \in Settled
                 PROVE  Closes(k)'
      BY <1>2 DEF SettledClosesLast
    <2>1. CASE k \in 1..Len(journal)
      <3>1. Closes(k)  BY <1>2, <2>1 DEF Traced, SettledClosesLast, GoesOn
      <3> QED  BY <1>2, <1>6, <2>1, <3>1, ClosesStays
    <2>2. CASE k = Len(journal) + 1
      <3>1. journal'[k].kind = "State" /\ journal'[k].op = current.op
            /\ journal'[k].number = current.number
        BY <1>2, <1>3, <2>2
      <3>2. \A j \in current.number + 1..k - 1 : FALSE  BY <1>4, <1>5, <2>2
      <3> QED  BY <1>1, <1>4, <1>5, <1>6, <1>8, <2>2, <3>1, <3>2 DEF Closes
    <2> QED  BY <1>4, <2>1, <2>2
  <1> QED  BY <1>7, <1>9, <1>10 DEF Traced

\* What IOL says of the order in hand, its end included, is what IOL holds.
LEMMA ReportTraces ==
    ASSUME JournalInv, Traced, pc \in {"sent", "tracking"},
           NEW o \in orders, o.number = current.number,
           journal' = journal \o <<OrderState(current, o.status)>>,
           UNCHANGED <<iol, setting, current, pending>>,
           \/ pc' \in {"tracking", "Partial"}
           \/ pc' \in Settled /\ o.status \in Settled
    PROVE  Traced'
  <1>1. pc \in Hand /\ pc' \in Hand /\ pc' # "intent" /\ pc \notin {"down", "aborted"}
    BY DEF Hand, Settled
  <1>2. GoesOn /\ Len(journal') = Len(journal) + 1
        /\ journal'[Len(journal) + 1] = OrderState(current, o.status)
    BY WriteGoesOn
  <1>3. /\ OrderState(current, o.status).kind = "State"
        /\ OrderState(current, o.status).op = current.op
        /\ OrderState(current, o.status).number = current.number
        /\ OrderState(current, o.status).status = o.status
    BY DEF OrderState, Event
  <1>4. Len(journal) \in Nat  BY JournalDomain
  <1>5. /\ current.number \in 1..Len(journal) /\ At(current.number, "Intent", current.op)
        /\ \A j \in current.number + 1..Len(journal) : journal[j].kind # "Intent"
    BY <1>1 DEF Traced, InHand
  <1>6. \A p \in wire : p.number # current.number  BY DEF Traced, Numbered
  <1>7. \A p \in orders : p.number = current.number => p = o  BY DEF Traced, Numbered
  <1>8. At(current.number, "Intent", current.op)'
    BY <1>2, <1>5, AtStays DEF At
  <1>9. wire' = wire /\ orders' = orders /\ Real' = Real /\ Loose' = Loose
    BY DEF iol, setting, Real, Loose, InFlight
  <1>10. Numbered'
    BY <1>2, <1>4, <1>9, AtStays DEF Traced, Numbered
  <1>11. \A j \in current.number + 1..Len(journal') : journal'[j].kind # "Intent"
    BY <1>2, <1>3, <1>4, <1>5 DEF GoesOn
  <1>12. InHand'
    BY <1>1, <1>2, <1>4, <1>5, <1>8, <1>11 DEF InHand
  <1>13. SettledClosesLast'
    <2> SUFFICES ASSUME NEW k \in 1..Len(journal) + 1, journal'[k].status \in Settled
                 PROVE  Closes(k)'
      BY <1>2 DEF SettledClosesLast
    <2>1. CASE k \in 1..Len(journal)
      <3>1. Closes(k)  BY <1>2, <2>1 DEF Traced, SettledClosesLast, GoesOn
      <3> QED  BY <1>2, <1>9, <2>1, <3>1, ClosesStays DEF Closes
    <2>2. CASE k = Len(journal) + 1
      <3>1. /\ journal'[k].kind = "State" /\ journal'[k].op = current.op
            /\ journal'[k].number = current.number /\ o.status \in Settled
        BY <1>2, <1>3, <2>2
      <3>2. current.number \in 1..k - 1  BY <1>4, <1>5, <2>2
      <3>3. \A j \in current.number + 1..k - 1 : ~At(j, "Intent", current.op)'
        BY <1>2, <1>4, <1>5, <1>11, <2>2 DEF At
      <3>4. \A p \in orders : p.number = current.number => p.status \in Settled
        BY <1>7, <3>1
      <3> QED  BY <1>6, <1>8, <1>9, <3>1, <3>2, <3>3, <3>4 DEF Closes, At
    <2> QED  BY <1>4, <2>1, <2>2
  <1>14. Watched'
    <2> SUFFICES ASSUME NEW p \in Loose
                 PROVE  \/ p.op \in pending' \/ ResentInDoubt(p.op)'
                        \/ pc' \in {"tracking", "Partial"} /\ p.number = current.number
      BY <1>9 DEF Watched
    <2>1. CASE p.number # current.number
      BY <1>1, <1>2, <2>1, ResentStays DEF Traced, Watched
    <2>2. CASE p.number = current.number
      <3>1. p = o  BY <1>6, <1>7, <2>2 DEF Loose, InFlight
      <3>2. o.status \notin Settled
        BY <1>6, <2>2, <3>1 DEF Loose, InFlight, Settled
      <3> QED  BY <2>2, <3>2
    <2> QED  BY <2>1, <2>2
  <1> QED  BY <1>10, <1>12, <1>13, <1>14 DEF Traced

\* IOL receives an order: it keeps its number, and its intent.
LEMMA ArriveTraces == ASSUME JournalInv, Traced, Arrive PROVE Traced'
  <1>1. PICK o \in wire :
            /\ wire' = wire \ {o}
            /\ orders' = orders \cup {[op |-> o.op, number |-> o.number,
                                      contracts |-> o.contracts, status |-> "Open"]}
    BY DEF Arrive
  <1> DEFINE q == [op |-> o.op, number |-> o.number, contracts |-> o.contracts, status |-> "Open"]
  <1>2. /\ UNCHANGED <<journal, setting, current, pc, pending>> /\ Real' = Real
    BY DEF Arrive, disk, memory, alarm, setting, Real
  <1>3. q.op = o.op /\ q.number = o.number /\ q.status = "Open"  OBVIOUS
  <1>4. orders' = orders \cup {q}  BY <1>1
  <1> HIDE DEF q
  <1>5. GoesOn  BY <1>2, SameGoesOn
  <1>6. Numbered'
    <2>1. \A p \in orders : p.number # q.number  BY <1>3 DEF Traced, Numbered
    <2>2. \A p \in wire' : p \in wire /\ p.number # q.number  BY <1>1, <1>3 DEF Traced, Numbered
    <2>3. \A p \in (wire \cup orders)' : p = q \/ p \in wire \cup orders  BY <1>4, <2>2
    <2>4. \A p \in (wire \cup orders)' :
              p.number \in 1..Len(journal) /\ At(p.number, "Intent", p.op)'
      BY <1>2, <1>3, <2>3 DEF Traced, Numbered, At
    <2>5. Real' \/ (wire \cup orders)' = {}
      BY <1>2 DEF Traced, Numbered
    <2> QED  BY <1>2, <1>4, <2>1, <2>2, <2>4, <2>5 DEF Traced, Numbered
  <1>7. InHand'
    BY <1>1, <1>2, <1>3, <1>4 DEF Traced, InHand, At
  <1>8. SettledClosesLast'
    <2> SUFFICES ASSUME NEW k \in 1..Len(journal), journal[k].status \in Settled
                 PROVE  Closes(k)'
      BY <1>2 DEF SettledClosesLast
    <2>1. Closes(k)  BY DEF Traced, SettledClosesLast
    <2>2. q.number # journal[k].number  BY <1>3, <2>1 DEF Closes
    <2> QED  BY <1>1, <1>4, <1>5, <2>1, <2>2, ClosesStays DEF Closes
  <1>9. Watched'
    <2> SUFFICES ASSUME NEW p \in Loose', pc \notin {"down", "aborted"}
                 PROVE  \/ p.op \in pending \/ ResentInDoubt(p.op)'
                        \/ pc \in {"sent", "tracking", "Partial"} /\ p.number = current.number
      BY <1>2 DEF Watched
    <2>1. PICK r \in Loose : r.op = p.op /\ r.number = p.number
      BY <1>1, <1>3, <1>4 DEF Loose, InFlight
    <2> QED  BY <1>5, <2>1, ResentStays DEF Traced, Watched
  <1> QED  BY <1>6, <1>7, <1>8, <1>9 DEF Traced

\* IOL decides an open order: its end was not in the journal before.
LEMMA DecideTraces == ASSUME JournalInv, Traced, Decide PROVE Traced'
  <1>1. PICK o \in orders, status \in Final :
            /\ o.status = "Open"
            /\ orders' = (orders \ {o}) \cup {[o EXCEPT !.status = status]}
    BY DEF Decide
  <1> DEFINE q == [o EXCEPT !.status = status]
  <1>2. /\ UNCHANGED <<journal, setting, current, pc, pending, wire>> /\ Real' = Real
    BY DEF Decide, disk, memory, alarm, setting, Real
  <1>3. q.op = o.op /\ q.number = o.number  OBVIOUS
  <1>4. orders' = (orders \ {o}) \cup {q}  BY <1>1
  <1> HIDE DEF q
  <1>5. GoesOn  BY <1>2, SameGoesOn
  <1>6. \A p \in orders \ {o} : p.number # q.number  BY <1>3 DEF Traced, Numbered
  <1>7. Numbered'
    <2>1. \A p \in wire : p.number # q.number  BY <1>3 DEF Traced, Numbered
    <2>2. \A p \in (wire \cup orders)' : p = q \/ p \in wire \cup orders  BY <1>2, <1>4
    <2>3. \A p \in (wire \cup orders)' :
              p.number \in 1..Len(journal) /\ At(p.number, "Intent", p.op)'
      BY <1>2, <1>3, <2>2 DEF Traced, Numbered, At
    <2>4. Real' \/ (wire \cup orders)' = {}
      BY <1>2 DEF Traced, Numbered
    <2> QED  BY <1>2, <1>4, <1>6, <2>1, <2>3, <2>4 DEF Traced, Numbered
  <1>8. InHand'
    BY <1>1, <1>2, <1>3, <1>4 DEF Traced, InHand, At
  <1>9. SettledClosesLast'
    <2> SUFFICES ASSUME NEW k \in 1..Len(journal), journal[k].status \in Settled
                 PROVE  Closes(k)'
      BY <1>2 DEF SettledClosesLast
    <2>1. Closes(k)  BY DEF Traced, SettledClosesLast
    <2>2. q.number # journal[k].number  BY <1>1, <1>3, <2>1 DEF Closes, Settled
    <2> QED  BY <1>2, <1>4, <1>5, <2>1, <2>2, ClosesStays DEF Closes
  <1>10. Watched'
    <2> SUFFICES ASSUME NEW p \in Loose', pc \notin {"down", "aborted"}
                 PROVE  \/ p.op \in pending \/ ResentInDoubt(p.op)'
                        \/ pc \in {"sent", "tracking", "Partial"} /\ p.number = current.number
      BY <1>2 DEF Watched
    <2>1. PICK r \in Loose : r.op = p.op /\ r.number = p.number
      <3>1. p \in Loose \/ p = q  BY <1>2, <1>4 DEF Loose, InFlight
      <3>2. o \in Loose  BY <1>1 DEF Loose, InFlight
      <3> QED  BY <1>3, <3>1, <3>2
    <2> QED  BY <1>5, <2>1, ResentStays DEF Traced, Watched
  <1> QED  BY <1>7, <1>8, <1>9, <1>10 DEF Traced

\* A loose order whose last word in the journal is settled was sent again
\* before that: the settled state is of a later attempt.
LEMMA SettledWasResent ==
    ASSUME JournalInv, Traced, NEW o \in Loose, NEW m \in 1..Len(journal),
           journal[m].op = o.op, journal[m].status \in Settled, o.number <= m
    PROVE  ResentInDoubt(o.op)
  <1> DEFINE Resent == {j \in o.number + 1..m : At(j, "Intent", o.op)}
  <1>1. Len(journal) \in Nat /\ DOMAIN journal = 1..Len(journal)  BY JournalDomain
  <1>2. o \in wire \/ (o \in orders /\ o.status \notin Settled)
    BY DEF Loose, InFlight, Settled
  <1>3. o.number \in 1..Len(journal) /\ At(o.number, "Intent", o.op)
    BY <1>2 DEF Traced, Numbered
  <1>4. Closes(m)  BY DEF Traced, SettledClosesLast
  <1>5. journal[m].number # o.number  BY <1>2, <1>4 DEF Closes
  <1>6. o.number # m  BY <1>3, <1>4 DEF At, Closes
  <1>7. o.number < journal[m].number
    <2> SUFFICES ASSUME o.number > journal[m].number PROVE FALSE
      BY <1>1, <1>3, <1>4, <1>5 DEF Closes
    <2>1. o.number \in journal[m].number + 1..m - 1  BY <1>1, <1>3, <1>4, <1>6 DEF Closes
    <2> QED  BY <1>3, <1>4, <2>1 DEF Closes
  <1>8. journal[m].number \in Resent /\ Resent \in SUBSET Nat
    BY <1>1, <1>3, <1>4, <1>7 DEF Closes
  <1>9. PICK j \in Resent : \A k \in Resent : j <= k  BY <1>8, LeastOf
  <1>10. j \in 1..Len(journal) /\ o.number < j /\ j <= m  BY <1>1, <1>3, <1>9
  <1>11. ASSUME NEW k \in o.number..j, journal[k].op = o.op, journal[k].status \in Settled
         PROVE  FALSE
    <2>1. k \in 1..Len(journal)  BY <1>1, <1>3, <1>10
    <2>2. Closes(k)  BY <1>11, <2>1 DEF Traced, SettledClosesLast
    <2>3. k # o.number /\ k # j  BY <1>3, <1>9, <2>2 DEF At, Closes
    <2>4. journal[k].number # o.number  BY <1>2, <2>2 DEF Closes
    <2>5. journal[k].number <= o.number
      <3> SUFFICES ASSUME journal[k].number > o.number PROVE FALSE
        BY <1>3, <2>2 DEF Closes
      <3>1. journal[k].number \in Resent
        BY <1>1, <1>3, <1>10, <1>11, <2>1, <2>2 DEF Closes, At
      <3> QED  BY <1>9, <1>10, <2>1, <2>2, <2>3, <3>1 DEF Closes
    <2>6. o.number \in journal[k].number + 1..k - 1
      BY <1>3, <1>10, <2>1, <2>2, <2>3, <2>4, <2>5 DEF Closes
    <2> QED  BY <1>3, <1>11, <2>2, <2>6 DEF Closes
  <1>12. \A k \in {o.number, j} : journal[k].kind = "Intent" /\ journal[k].op = o.op
    BY <1>3, <1>9 DEF At
  <1> QED  BY <1>1, <1>3, <1>10, <1>11, <1>12 DEF ResentInDoubt

\* unresolved_local_orders: every loose order without a settled last word.
LEMMA LooseIsUnresolved ==
    ASSUME JournalInv, Traced, NEW o \in Loose
    PROVE  o.op \in Unresolved(journal) \/ ResentInDoubt(o.op)
  <1> DEFINE Words == {k \in 1..Len(journal) : journal[k].kind \in OrderEvents /\ journal[k].op = o.op}
  <1>1. Len(journal) \in Nat /\ DOMAIN journal = 1..Len(journal)  BY JournalDomain
  <1>2. o.number \in 1..Len(journal) /\ At(o.number, "Intent", o.op)
    BY DEF Traced, Numbered, Loose, InFlight
  <1>3. o.number \in Words  BY <1>2 DEF At, OrderEvents
  <1>4. PICK m \in Words : \A k \in Words : k <= m  BY <1>1, <1>3, Greatest
  <1>5. CASE journal[m].status \in Settled
    BY <1>3, <1>4, <1>5, SettledWasResent
  <1>6. CASE journal[m].status \notin Settled
    <2>1. \A j \in DOMAIN journal :
              j > m /\ journal[j].kind \in OrderEvents => journal[j].op # journal[m].op
      BY <1>1, <1>4
    <2>2. m \in {k \in DOMAIN journal :
            /\ journal[k].kind \in OrderEvents
            /\ ~(journal[k].kind = "State" /\ journal[k].status \in Settled)
            /\ \A j \in DOMAIN journal :
                j > k /\ journal[j].kind \in OrderEvents => journal[j].op # journal[k].op}
      BY <1>1, <1>4, <1>6, <2>1
    <2>3. journal[m].op \in Unresolved(journal)  BY <2>2 DEF Unresolved
    <2> QED  BY <1>4, <2>3
  <1> QED  BY <1>5, <1>6

LEMMA RestartTraces == ASSUME JournalInv, Traced, Restart PROVE Traced'
  <1>1. /\ journal' = journal \o <<Event("Other")>> /\ pending' = Unresolved(journal)
        /\ pc' = "starting" /\ UNCHANGED <<iol, setting>>
    BY DEF Restart, Write
  <1>2. GoesOn /\ Len(journal') = Len(journal) + 1
        /\ journal'[Len(journal) + 1] = Event("Other")
    BY <1>1, WriteGoesOn
  <1>3. Event("Other").status \notin Settled /\ Len(journal) \in Nat
    BY JournalDomain DEF Event, Settled
  <1>4. Numbered' /\ SettledClosesLast'
    <2>1. \A k \in Len(journal) + 1..Len(journal') : journal'[k].status \notin Settled
      BY <1>2, <1>3
    <2> QED  BY <1>1, <1>2, <2>1, PastStays DEF Traced
  <1>5. InHand'  BY <1>1 DEF InHand, Hand
  <1>6. Watched'
    <2> SUFFICES ASSUME NEW o \in Loose PROVE o.op \in pending' \/ ResentInDoubt(o.op)'
      BY <1>1 DEF Watched, Loose, InFlight, iol
    <2> QED  BY <1>1, <1>2, LooseIsUnresolved, ResentStays
  <1> QED  BY <1>4, <1>5, <1>6 DEF Traced

\* Whatever was sent was synced first: no power loss takes its intent.
SafeNumbers == \A o \in wire \cup orders : o.number <= synced

LEMMA PowerLossTraces == ASSUME JournalInv, Traced, SafeNumbers, PowerLoss PROVE Traced'
  <1>1. PICK surviving \in synced..Len(journal) : journal' = SubSeq(journal, 1, surviving)
    BY DEF PowerLoss
  <1>2. pc' = "down" /\ UNCHANGED <<iol, setting>>  BY DEF PowerLoss, Fall, Down
  <1>3. PICK S : journal \in Seq(S)  BY DEF JournalInv
  <1>4. /\ synced \in Nat /\ surviving \in Nat /\ surviving <= Len(journal) /\ synced <= surviving
        /\ Len(journal) \in Nat
    BY <1>1, <1>3 DEF JournalInv
  <1>5. Len(journal') = surviving /\ \A i \in 1..surviving : journal'[i] = journal[i]
    BY <1>1, <1>3, <1>4
  <1>6. wire' = wire /\ orders' = orders /\ Real' = Real  BY <1>2 DEF iol, setting, Real
  <1>7. \A o \in wire \cup orders : o.number \in 1..surviving
    BY <1>4 DEF Traced, Numbered, SafeNumbers
  <1>8. Numbered'
    BY <1>5, <1>6, <1>7 DEF Traced, Numbered, At
  <1>9. SettledClosesLast'
    <2> SUFFICES ASSUME NEW k \in 1..surviving, journal[k].status \in Settled PROVE Closes(k)'
      BY <1>5 DEF SettledClosesLast
    <2>1. k \in 1..Len(journal) /\ k \in Nat  BY <1>4
    <2>2. Closes(k)  BY <2>1 DEF Traced, SettledClosesLast
    <2>3. 1..k \subseteq 1..surviving  BY <1>4
    <2>4. \A j \in 1..k : journal'[j] = journal[j]  BY <1>5, <2>3
    <2>5. k \in 1..k /\ journal[k].number \in 1..k  BY <2>1, <2>2 DEF Closes
    <2>6. \A j \in journal[k].number + 1..k - 1 : j \in 1..k  BY <2>1, <2>5
    <2> QED  BY <1>6, <2>2, <2>4, <2>5, <2>6 DEF Closes, At
  <1> QED  BY <1>2, <1>8, <1>9 DEF Traced, InHand, Hand, Watched

LEMMA SafeStep == ASSUME WriteAhead, Traced, SafeNumbers, [Next]_vars PROVE SafeNumbers'
  <1>1. /\ synced \in Nat /\ Len(journal) \in Nat /\ synced <= Len(journal)
        /\ \A o \in wire \cup orders : o.number \in 1..Len(journal)
    BY JournalDomain DEF WriteAhead, JournalInv, Traced, Numbered
  <1>2. synced' \in Nat /\ synced' <= Len(journal')  BY WriteAheadStep DEF WriteAhead, JournalInv
  <1>3. CASE Send
    <2>1. wire' = wire \cup {current} /\ orders' = orders /\ synced' = Len(journal)
          /\ pc = "intent"
      BY <1>3 DEF Send
    <2>2. current.number = Len(journal)  BY <2>1 DEF Traced, InHand, Hand
    <2> QED  BY <1>1, <2>1, <2>2 DEF SafeNumbers
  <1>4. CASE IOL
    <2>1. synced' = synced  BY <1>4 DEF IOL, Arrive, Decide, disk
    <2>2. \A o \in (wire \cup orders)' : \E p \in wire \cup orders : p.number = o.number
      <3>1. CASE Arrive
        <4>1. PICK q \in wire :
                  /\ wire' = wire \ {q}
                  /\ orders' = orders \cup {[op |-> q.op, number |-> q.number,
                                            contracts |-> q.contracts, status |-> "Open"]}
          BY <3>1 DEF Arrive
        <4> QED  BY <4>1
      <3>2. CASE Decide
        <4>1. PICK q \in orders, status \in Final :
                  wire' = wire /\ orders' = (orders \ {q}) \cup {[q EXCEPT !.status = status]}
          BY <3>2 DEF Decide
        <4>2. [q EXCEPT !.status = status].number = q.number  OBVIOUS
        <4> QED  BY <4>1, <4>2
      <3> QED  BY <1>4, <3>1, <3>2 DEF IOL
    <2> QED  BY <2>1, <2>2 DEF SafeNumbers
  <1>5. CASE ~(Send \/ IOL)
    <2>1. UNCHANGED iol
      BY <1>5 DEF Next, Execute, Buy, Sell, Order, Simulate, Accept, Settle, Doubt, Book, BookBuy,
             BookSale, Unfilled, PartlyFilled, EndStep, Shutdown, Down, Reconcile, ReconcileReadonly,
             ReconcileAccount, Fail, Crash, PowerLoss, Fall, Restart, RestartAborts, vars
    <2>2. synced <= synced'
      <3>1. CASE PowerLoss  BY <1>1, <3>1 DEF PowerLoss
      <3>2. CASE Shutdown
        <4>1. PICK S : journal \in Seq(S)  BY DEF WriteAhead, JournalInv
        <4>2. Len(journal') = Len(journal) + 1  BY <3>2, <4>1 DEF Shutdown
        <4> QED  BY <1>1, <3>2, <4>2 DEF Shutdown
      <3>3. CASE Accept \/ Settle \/ Doubt
        <4>1. (\E e : journal' = journal \o <<e>>) /\ synced' = Len(journal')
          BY <3>3, Zenon DEF Accept, Settle, Doubt, WriteSynced, Write
        <4>2. Len(journal') = Len(journal) + 1  BY <4>1, WriteGoesOn DEF WriteAhead
        <4> QED  BY <1>1, <4>1, <4>2
      <3>4. CASE ~(PowerLoss \/ Shutdown \/ Accept \/ Settle \/ Doubt)
        <4>1. synced' = synced
          BY <1>5, <3>4
          DEF Next, Execute, Buy, Sell, Order, Simulate, Book, BookBuy, BookSale, Unfilled,
              PartlyFilled, EndStep, Reconcile, ReconcileReadonly, ReconcileAccount, Fail, Crash,
              Restart, RestartAborts, disk, vars
        <4> QED  BY <1>1, <4>1
      <3> QED  BY <3>1, <3>2, <3>3, <3>4
    <2>3. \A o \in wire \cup orders : o.number <= synced'
      BY <1>1, <1>2, <2>2 DEF SafeNumbers
    <2> QED  BY <2>1, <2>3 DEF SafeNumbers, iol
  <1> QED  BY <1>3, <1>4, <1>5

LEMMA TracedStep ==
    ASSUME JournalInv, Traced, SafeNumbers, [Next]_vars PROVE Traced'
  <1>1. Len(journal) \in Nat  BY JournalDomain
  <1>2. \A e : e.status \notin Settled /\ journal' = journal \o <<e>> =>
            /\ GoesOn
            /\ \A k \in Len(journal) + 1..Len(journal') : journal'[k].status \notin Settled
    <2> SUFFICES ASSUME NEW e, e.status \notin Settled, journal' = journal \o <<e>>
                 PROVE  /\ GoesOn
                        /\ \A k \in Len(journal) + 1..Len(journal') : journal'[k].status \notin Settled
      OBVIOUS
    <2>1. GoesOn /\ Len(journal') = Len(journal) + 1 /\ journal'[Len(journal) + 1] = e
      BY WriteGoesOn
    <2> QED  BY <1>1, <2>1
  <1>3. UNCHANGED journal =>
            /\ GoesOn
            /\ \A k \in Len(journal) + 1..Len(journal') : journal'[k].status \notin Settled
    BY <1>1, SameGoesOn
  <1>4. /\ Event("Other").status \notin Settled
        /\ \A o : /\ OrderUnknown(o).status \notin Settled
                  /\ PartialFillExposure(o).status \notin Settled
        /\ \A op, n : /\ PositionOpened(op, n).status \notin Settled
                      /\ PositionClosed(op).status \notin Settled
    BY DEF Settled, Event, OrderUnknown, PartialFillExposure, PositionOpened, PositionClosed
  <1>5. CASE Buy  BY <1>5, OrderTraces DEF Buy
  <1>6. CASE Sell  BY <1>6, OrderTraces DEF Sell
  <1>7. CASE Send  BY <1>7, SendTraces
  <1>8. CASE Simulate  BY <1>8, SimulateTraces
  <1>9. CASE Accept
    <2>1. PICK o \in orders :
              o.number = current.number /\ journal' = journal \o <<OrderState(current, o.status)>>
      BY <1>9 DEF Accept, WriteSynced, Write
    <2> QED  BY <1>9, <2>1, ReportTraces DEF Accept, alarm
  <1>10. CASE Settle
    <2>1. PICK o \in orders :
              /\ o.number = current.number /\ o.status \in Final /\ pc' = o.status
              /\ journal' = journal \o <<OrderState(current, o.status)>>
      BY <1>10 DEF Settle, WriteSynced, Write
    <2> QED  BY <1>10, <2>1, ReportTraces DEF Settle, alarm, Final, Settled
  <1>11. CASE Doubt
    <2>1. /\ journal' = journal \o <<OrderUnknown(current)>> /\ pc' = "failing"
          /\ pc \notin {"down", "aborted"}
          /\ pending' = pending \cup {current.op} /\ UNCHANGED <<iol, setting>>
      BY <1>11 DEF Doubt, WriteSynced, Write, Alarm
    <2> QED  BY <1>2, <1>4, <2>1, TracedQuiet DEF Hand
  <1>12. CASE BookBuy \/ BookSale
    <2>1. /\ \/ journal' = journal \o <<PositionOpened(current.op, current.contracts)>>
             \/ journal' = journal \o <<PositionClosed(position.op)>>
          /\ pc = "Executed" /\ pc' \in {"ending", "idle"} /\ UNCHANGED <<pending, iol, setting>>
      BY <1>12 DEF BookBuy, BookSale, Write, alarm
    <2> QED  BY <1>2, <1>4, <2>1, TracedQuiet DEF Hand
  <1>13. CASE Unfilled \/ EndStep
    <2>1. /\ UNCHANGED <<journal, pending, iol, setting>> /\ pc \in {"Unfilled", "ending", "idle"}
          /\ pc' \in {"ending", "idle"}
      BY <1>13 DEF Unfilled, EndStep, disk, alarm
    <2> QED  BY <1>3, <2>1, TracedQuiet DEF Hand
  <1>14. CASE PartlyFilled
    <2>1. /\ journal' = journal \o <<PartialFillExposure(current)>>
          /\ pc = "Partial" /\ pc' = "ending"
          /\ pending' = pending \cup {current.op} /\ UNCHANGED <<iol, setting>>
      BY <1>14 DEF PartlyFilled, Write, Alarm
    <2> QED  BY <1>2, <1>4, <2>1, TracedQuiet DEF Hand
  <1>15. CASE Shutdown
    <2>1. journal' = Append(journal, Event("Other")) /\ pc' = "down" /\ UNCHANGED <<iol, setting>>
      BY <1>15 DEF Shutdown, Down
    <2>2. journal' = journal \o <<Event("Other")>>  BY <2>1, WriteOne DEF JournalInv
    <2> QED  BY <1>2, <1>4, <2>1, <2>2, TracedQuiet DEF Hand
  <1>16. CASE Reconcile
    <2>1. /\ \/ UNCHANGED journal
             \/ journal' = journal \o <<Event("Other")>>
             \/ \E op, n : journal' = journal \o <<PositionOpened(op, n)>>
          /\ pc \in {"starting", "idle"} /\ pc' \in {"ending", "idle"}
          /\ UNCHANGED <<pending, iol, setting>>
      BY <1>16 DEF Reconcile, ReconcileReadonly, ReconcileAccount, AdoptPosition, Block, Write
    <2> QED  BY <1>2, <1>3, <1>4, <2>1, TracedQuiet DEF Hand
  <1>17. CASE Crash \/ RestartAborts
    <2>1. UNCHANGED <<journal, iol, setting>> /\ pc' \in {"down", "aborted"}
      BY <1>17 DEF Crash, Fall, Down, RestartAborts, disk
    <2> QED  BY <1>3, <2>1, TracedQuiet DEF Hand
  <1>18. CASE PowerLoss  BY <1>18, PowerLossTraces
  <1>19. CASE Restart  BY <1>19, RestartTraces
  <1>20. CASE IOL  BY <1>20, ArriveTraces, DecideTraces DEF IOL
  <1>21. CASE UNCHANGED vars
    BY <1>21
    DEF vars, disk, memory, alarm, iol, setting, Traced, Numbered, InHand, SettledClosesLast, Closes,
        Watched, Loose, InFlight, ResentInDoubt, At, Real
  <1> QED
    BY <1>5, <1>6, <1>7, <1>8, <1>9, <1>10, <1>11, <1>12, <1>13, <1>14, <1>15, <1>16, <1>17, <1>18,
       <1>19, <1>20, <1>21
    DEF Next, Execute, Book, Fail

LEMMA TracedStarts == Init => Traced
  <1> SUFFICES ASSUME Init PROVE Traced  OBVIOUS
  <1>1. journal = <<Event("Other")>> /\ pc = "idle" /\ wire = {} /\ orders = {}  BY DEF Init
  <1>2. Len(journal) = 1 /\ journal[1] = Event("Other")  BY <1>1
  <1>3. Event("Other").status \notin Settled  BY DEF Event, Settled
  <1> QED
    BY <1>1, <1>2, <1>3
    DEF Traced, Numbered, InHand, Hand, SettledClosesLast, Watched, Loose, InFlight

\* The inductive invariant: every order at IOL is found in what is left of the
\* journal.
RecoveryInv == WriteAhead /\ Traced /\ SafeNumbers

LEMMA RecoveryInvStarts == Init => RecoveryInv
  BY RuleStarts, TracedStarts DEF Init, SafeNumbers, RecoveryInv

LEMMA RecoveryInvStep == ASSUME RecoveryInv, [Next]_vars PROVE RecoveryInv'
  BY WriteAheadStep, TracedStep, SafeStep DEF RecoveryInv, WriteAhead

LEMMA RecoveryInvHolds == Spec => []RecoveryInv
  BY RecoveryInvStarts, RecoveryInvStep, PTL DEF Spec

\* After a restart (unresolved_local_orders) and until the next, the program
\* knows every order that may still change the account, however many crashes
\* and power losses came between the steps, but for a sale sent again in doubt.
THEOREM LooseEndsHold == Spec => []LooseEndsAreKnown
  <1>1. RecoveryInv => LooseEndsAreKnown
    BY DEF RecoveryInv, Traced, Watched, Loose, LooseEndsAreKnown
  <1> QED  BY <1>1, RecoveryInvHolds, PTL

-----------------------------------------------------------------------------
(* Types.                                                                  *)

Kinds == {"Other", "Intent", "State", "Unknown", "Exposure", "Opened", "Closed"}
Events == [kind : Kinds, op : OrderIds, request : Requests \cup {0}, number : Nat,
           status : Final \cup {"Open", "none"}, contracts : Nat]
SentOrders == [op : OrderIds, request : Requests \cup {0}, number : Nat, contracts : Nat]
KnownOrders == [op : OrderIds, number : Nat, contracts : Nat, status : Final \cup {"Open"}]

JournalTypes ==
    /\ journal \in Seq(Events) /\ synced \in 1..Len(journal) /\ unsaved \in 0..Len(journal)
SnapshotType ==
    snapshot \in [seq : Nat, position : Positions, trades : Nat, counter : Nat, halted : BOOLEAN]
BookTypes == position \in Positions /\ trades \in Nat
AlarmTypes == halted \in BOOLEAN /\ blocked \in BOOLEAN /\ pending \subseteq OrderIds
WorkTypes == counter \in Nat /\ current \in SentOrders /\ now \in 1..MaxRuns
IolTypes == wire \subseteq SentOrders /\ orders \subseteq KnownOrders /\ IsFiniteSet(orders)
SettingTypes == route \in Routes /\ failure \in Failures

\* Nobody sold what was not there.
TypeInv ==
    /\ JournalTypes /\ SnapshotType /\ BookTypes /\ AlarmTypes /\ WorkTypes /\ IolTypes
    /\ SettingTypes /\ Holding \in Nat

LEMMA EventTypes ==
    /\ Event("Other") \in Events
    /\ \A o \in SentOrders :
        /\ IntentCreated(o) \in Events /\ OrderUnknown(o) \in Events
        /\ PartialFillExposure(o) \in Events
        /\ \A status \in Final \cup {"Open"} : OrderState(o, status) \in Events
    /\ \A op \in OrderIds, n \in Nat : PositionOpened(op, n) \in Events /\ PositionClosed(op) \in Events
  BY DEF Event, Events, Kinds, IntentCreated, OrderState, OrderUnknown, PartialFillExposure,
         PositionOpened, PositionClosed, SentOrders, NoOp, OrderIds, Final

\* A typed event more.
LEMMA WriteTypes ==
    ASSUME JournalTypes, NEW e \in Events, journal' = journal \o <<e>>,
           unsaved' = unsaved + Len(<<e>>), synced' \in {synced, Len(journal')}
    PROVE  JournalTypes'
  <1>1. journal' = Append(journal, e)  BY WriteOne DEF JournalTypes
  <1>2. journal' \in Seq(Events) /\ Len(journal') = Len(journal) + 1 /\ Len(journal) \in Nat
    BY <1>1 DEF JournalTypes
  <1>3. Len(<<e>>) = 1  OBVIOUS
  <1> QED  BY <1>2, <1>3 DEF JournalTypes

\* A part of the journal that is typed has typed pending orders.
LEMMA UnresolvedTypes == ASSUME JournalTypes PROVE Unresolved(journal) \subseteq OrderIds
  <1>1. \A i \in DOMAIN journal : journal[i] \in Events  BY DEF JournalTypes
  <1>2. \A e \in Events : e.op \in OrderIds  BY DEF Events
  <1> QED  BY <1>1, <1>2 DEF Unresolved

-----------------------------------------------------------------------------
(* What the account holds.                                                 *)

Filled(S) == MapThenSumSet(FilledContracts, S)

\* A sum over a set is the sum of the function it sums.
LEMMA FilledTotal ==
    ASSUME NEW S, IsFiniteSet(S), \A o \in S : FilledContracts(o) \in Int
    PROVE  \E total \in [SUBSET S -> Int] :
              /\ Sums(total, S, [o \in S |-> FilledContracts(o)])
              /\ Additive(total, S, [o \in S |-> FilledContracts(o)])
              /\ Filled(S) = total[S]
  <1> DEFINE f == [o \in S |-> FilledContracts(o)]
             it == CHOOSE g : g = [s \in SUBSET S |->
                        IF s = {} THEN 0
                        ELSE FilledContracts(CHOOSE x \in s : TRUE) + g[s \ {CHOOSE x \in s : TRUE}]]
  <1>1. PICK total \in [SUBSET S -> Int] : Sums(total, S, f) /\ Additive(total, S, f)
    BY SumDefined
  <1>2. Filled(S) = it[S]  BY DEF Filled, MapThenSumSet, MapThenFoldSet
  <1>3. total = [s \in SUBSET S |->
                    IF s = {} THEN 0
                    ELSE FilledContracts(CHOOSE x \in s : TRUE) + total[s \ {CHOOSE x \in s : TRUE}]]
    BY <1>1 DEF Sums
  <1>4. it = [s \in SUBSET S |->
                IF s = {} THEN 0
                ELSE FilledContracts(CHOOSE x \in s : TRUE) + it[s \ {CHOOSE x \in s : TRUE}]]
    BY <1>3
  <1>5. Sums(it, S, f)
    <2> HIDE DEF it
    <2> QED  BY <1>4 DEF Sums
  <1>6. it[S] = total[S]
    <2> HIDE DEF it, f
    <2> QED  BY <1>1, <1>5, SumSame
  <1> QED  BY <1>1, <1>2, <1>6

LEMMA FilledSum ==
    ASSUME NEW S, IsFiniteSet(S), \A o \in S : FilledContracts(o) \in Int
    PROVE  /\ Filled(S) \in Int
           /\ \A x \in S : Filled(S) =
                              FilledContracts(x) + Filled(S \ {x})
  <1> DEFINE f == [o \in S |-> FilledContracts(o)]
  <1>1. PICK total \in [SUBSET S -> Int] :
            Sums(total, S, f) /\ Additive(total, S, f) /\ Filled(S) = total[S]
    BY FilledTotal
  <1>2. ASSUME NEW x \in S
        PROVE  Filled(S) =
                  FilledContracts(x) + Filled(S \ {x})
    <2> DEFINE R == S \ {x}
               g == [o \in R |-> FilledContracts(o)]
    <2>1. IsFiniteSet(R)  BY FS_RemoveElement
    <2>2. PICK other \in [SUBSET R -> Int] :
              Sums(other, R, g) /\ Filled(R) = other[R]
      BY <2>1, FilledTotal
    <2>3. \A y \in R : g[y] = f[y]  OBVIOUS
    <2>4. f \in [S -> Int] /\ f[x] = FilledContracts(x)  OBVIOUS
    <2>5. total[S] = f[x] + other[R]
      <3> HIDE DEF f, g
      <3> QED  BY <1>1, <2>2, <2>3, <2>4, SumLessOne
    <2> QED  BY <1>1, <2>2, <2>4, <2>5
  <1> QED  BY <1>1, <1>2

\* The net of a set of orders: bought less sold.
BySide(side, S) == Filled({o \in S : o.op.side = side})
Net(S) == BySide("Buy", S) - BySide("Sell", S)

LEMMA FilledTypes ==
    \A o \in KnownOrders : FilledContracts(o) \in Nat /\ (o.status \in {"Open", "Unfilled"} => FilledContracts(o) = 0)
  BY DEF KnownOrders, FilledContracts, Final

LEMMA SumLess ==
    ASSUME NEW S \in SUBSET KnownOrders, IsFiniteSet(S), NEW x \in S, NEW side
    PROVE  /\ BySide(side, S) \in Int /\ BySide(side, S \ {x}) \in Int
           /\ BySide(side, S) = BySide(side, S \ {x}) + IF x.op.side = side THEN FilledContracts(x) ELSE 0
  <1> DEFINE P == {o \in S : o.op.side = side}
             Q == {o \in S \ {x} : o.op.side = side}
  <1>1. IsFiniteSet(P) /\ IsFiniteSet(Q)  BY FS_Subset
  <1>2. (\A o \in P : FilledContracts(o) \in Int) /\ (\A o \in Q : FilledContracts(o) \in Int)
    BY FilledTypes
  <1>3. Filled(P) \in Int /\ Filled(Q) \in Int
    <2> HIDE DEF P, Q
    <2> QED  BY <1>1, <1>2, FilledSum
  <1>0. /\ BySide(side, S) = Filled(P)
        /\ BySide(side, S \ {x}) = Filled(Q)
    BY DEF BySide
  <1>4. CASE x.op.side = side
    <2>1. x \in P /\ Q = P \ {x}  BY <1>4
    <2>2. Filled(P) = FilledContracts(x) + Filled(Q)
      <3> HIDE DEF P, Q
      <3> QED  BY <1>1, <1>2, <2>1, FilledSum
    <2>3. FilledContracts(x) \in Int  BY FilledTypes
    <2> HIDE DEF P, Q
    <2> QED  BY <1>0, <1>3, <1>4, <2>2, <2>3
  <1>5. CASE x.op.side # side
    <2>1. P = Q  BY <1>5
    <2> HIDE DEF P, Q
    <2> QED  BY <1>0, <1>3, <1>5, <2>1
  <1> QED  BY <1>4, <1>5

\* What an order does to the net.
Share(x) == CASE x.op.side = "Buy" -> FilledContracts(x)
              [] x.op.side = "Sell" -> 0 - FilledContracts(x)
              [] OTHER -> 0

LEMMA NetLess ==
    ASSUME NEW S \in SUBSET KnownOrders, IsFiniteSet(S), NEW x \in S
    PROVE  /\ Net(S) \in Int /\ Net(S \ {x}) \in Int /\ Share(x) \in Int
           /\ Net(S) = Net(S \ {x}) + Share(x)
  <1>1. /\ BySide("Buy", S) \in Int /\ BySide("Buy", S \ {x}) \in Int
        /\ BySide("Buy", S) = BySide("Buy", S \ {x}) + IF x.op.side = "Buy" THEN FilledContracts(x) ELSE 0
    BY SumLess
  <1>2. /\ BySide("Sell", S) \in Int /\ BySide("Sell", S \ {x}) \in Int
        /\ BySide("Sell", S) = BySide("Sell", S \ {x}) + IF x.op.side = "Sell" THEN FilledContracts(x) ELSE 0
    BY SumLess
  <1>3. FilledContracts(x) \in Int  BY FilledTypes
  <1> QED  BY <1>1, <1>2, <1>3 DEF Net, Share

LEMMA NetIsInt ==
    ASSUME NEW S \in SUBSET KnownOrders, IsFiniteSet(S) PROVE Net(S) \in Int
  <1> DEFINE P(side) == {o \in S : o.op.side = side}
  <1>1. ASSUME NEW side PROVE BySide(side, S) \in Int
    <2>1. IsFiniteSet(P(side)) /\ \A o \in P(side) : FilledContracts(o) \in Int
      BY FS_Subset, FilledTypes
    <2> HIDE DEF P
    <2>2. Filled(P(side)) \in Int  BY <2>1, FilledSum
    <2> QED  BY <2>2 DEF P, BySide
  <1> QED  BY <1>1 DEF Net

LEMMA HoldingIsNet == Holding = Net(orders) /\ Holding' = Net(orders')
  BY DEF Holding, ContractsOf, Net, BySide, Filled

-----------------------------------------------------------------------------
(* The replay of the journal.                                              *)

\* What a replay works on, and its steps.
States == [position : Positions, trades : Nat, ok : BOOLEAN]
Steps(s) == [i \in 1..Len(s) |-> [a \in States |-> Apply(a, s[i])]]
Replay(b, s) == FoldLeft(Apply, b, s)

\* What an event makes of a state.
Then(p, t, b, e) ==
    CASE e.kind = "Opened" /\ p = NoPosition ->
            [position |-> [op |-> e.op, contracts |-> e.contracts], trades |-> t, ok |-> b]
      [] e.kind = "Opened" /\ p # NoPosition ->
            [position |-> p, trades |-> t, ok |-> (b /\ p.op = e.op)]
      [] e.kind = "Closed" /\ p # NoPosition /\ p.op = e.op ->
            [position |-> NoPosition, trades |-> t + 1, ok |-> b]
      [] e.kind = "Closed" /\ p # NoPosition /\ p.op # e.op ->
            [position |-> p, trades |-> t, ok |-> FALSE]
      [] OTHER -> [position |-> p, trades |-> t, ok |-> b]

LEMMA ApplyThen ==
    ASSUME NEW p, NEW t, NEW b, NEW e
    PROVE  Apply([position |-> p, trades |-> t, ok |-> b], e) = Then(p, t, b, e)
  <1>1. CASE e.kind = "Opened" /\ p = NoPosition
    <2>1. Apply([position |-> p, trades |-> t, ok |-> b], e)
            = [position |-> [op |-> e.op, contracts |-> e.contracts], trades |-> t, ok |-> b]
      BY <1>1 DEF Apply
    <2> QED  BY <1>1, <2>1 DEF Then
  <1>2. CASE e.kind = "Opened" /\ p # NoPosition
    <2>1. Apply([position |-> p, trades |-> t, ok |-> b], e)
            = [position |-> p, trades |-> t, ok |-> (b /\ p.op = e.op)]
      BY <1>2 DEF Apply
    <2> QED  BY <1>2, <2>1 DEF Then
  <1>3. CASE e.kind = "Closed" /\ e.kind # "Opened" /\ p # NoPosition /\ p.op = e.op
    <2>1. Apply([position |-> p, trades |-> t, ok |-> b], e)
            = [position |-> NoPosition, trades |-> t + 1, ok |-> b]
      BY <1>3 DEF Apply
    <2> QED  BY <1>3, <2>1 DEF Then
  <1>4. CASE e.kind = "Closed" /\ e.kind # "Opened" /\ p # NoPosition /\ p.op # e.op
    <2>1. Apply([position |-> p, trades |-> t, ok |-> b], e)
            = [position |-> p, trades |-> t, ok |-> FALSE]
      BY <1>4 DEF Apply
    <2> QED  BY <1>4, <2>1 DEF Then
  <1>5. CASE e.kind # "Opened" /\ ~(e.kind = "Closed" /\ p # NoPosition)
    <2>1. Apply([position |-> p, trades |-> t, ok |-> b], e)
            = [position |-> p, trades |-> t, ok |-> b]
      BY <1>5 DEF Apply
    <2> QED  BY <1>5, <2>1 DEF Then
  <1> QED  BY <1>1, <1>2, <1>3, <1>4, <1>5

LEMMA ApplyTypes ==
    ASSUME NEW a \in States, NEW e \in Events
    PROVE  Apply(a, e) = Then(a.position, a.trades, a.ok, e) /\ Apply(a, e) \in States
  <1>1. NoPosition \in Positions  BY DEF NoPosition, Positions, OrderIds, NoOp
  <1>2. [op |-> e.op, contracts |-> e.contracts] \in Positions  BY DEF Positions, Events
  <1>3. /\ a = [position |-> a.position, trades |-> a.trades, ok |-> a.ok]
        /\ a.position \in Positions /\ a.trades \in Nat /\ a.ok \in BOOLEAN
    BY DEF States
  <1>4. Apply(a, e) = Then(a.position, a.trades, a.ok, e)  BY <1>3, ApplyThen
  <1>5. Then(a.position, a.trades, a.ok, e) \in States
    BY <1>1, <1>2, <1>3 DEF Then, States
  <1> QED  BY <1>4, <1>5

LEMMA StepsTypes ==
    ASSUME NEW s \in Seq(Events)
    PROVE  /\ Len(s) \in Nat /\ DOMAIN s = 1..Len(s)
           /\ Steps(s) \in [1..Len(s) -> [States -> States]]
  <1>1. Len(s) \in Nat /\ DOMAIN s = 1..Len(s) /\ \A i \in 1..Len(s) : s[i] \in Events  OBVIOUS
  <1>2. \A i \in 1..Len(s) : [a \in States |-> Apply(a, s[i])] \in [States -> States]
    BY <1>1, ApplyTypes
  <1> QED  BY <1>1, <1>2 DEF Steps

\* The replay is a table of its steps, the last event last.
LEMMA ReplayPlays ==
    ASSUME NEW s \in Seq(Events), NEW b \in States
    PROVE  \E g \in [SUBSET (1..Len(s)) -> States] :
              Plays(g, Len(s), b, Steps(s)) /\ Replay(b, s) = g[1..Len(s)]
  <1> DEFINE n == Len(s)
             it == CHOOSE g : g = [t \in SUBSET DOMAIN s |->
                        IF t = {} THEN b ELSE Apply(g[t \ {Max(t)}], s[Max(t)])]
  <1>1. n \in Nat /\ DOMAIN s = 1..n /\ Steps(s) \in [1..n -> [States -> States]]
    BY StepsTypes
  <1>2. PICK g \in [SUBSET (1..n) -> States] : Plays(g, n, b, Steps(s))
    <2> DEFINE base == b
               act == Steps(s)
    <2>1. base \in States /\ act \in [1..n -> [States -> States]]  BY <1>1
    <2> HIDE DEF n, base, act
    <2>2. \E g \in [SUBSET (1..n) -> States] : Plays(g, n, base, act)  BY <1>1, <2>1, PlayDefined
    <2> QED  BY <2>2 DEF base, act
  <1>3. ASSUME NEW t \in SUBSET (1..n)
        PROVE  g[t] = IF t = {} THEN b ELSE Apply(g[t \ {Max(t)}], s[Max(t)])
    <2>1. CASE t = {}  BY <1>2, <2>1 DEF Plays
    <2>2. CASE t # {}
      <3> HIDE DEF n
      <3>1. g[t] = Steps(s)[Max(t)][g[t \ {Max(t)}]]  BY <1>2, <2>2 DEF Plays
      <3>2. Max(t) \in 1..n  BY <1>1, <2>2, MaxIn
      <3>3. g[t \ {Max(t)}] \in States  OBVIOUS
      <3>4. Steps(s)[Max(t)][g[t \ {Max(t)}]] = Apply(g[t \ {Max(t)}], s[Max(t)])
        BY <3>2, <3>3 DEF Steps, n
      <3> QED  BY <2>2, <3>1, <3>4
    <2> QED  BY <2>1, <2>2
  <1>4. g = [t \in SUBSET DOMAIN s |->
                IF t = {} THEN b ELSE Apply(g[t \ {Max(t)}], s[Max(t)])]
    BY <1>1, <1>3
  <1>5. it = [t \in SUBSET DOMAIN s |->
                IF t = {} THEN b ELSE Apply(it[t \ {Max(t)}], s[Max(t)])]
    BY <1>4
  <1>6. Replay(b, s) = it[DOMAIN s]  BY DEF Replay, FoldLeft, MapThenFoldSet
  <1>7. it[1..n] = g[1..n]
    <2> HIDE DEF it, n
    <2>1. g[{}] = it[{}]  BY <1>1, <1>3, <1>5
    <2>2. Agree(g, it, n)
      <3> SUFFICES ASSUME NEW t \in (SUBSET (1..n)) \ {{}}, g[t \ {Max(t)}] = it[t \ {Max(t)}]
                   PROVE  g[t] = it[t]
        BY DEF Agree
      <3>1. g[t] = Apply(g[t \ {Max(t)}], s[Max(t)])  BY <1>3
      <3>2. it[t] = Apply(it[t \ {Max(t)}], s[Max(t)])  BY <1>1, <1>5
      <3> QED  BY <3>1, <3>2
    <2> DEFINE one == g
    <2>3. one[{}] = it[{}] /\ Agree(one, it, n)  BY <2>1, <2>2
    <2> HIDE DEF one
    <2>4. \A t \in SUBSET (1..n) : one[t] = it[t]  BY <1>1, <2>3, SameTable
    <2> QED  BY <2>4 DEF one
  <1> HIDE DEF it
  <1> QED  BY <1>1, <1>2, <1>6, <1>7

LEMMA ReplayNothing == ASSUME NEW b \in States PROVE Replay(b, <<>>) = b
  <1>1. <<>> \in Seq(Events) /\ Len(<<>>) = 0  OBVIOUS
  <1>2. PICK g \in [SUBSET (1..0) -> States] :
            Plays(g, 0, b, Steps(<<>>)) /\ Replay(b, <<>>) = g[1..0]
    BY <1>1, ReplayPlays
  <1>3. 1..0 = {}  OBVIOUS
  <1> QED  BY <1>2, <1>3 DEF Plays

\* An event more is applied to what the replay had.
LEMMA ReplayOneMore ==
    ASSUME NEW s \in Seq(Events), NEW e \in Events, NEW b \in States
    PROVE  Replay(b, Append(s, e)) = Apply(Replay(b, s), e) /\ Replay(b, s) \in States
  <1> DEFINE n == Len(s)
             r == Append(s, e)
             act == Steps(s)
             more == Steps(r)
             base == b
  <1>1. /\ n \in Nat /\ r \in Seq(Events) /\ Len(r) = n + 1
        /\ r[n + 1] = e /\ \A i \in 1..n : r[i] = s[i]
    OBVIOUS
  <1>2. PICK g \in [SUBSET (1..n) -> States] : Plays(g, n, base, act) /\ Replay(b, s) = g[1..n]
    BY ReplayPlays
  <1> HIDE DEF n, r
  <1>3. PICK h \in [SUBSET (1..(n + 1)) -> States] :
            Plays(h, n + 1, base, more) /\ Replay(b, r) = h[1..(n + 1)]
    <2>1. \E h \in [SUBSET (1..Len(r)) -> States] :
            Plays(h, Len(r), b, Steps(r)) /\ Replay(b, r) = h[1..Len(r)]
      BY <1>1, ReplayPlays
    <2> QED  BY <1>1, <2>1
  <1>4. SameSteps(act, more, n, States)  BY <1>1 DEF SameSteps, Steps, n
  <1>5. more[n + 1][g[1..n]] = Apply(g[1..n], e)  BY <1>1 DEF Steps
  <1>6. h[1..(n + 1)] = more[n + 1][g[1..n]] /\ g[1..n] \in States
    <2> DEFINE one == g
               other == h
               A == States
    <2>1. /\ one \in [SUBSET (1..n) -> A] /\ other \in [SUBSET (1..(n + 1)) -> A]
          /\ Plays(one, n, base, act) /\ Plays(other, n + 1, base, more)
          /\ SameSteps(act, more, n, A)
      BY <1>2, <1>3, <1>4
    <2> HIDE DEF one, other, A, act, more, base
    <2>2. other[1..(n + 1)] = more[n + 1][one[1..n]] /\ one[1..n] \in A
      BY <1>1, <2>1, PlayOneMore
    <2> QED  BY <2>2 DEF one, other, A
  <1> QED  BY <1>2, <1>3, <1>5, <1>6 DEF r

-----------------------------------------------------------------------------
(* Type correctness.                                                       *)

\* A larger of two numbers.
LEMMA MaxOfTwo == ASSUME NEW k \in Int PROVE Max({0, k}) = IF k > 0 THEN k ELSE 0
  <1>1. \E x \in {0, k} : \A y \in {0, k} : x >= y
    <2>1. CASE k > 0  BY <2>1
    <2>2. CASE ~(k > 0)  BY <2>2
    <2> QED  BY <2>1, <2>2
  <1>2. Max({0, k}) \in {0, k} /\ \A y \in {0, k} : Max({0, k}) >= y
    <2> DEFINE D == {0, k}
    <2>1. \E x \in D : \A y \in D : x >= y  BY <1>1
    <2> HIDE DEF D
    <2>2. Max(D) \in D /\ \A y \in D : Max(D) >= y  BY <2>1, Zenon DEF Max
    <2> QED  BY <2>2 DEF D
  <1> QED  BY <1>2

LEMMA PartTypes ==
    ASSUME JournalTypes, NEW m \in Nat \ {0}, NEW n \in 0..Len(journal)
    PROVE  /\ SubSeq(journal, m, n) \in Seq(Events)
           /\ Len(SubSeq(journal, m, n)) = IF m <= n THEN n - m + 1 ELSE 0
  <1>1. /\ journal \in Seq(Events) /\ Len(journal) \in Nat /\ n \in Nat
        /\ \A i \in 1..Len(journal) : journal[i] \in Events
    BY DEF JournalTypes
  <1>2. \A i \in m..n : i \in 1..Len(journal)  BY <1>1
  <1> QED  BY <1>1, <1>2

LEMMA PlaceTypes == NoPosition \in Positions /\ NoOrder \in SentOrders /\ NoOp \in OrderIds
  BY DEF NoPosition, NoOrder, NoOp, Positions, SentOrders, OrderIds

LEMMA SaleTypes ==
    ASSUME NEW op \in OrderIds
    PROVE  /\ [op EXCEPT !.side = "Sell"] = [n |-> op.n, t |-> op.t, side |-> "Sell"]
           /\ [op EXCEPT !.side = "Sell"] \in OrderIds
  BY DEF OrderIds

LEMMA DecidedTypes ==
    ASSUME NEW o \in KnownOrders, NEW status \in Final
    PROVE  /\ [o EXCEPT !.status = status]
                = [op |-> o.op, number |-> o.number, contracts |-> o.contracts, status |-> status]
           /\ [o EXCEPT !.status = status] \in KnownOrders
  BY DEF KnownOrders

\* An order is typed by what it is for.
LEMMA OrderTypes ==
    ASSUME JournalTypes, NEW op \in OrderIds, NEW n \in Nat, Order(op, n)
    PROVE  current' \in SentOrders /\ IntentCreated(current') \in Events
  <1>1. Len(journal) + 1 \in Nat  BY DEF JournalTypes
  <1>2. PICK request \in Requests :
            current' = [op |-> op, request |-> request, number |-> Len(journal) + 1, contracts |-> n]
    BY DEF Order
  <1>3. current' \in SentOrders  BY <1>1, <1>2 DEF SentOrders
  <1> QED  BY <1>3, EventTypes

LEMMA OrdersAreTyped ==
    ASSUME TypeInv, Buy \/ Sell
    PROVE  /\ \E op \in OrderIds, n \in Nat : Order(op, n)
           /\ current' \in SentOrders /\ IntentCreated(current') \in Events
           /\ counter' \in Nat
  <1>1. CASE Buy
    <2>1. /\ counter' = counter + 1 /\ counter' \in Nat /\ now \in Nat
          /\ Order([n |-> counter', t |-> now, side |-> "Buy"], Full)
      BY <1>1, RecoveryAssumption DEF Buy, TypeInv, WorkTypes
    <2>2. [n |-> counter', t |-> now, side |-> "Buy"] \in OrderIds /\ Full \in Nat
      BY <2>1 DEF OrderIds, Full
    <2> QED  BY <2>1, <2>2, OrderTypes DEF TypeInv
  <1>2. CASE Sell
    <2>1. /\ Order([position.op EXCEPT !.side = "Sell"], position.contracts) /\ counter' = counter
          /\ position.op \in OrderIds /\ position.contracts \in Nat
      BY <1>2 DEF Sell, TypeInv, BookTypes, Positions
    <2> QED  BY <2>1, SaleTypes, OrderTypes DEF TypeInv, WorkTypes
  <1> QED  BY <1>1, <1>2

LEMMA JournalTypesStep == ASSUME TypeInv, [Next]_vars PROVE JournalTypes'
  <1>1. /\ journal \in Seq(Events) /\ Len(journal) \in Nat /\ synced \in 1..Len(journal)
        /\ unsaved \in 0..Len(journal) /\ JournalTypes
    BY DEF TypeInv, JournalTypes
  <1>2. current \in SentOrders /\ position.op \in OrderIds
    BY DEF TypeInv, WorkTypes, BookTypes, Positions
  <1>3. /\ current.op \in OrderIds /\ current.contracts \in Nat
        /\ \A o \in orders : o.status \in Final \cup {"Open"}
    BY <1>2 DEF SentOrders, TypeInv, IolTypes, KnownOrders
  <1>4. ASSUME NEW e \in Events, Write(<<e>>), synced' \in {synced, Len(journal')} PROVE JournalTypes'
    BY <1>1, <1>4, WriteTypes DEF Write
  <1>5. CASE Buy \/ Sell
    <2>1. IntentCreated(current') \in Events  BY <1>5, OrdersAreTyped
    <2>2. Write(<<IntentCreated(current')>>) /\ synced' = synced  BY <1>5 DEF Buy, Sell, Order
    <2> QED  BY <1>4, <2>1, <2>2
  <1>6. CASE Simulate
    <2>1. Write(<<OrderState(current, pc')>>) /\ synced' = synced /\ pc' \in Final
      BY <1>6 DEF Simulate, Final
    <2> QED  BY <1>2, <1>4, <2>1, EventTypes
  <1>7. CASE Accept \/ Settle
    <2>1. PICK o \in orders : Write(<<OrderState(current, o.status)>>) /\ synced' = Len(journal')
      BY <1>7 DEF Accept, Settle, WriteSynced
    <2> QED  BY <1>2, <1>3, <1>4, <2>1, EventTypes
  <1>8. CASE Doubt
    <2>1. Write(<<OrderUnknown(current)>>) /\ synced' = Len(journal')  BY <1>8 DEF Doubt, WriteSynced
    <2> QED  BY <1>2, <1>4, <2>1, EventTypes
  <1>9. CASE BookBuy
    <2>1. Write(<<PositionOpened(current.op, current.contracts)>>) /\ synced' = synced
      BY <1>9 DEF BookBuy
    <2> QED  BY <1>3, <1>4, <2>1, EventTypes
  <1>10. CASE BookSale
    <2>1. Write(<<PositionClosed(position.op)>>) /\ synced' = synced  BY <1>10 DEF BookSale
    <2>2. 0 \in Nat  OBVIOUS
    <2>3. PositionClosed(position.op) \in Events  BY <1>2, <2>2, EventTypes
    <2> QED  BY <1>4, <2>1, <2>3
  <1>11. CASE PartlyFilled
    <2>1. Write(<<PartialFillExposure(current)>>) /\ synced' = synced  BY <1>11 DEF PartlyFilled
    <2> QED  BY <1>2, <1>4, <2>1, EventTypes
  <1>12. CASE Reconcile
    <2>1. CASE UNCHANGED <<journal, unsaved>>
      <3>1. synced' = synced  BY <1>12 DEF Reconcile, ReconcileReadonly, ReconcileAccount
      <3> QED  BY <1>1, <2>1, <3>1 DEF JournalTypes
    <2>2. CASE AdoptPosition
      <3>1. /\ Write(<<PositionOpened([n |-> 0, t |-> now, side |-> "Buy"], Holding)>>)
            /\ now \in Nat /\ Holding \in Nat
        BY <2>2, RecoveryAssumption DEF AdoptPosition, TypeInv, WorkTypes
      <3>2. [n |-> 0, t |-> now, side |-> "Buy"] \in OrderIds  BY <3>1 DEF OrderIds
      <3>3. synced' = synced  BY <1>12 DEF Reconcile, ReconcileReadonly, ReconcileAccount
      <3> QED  BY <1>4, <3>1, <3>2, <3>3, EventTypes
    <2>3. CASE Write(<<Event("Other")>>)
      <3>1. synced' = synced  BY <1>12 DEF Reconcile, ReconcileReadonly, ReconcileAccount
      <3> QED  BY <1>4, <2>3, <3>1, EventTypes
    <2> QED  BY <1>12, <2>1, <2>2, <2>3 DEF Reconcile, ReconcileReadonly, ReconcileAccount, Block
  <1>13. CASE Restart
    <2>1. Write(<<Event("Other")>>) /\ synced' = synced  BY <1>13 DEF Restart
    <2> QED  BY <1>4, <2>1, EventTypes
  <1>14. CASE Shutdown
    <2>1. journal' = Append(journal, Event("Other")) /\ synced' = Len(journal') /\ unsaved' = 0
      BY <1>14 DEF Shutdown
    <2>2. journal' \in Seq(Events) /\ Len(journal') = Len(journal) + 1  BY <1>1, <2>1, EventTypes
    <2> QED  BY <1>1, <2>1, <2>2 DEF JournalTypes
  <1>15. CASE PowerLoss
    <2>1. PICK surviving \in synced..Len(journal) :
              /\ journal' = SubSeq(journal, 1, surviving) /\ synced' = surviving
              /\ unsaved' = Max({0, unsaved - (Len(journal) - surviving)})
      BY <1>15 DEF PowerLoss
    <2>2. surviving \in Nat /\ 1 <= surviving /\ surviving \in 0..Len(journal)  BY <1>1
    <2>3. journal' \in Seq(Events) /\ Len(journal') = surviving
      BY <1>1, <2>1, <2>2, PartTypes
    <2>4. unsaved - (Len(journal) - surviving) \in Int  BY <1>1, <2>2
    <2>5. unsaved' \in 0..surviving  BY <1>1, <2>1, <2>2, <2>4, MaxOfTwo
    <2> QED  BY <2>1, <2>2, <2>3, <2>5 DEF JournalTypes
  <1>16. CASE Send \/ Unfilled \/ EndStep \/ Crash \/ RestartAborts \/ IOL \/ UNCHANGED vars
    <2>1. /\ journal' = journal /\ synced' \in {synced, Len(journal)} /\ unsaved' \in {unsaved, 0}
      BY <1>16 DEF Send, Unfilled, EndStep, Crash, RestartAborts, IOL, Arrive, Decide, disk, vars
    <2> QED  BY <1>1, <2>1 DEF JournalTypes
  <1> QED
    BY <1>5, <1>6, <1>7, <1>8, <1>9, <1>10, <1>11, <1>12, <1>13, <1>14, <1>15, <1>16
    DEF Next, Execute, Book, Fail

LEMMA ReplayTypes ==
    ASSUME NEW s \in Seq(Events), NEW b \in States PROVE Replay(b, s) \in States
  <1>1. PICK g \in [SUBSET (1..Len(s)) -> States] : Replay(b, s) = g[1..Len(s)]
    BY ReplayPlays
  <1>2. g[1..Len(s)] \in States  OBVIOUS
  <1> QED  BY <1>1, <1>2

\* What a restart starts from.
Base == [position |-> snapshot.position, trades |-> snapshot.trades, ok |-> TRUE]

LEMMA RecoveredIsReplay == Recovered = Replay(Base, EventsAfter(snapshot.seq))
  BY DEF Recovered, Replay, Base

LEMMA RecoveredTypes ==
    ASSUME JournalTypes, SnapshotType
    PROVE  /\ Base \in States /\ EventsAfter(snapshot.seq) \in Seq(Events)
           /\ Recovered \in States
  <1>1. Base \in States  BY DEF SnapshotType, Base, States
  <1>2. snapshot.seq + 1 \in Nat \ {0} /\ Len(journal) \in 0..Len(journal)
    BY DEF SnapshotType, JournalTypes
  <1>3. EventsAfter(snapshot.seq) \in Seq(Events)  BY <1>2, PartTypes DEF EventsAfter
  <1> QED  BY <1>1, <1>3, RecoveredIsReplay, ReplayTypes

LEMMA SnapshotTypeStep == ASSUME TypeInv, [Next]_vars PROVE SnapshotType'
  <1>1. CASE EndStep \/ Shutdown
    <2>1. /\ Snapshot.seq \in Nat /\ Len(journal') \in Nat
          /\ Snapshot = [seq |-> Len(journal), position |-> position, trades |-> trades,
                         counter |-> counter, halted |-> halted]
      BY JournalTypesStep DEF TypeInv, JournalTypes, Snapshot
    <2>2. snapshot' \in {Snapshot, [Snapshot EXCEPT !.seq = Len(journal')]}
      BY <1>1 DEF EndStep, Shutdown
    <2> QED  BY <2>1, <2>2 DEF TypeInv, BookTypes, AlarmTypes, WorkTypes, SnapshotType
  <1>2. CASE ~(EndStep \/ Shutdown)
    <2>1. snapshot' = snapshot
      BY <1>2
      DEF Next, Execute, Buy, Sell, Order, Send, Simulate, Accept, Settle, Doubt, Book, BookBuy,
          BookSale, Unfilled, PartlyFilled, Reconcile, ReconcileReadonly, ReconcileAccount, Fail,
          Crash, PowerLoss, Fall, Restart, RestartAborts, IOL, Arrive, Decide, disk, vars
    <2> QED  BY <2>1 DEF TypeInv, SnapshotType
  <1> QED  BY <1>1, <1>2

LEMMA BookTypesStep == ASSUME TypeInv, [Next]_vars PROVE BookTypes'
  <1>1. CASE BookBuy
    BY <1>1 DEF BookBuy, TypeInv, BookTypes, WorkTypes, SentOrders, Positions
  <1>2. CASE BookSale
    BY <1>2, PlaceTypes DEF BookSale, TypeInv, BookTypes
  <1>3. CASE AdoptPosition
    <2>1. now \in Nat /\ Holding \in Nat  BY RecoveryAssumption DEF TypeInv, WorkTypes
    <2>2. [op |-> [n |-> 0, t |-> now, side |-> "Buy"], contracts |-> Holding] \in Positions
      BY <2>1 DEF Positions, OrderIds
    <2> QED  BY <1>3, <2>2 DEF AdoptPosition, TypeInv, BookTypes
  <1>4. CASE Restart
    <2>1. Recovered \in States  BY RecoveredTypes DEF TypeInv
    <2> QED  BY <1>4, <2>1 DEF Restart, BookTypes, States
  <1>5. CASE ~(BookBuy \/ BookSale \/ AdoptPosition \/ Restart)
    <2>1. UNCHANGED book
      BY <1>5
      DEF Next, Execute, Buy, Sell, Order, Send, Simulate, Accept, Settle, Doubt, Book, Unfilled,
          PartlyFilled, EndStep, Shutdown, Reconcile, ReconcileReadonly, ReconcileAccount, Block, Fail,
          Crash, PowerLoss, Fall, Down, RestartAborts, IOL, Arrive, Decide, memory, vars
    <2> QED  BY <2>1 DEF TypeInv, BookTypes, book
  <1> QED  BY <1>1, <1>2, <1>3, <1>4, <1>5

LEMMA AlarmTypesStep == ASSUME TypeInv, [Next]_vars PROVE AlarmTypes'
  <1>1. CASE Doubt \/ PartlyFilled
    <2>1. pending' = pending \cup {current.op} /\ blocked' = TRUE /\ halted' = TRUE
      BY <1>1 DEF Doubt, PartlyFilled, Alarm
    <2> QED  BY <2>1 DEF TypeInv, AlarmTypes, WorkTypes, SentOrders
  <1>2. CASE Restart
    <2>1. /\ halted' = snapshot.halted /\ blocked' = FALSE /\ pending' = Unresolved(journal)
      BY <1>2 DEF Restart
    <2> QED  BY <2>1, UnresolvedTypes DEF TypeInv, SnapshotType, AlarmTypes
  <1>3. CASE Shutdown \/ Fail
    BY <1>3 DEF Shutdown, Fail, Crash, PowerLoss, Fall, Down, AlarmTypes
  <1>4. CASE Reconcile
    <2>1. halted' \in {halted, TRUE} /\ blocked' \in {blocked, TRUE} /\ pending' = pending
      BY <1>4 DEF Reconcile, ReconcileReadonly, ReconcileAccount, Block, AdoptPosition
    <2> QED  BY <2>1 DEF TypeInv, AlarmTypes
  <1>5. CASE ~(Doubt \/ PartlyFilled \/ Restart \/ Shutdown \/ Fail \/ Reconcile)
    <2>1. UNCHANGED alarm
      BY <1>5
      DEF Next, Execute, Buy, Sell, Order, Send, Simulate, Accept, Settle, Book, BookBuy, BookSale,
          Unfilled, EndStep, RestartAborts, IOL, Arrive, Decide, memory, vars
    <2> QED  BY <2>1 DEF TypeInv, AlarmTypes, alarm
  <1> QED  BY <1>1, <1>2, <1>3, <1>4, <1>5

LEMMA WorkTypesStep == ASSUME TypeInv, [Next]_vars PROVE WorkTypes'
  <1>1. CASE Buy \/ Sell
    <2>1. now' = now  BY <1>1 DEF Buy, Sell, Order
    <2> QED  BY <1>1, <2>1, OrdersAreTyped DEF TypeInv, WorkTypes
  <1>2. CASE Restart
    BY <1>2, PlaceTypes, RecoveryAssumption DEF Restart, TypeInv, WorkTypes, SnapshotType
  <1>3. CASE ~(Buy \/ Sell \/ Restart)
    <2>1. counter' \in {counter, 0} /\ current' \in {current, NoOrder} /\ now' = now
      BY <1>3
      DEF Next, Execute, Send, Simulate, Accept, Settle, Doubt, Book, BookBuy, BookSale, Unfilled,
          PartlyFilled, EndStep, Shutdown, Reconcile, ReconcileReadonly, ReconcileAccount, Fail, Crash,
          PowerLoss, Fall, Down, RestartAborts, IOL, Arrive, Decide, memory, vars
    <2> QED  BY <2>1, PlaceTypes DEF TypeInv, WorkTypes
  <1> QED  BY <1>1, <1>2, <1>3

\* An order that arrives changes nothing in what the account holds.
LEMMA ArriveHolds ==
    ASSUME TypeInv, Arrive
    PROVE  IolTypes' /\ Holding' = Holding
  <1>1. PICK o \in wire :
            /\ wire' = wire \ {o}
            /\ orders' = orders \cup {[op |-> o.op, number |-> o.number,
                                      contracts |-> o.contracts, status |-> "Open"]}
    BY DEF Arrive
  <1> DEFINE q == [op |-> o.op, number |-> o.number, contracts |-> o.contracts, status |-> "Open"]
  <1>2. q \in KnownOrders /\ q.status = "Open"
    BY DEF TypeInv, IolTypes, SentOrders, KnownOrders
  <1>3. orders' = orders \cup {q} /\ orders \in SUBSET KnownOrders /\ IsFiniteSet(orders)
    BY <1>1 DEF TypeInv, IolTypes
  <1> HIDE DEF q
  <1>4. orders' \in SUBSET KnownOrders /\ IsFiniteSet(orders') /\ q \in orders'
    BY <1>2, <1>3, FS_AddElement
  <1>5. IolTypes'  BY <1>1, <1>4 DEF TypeInv, IolTypes
  <1>6. CASE q \in orders
    <2>1. orders' = orders  BY <1>3, <1>6
    <2>2. Holding = Net(orders) /\ Holding' = Net(orders')  BY HoldingIsNet
    <2> QED  BY <1>5, <2>1, <2>2
  <1>7. CASE q \notin orders
    <2>1. orders' \ {q} = orders  BY <1>3, <1>7
    <2>2. /\ Net(orders') = Net(orders) + Share(q) /\ Net(orders) \in Int
      BY <1>4, <2>1, NetLess
    <2>3. Share(q) = 0  BY <1>2, FilledTypes DEF Share
    <2>4. Holding = Net(orders) /\ Holding' = Net(orders')  BY HoldingIsNet
    <2> QED  BY <1>5, <2>2, <2>3, <2>4
  <1> QED  BY <1>6, <1>7

\* IOL sells only what is there.
LEMMA DecideHolds ==
    ASSUME TypeInv, Decide
    PROVE  IolTypes' /\ Holding' \in Nat
  <1>1. PICK o \in orders, status \in Final :
            /\ o.status = "Open" /\ wire' = wire
            /\ status = "Partial" => o.contracts > 1
            /\ o.op.side = "Sell" /\ status \in {"Executed", "Partial"} => Holding >= o.contracts
            /\ orders' = (orders \ {o}) \cup {[o EXCEPT !.status = status]}
    BY DEF Decide
  <1> DEFINE q == [o EXCEPT !.status = status]
  <1>2. /\ o \in KnownOrders /\ orders \in SUBSET KnownOrders /\ IsFiniteSet(orders)
        /\ Holding \in Nat
    BY DEF TypeInv, IolTypes
  <1>3. /\ q \in KnownOrders /\ q.status = status /\ q.op = o.op /\ q.contracts = o.contracts
        /\ o.contracts \in Nat
    BY <1>2, DecidedTypes DEF KnownOrders
  <1>4. orders' = (orders \ {o}) \cup {q}  BY <1>1
  <1> HIDE DEF q
  <1> DEFINE R == orders \ {o}
  <1>5. R \in SUBSET KnownOrders /\ IsFiniteSet(R)  BY <1>2, FS_RemoveElement
  <1>6. orders' \in SUBSET KnownOrders /\ IsFiniteSet(orders') /\ q \in orders'
    BY <1>3, <1>4, <1>5, FS_AddElement
  <1>7. IolTypes'  BY <1>1, <1>6 DEF TypeInv, IolTypes
  <1>8. Net(R) = Holding
    <2>1. Net(orders) = Net(R) + Share(o) /\ Net(R) \in Int  BY <1>2, NetLess
    <2>2. Share(o) = 0  BY <1>1, <1>2, FilledTypes DEF Share
    <2> QED  BY <2>1, <2>2, HoldingIsNet
  <1>9. CASE q \in R
    <2>1. orders' = R  BY <1>4, <1>9
    <2>2. Holding' = Net(orders')  BY HoldingIsNet
    <2> QED  BY <1>2, <1>7, <1>8, <2>1, <2>2
  <1>10. CASE q \notin R
    <2>1. orders' \ {q} = R  BY <1>4, <1>10
    <2>2. Net(orders') = Net(R) + Share(q) /\ Share(q) \in Int
      <3> HIDE DEF R
      <3> QED  BY <1>6, <2>1, NetLess
    <2>3. FilledContracts(q) \in Nat /\ FilledContracts(q) <= o.contracts
      BY <1>1, <1>3 DEF FilledContracts, Final
    <2>4. Holding + Share(q) \in Nat
      <3>1. CASE o.op.side = "Sell" /\ status \in {"Executed", "Partial"}
        BY <1>1, <1>2, <1>3, <2>3, <3>1 DEF Share
      <3>2. CASE o.op.side = "Sell" /\ status \notin {"Executed", "Partial"}
        <4>1. FilledContracts(q) = 0  BY <1>3, <3>2 DEF FilledContracts
        <4> QED  BY <1>2, <1>3, <3>2, <4>1 DEF Share
      <3>3. CASE o.op.side # "Sell"
        BY <1>2, <1>3, <2>3, <3>3 DEF Share
      <3> QED  BY <3>1, <3>2, <3>3
    <2> HIDE DEF R
    <2>5. Holding' = Net(orders')  BY HoldingIsNet
    <2> QED  BY <1>7, <1>8, <2>2, <2>4, <2>5
  <1> QED  BY <1>9, <1>10

LEMMA IolTypesStep == ASSUME TypeInv, [Next]_vars PROVE IolTypes' /\ Holding' \in Nat
  <1>1. CASE Send
    <2>1. wire' = wire \cup {current} /\ orders' = orders  BY <1>1 DEF Send
    <2>2. Holding' = Holding  BY <2>1 DEF Holding, ContractsOf
    <2> QED  BY <2>1, <2>2 DEF TypeInv, IolTypes, WorkTypes
  <1>2. CASE Arrive  BY <1>2, ArriveHolds DEF TypeInv
  <1>3. CASE Decide  BY <1>3, DecideHolds
  <1>4. CASE ~(Send \/ Arrive \/ Decide)
    <2>1. UNCHANGED iol
      BY <1>4
      DEF Next, Execute, Buy, Sell, Order, Simulate, Accept, Settle, Doubt, Book, BookBuy, BookSale,
          Unfilled, PartlyFilled, EndStep, Shutdown, Reconcile, ReconcileReadonly, ReconcileAccount,
          Fail, Crash, PowerLoss, Fall, Down, Restart, RestartAborts, IOL, vars
    <2>2. Holding' = Holding  BY <2>1 DEF Holding, ContractsOf, iol
    <2> QED  BY <2>1, <2>2 DEF TypeInv, IolTypes, iol
  <1> QED  BY <1>1, <1>2, <1>3, <1>4

LEMMA SettingTypesStep == ASSUME TypeInv, [Next]_vars PROVE SettingTypes'
  <1>1. UNCHANGED setting
    BY DEF Next, Execute, Buy, Sell, Order, Send, Simulate, Accept, Settle, Doubt, Book, BookBuy,
           BookSale, Unfilled, PartlyFilled, EndStep, Shutdown, Reconcile, ReconcileReadonly,
           ReconcileAccount, Fail, Crash, PowerLoss, Fall, Down, Restart, RestartAborts, IOL, Arrive,
           Decide, vars
  <1> QED  BY <1>1 DEF TypeInv, SettingTypes, setting

LEMMA TypeInvStarts == ASSUME Init PROVE TypeInv
  <1>1. /\ journal = <<Event("Other")>> /\ synced = 1 /\ unsaved = 0 /\ now = 1
        /\ position = NoPosition /\ trades = 0 /\ counter = 0 /\ halted = FALSE /\ pending = {}
        /\ blocked = FALSE /\ snapshot = Snapshot /\ current = NoOrder /\ wire = {} /\ orders = {}
        /\ route \in Routes /\ failure \in Failures
    BY DEF Init
  <1>2. journal \in Seq(Events) /\ Len(journal) = 1  BY <1>1, EventTypes
  <1>3. Holding = 0
    <2>1. IsFiniteSet({})  BY FS_EmptySet
    <2>2. Filled({}) = 0
      <3> DEFINE S == {}
      <3>1. IsFiniteSet(S) /\ \A o \in S : FilledContracts(o) \in Int  BY <2>1
      <3> HIDE DEF S
      <3>2. \E total \in [SUBSET S -> Int] :
                Sums(total, S, [o \in S |-> FilledContracts(o)]) /\ Filled(S) = total[S]
        BY <3>1, FilledTotal
      <3> QED  BY <3>2 DEF Sums, S
    <2>3. \A side : {o \in orders : o.op.side = side} = {}  BY <1>1
    <2>4. \A side : BySide(side, orders) = 0  BY <2>2, <2>3 DEF BySide
    <2> QED  BY <2>4, HoldingIsNet DEF Net
  <1>4. JournalTypes  BY <1>1, <1>2 DEF JournalTypes
  <1>5. SnapshotType
    BY <1>1, <1>2, PlaceTypes DEF SnapshotType, Snapshot
  <1>7. BookTypes /\ AlarmTypes /\ WorkTypes
    <2>1. 1 \in 1..MaxRuns  BY RecoveryAssumption
    <2>2. BookTypes  BY <1>1, PlaceTypes DEF BookTypes
    <2>3. AlarmTypes  BY <1>1 DEF AlarmTypes
    <2>4. WorkTypes  BY <1>1, <2>1, PlaceTypes DEF WorkTypes
    <2> QED  BY <2>2, <2>3, <2>4
  <1>6. IolTypes /\ SettingTypes  BY <1>1, FS_EmptySet DEF IolTypes, SettingTypes
  <1> QED  BY <1>3, <1>4, <1>5, <1>6, <1>7 DEF TypeInv

LEMMA TypeInvStep == ASSUME TypeInv, [Next]_vars PROVE TypeInv'
  BY JournalTypesStep, SnapshotTypeStep, BookTypesStep, AlarmTypesStep, WorkTypesStep, IolTypesStep,
     SettingTypesStep
  DEF TypeInv

LEMMA TypeInvHolds == Spec => []TypeInv
  BY TypeInvStarts, TypeInvStep, PTL DEF Spec

\* Every variable keeps its type, and no account sells what it does not hold:
\* the position a restart adopts (reconstruct_account_position) is a number of
\* contracts.
THEOREM TypesHold == Spec => []TypeOK
  <1>1. TypeInv => TypeOK
    BY DEF TypeInv, JournalTypes, SnapshotType, BookTypes, AlarmTypes, WorkTypes, SettingTypes,
           SentOrders, TypeOK
  <1> QED  BY <1>1, TypeInvHolds, PTL

-----------------------------------------------------------------------------
(* What a restart replays.                                                 *)

\* A buy is sent without a position, a sale for the whole of it.
Sides ==
    pc \in Hand =>
        /\ current.op.side \in {"Buy", "Sell"}
        /\ current.op.side = "Buy" => position = NoPosition /\ current.contracts = Full
        /\ current.op.side = "Sell" => position # NoPosition /\ current.contracts = position.contracts

\* The snapshot and the events after it give what the program holds, whatever it
\* is doing.
Replayed ==
    failure # "PowerLoss" =>
        /\ snapshot.seq <= Len(journal)
        /\ Recovered.position = position /\ Recovered.trades = trades

BookInv == TypeInv /\ Sides /\ Replayed

LEMMA SidesStep == ASSUME TypeInv, Sides, [Next]_vars PROVE Sides'
  <1>1. CASE Buy
    BY <1>1 DEF Buy, Order, Sides, book
  <1>2. CASE Sell
    <2>1. /\ Order([position.op EXCEPT !.side = "Sell"], position.contracts)
          /\ position # NoPosition /\ position.op \in OrderIds
      BY <1>2 DEF Sell, TypeInv, BookTypes, Positions
    <2>2. /\ current'.op = [position.op EXCEPT !.side = "Sell"]
          /\ current'.contracts = position.contracts /\ position' = position
      BY <2>1 DEF Order, book
    <2>3. current'.op.side = "Sell"  BY <2>1, <2>2, SaleTypes
    <2> QED  BY <2>1, <2>2, <2>3 DEF Sides
  <1>3. CASE Send \/ Simulate \/ Accept \/ Settle \/ IOL \/ UNCHANGED vars
    <2>1. UNCHANGED <<book, current>> /\ (pc \in Hand \/ pc' = pc)
      BY <1>3 DEF Send, Simulate, Accept, Settle, IOL, Arrive, Decide, Hand, memory, vars
    <2> QED  BY <2>1 DEF Sides, book
  <1>4. CASE ~(Buy \/ Sell \/ Send \/ Simulate \/ Accept \/ Settle \/ IOL \/ UNCHANGED vars)
    <2>1. pc' \notin Hand
      BY <1>4
      DEF Next, Execute, Doubt, Book, BookBuy, BookSale, Unfilled, PartlyFilled, EndStep, Shutdown,
          Reconcile, ReconcileReadonly, ReconcileAccount, Block, AdoptPosition, Fail, Crash, PowerLoss,
          Fall, Down, Restart, RestartAborts, Hand
    <2> QED  BY <2>1 DEF Sides
  <1> QED  BY <1>1, <1>2, <1>3, <1>4

LEMMA RecoveredLater ==
    /\ Recovered = Replay(Base, EventsAfter(snapshot.seq))
    /\ Recovered' = Replay(Base', SubSeq(journal', snapshot'.seq + 1, Len(journal')))
  BY DEF Recovered, Replay, Base, EventsAfter

LEMMA PartGrows ==
    ASSUME NEW S, NEW s \in Seq(S), NEW e \in S, NEW k \in Nat, k <= Len(s)
    PROVE  SubSeq(Append(s, e), k + 1, Len(s) + 1) = Append(SubSeq(s, k + 1, Len(s)), e)
  <1> DEFINE n == Len(s)
             one == SubSeq(Append(s, e), k + 1, n + 1)
             other == Append(SubSeq(s, k + 1, n), e)
  <1>1. n \in Nat /\ Append(s, e) \in Seq(S) /\ Len(Append(s, e)) = n + 1  OBVIOUS
  <1>2. /\ one \in Seq(S) /\ Len(one) = n - k + 1
        /\ \A i \in 1..n - k + 1 : one[i] = Append(s, e)[k + i]
    OBVIOUS
  <1>3. /\ SubSeq(s, k + 1, n) \in Seq(S) /\ Len(SubSeq(s, k + 1, n)) = n - k
        /\ \A i \in 1..n - k : SubSeq(s, k + 1, n)[i] = s[k + i]
    OBVIOUS
  <1>4. /\ other \in Seq(S) /\ Len(other) = n - k + 1
    BY <1>3
  <1>5. \A i \in 1..n - k + 1 : one[i] = other[i]
    <2> SUFFICES ASSUME NEW i \in 1..n - k + 1 PROVE one[i] = other[i]  OBVIOUS
    <2>1. CASE i \in 1..n - k  BY <1>1, <1>2, <1>3, <2>1
    <2>2. CASE i = n - k + 1  BY <1>1, <1>2, <1>3, <2>2
    <2> QED  BY <1>1, <2>1, <2>2
  <1> HIDE DEF one, other
  <1>6. one = other  BY <1>1, <1>2, <1>4, <1>5
  <1> QED  BY <1>6 DEF one, other

\* An event written is one more to replay.
LEMMA ReplayWrite ==
    ASSUME JournalTypes, SnapshotType, snapshot.seq <= Len(journal), NEW e \in Events,
           journal' = journal \o <<e>>, snapshot' = snapshot
    PROVE  Recovered' = Apply(Recovered, e) /\ snapshot'.seq <= Len(journal')
  <1>1. /\ journal \in Seq(Events) /\ Len(journal) \in Nat /\ snapshot.seq \in Nat
    BY DEF JournalTypes, SnapshotType
  <1>2. /\ journal' = Append(journal, e) /\ Len(journal') = Len(journal) + 1
        /\ snapshot'.seq = snapshot.seq /\ Base' = Base
    BY <1>1, WriteOne DEF Base
  <1>3. SubSeq(Append(journal, e), snapshot.seq + 1, Len(journal) + 1)
          = Append(SubSeq(journal, snapshot.seq + 1, Len(journal)), e)
    BY <1>1, PartGrows
  <1>4. EventsAfter(snapshot.seq) \in Seq(Events) /\ Base \in States  BY RecoveredTypes
  <1>5. Replay(Base, Append(EventsAfter(snapshot.seq), e)) = Apply(Replay(Base, EventsAfter(snapshot.seq)), e)
    BY <1>4, ReplayOneMore
  <1>6. SubSeq(journal', snapshot'.seq + 1, Len(journal')) = Append(EventsAfter(snapshot.seq), e)
    BY <1>2, <1>3 DEF EventsAfter
  <1>7. Recovered' = Replay(Base, Append(EventsAfter(snapshot.seq), e))
    BY <1>2, <1>6, RecoveredLater
  <1>8. snapshot'.seq <= Len(journal')  BY <1>1, <1>2
  <1> QED  BY <1>5, <1>7, <1>8, RecoveredLater

\* What an event does to a state that holds p and t.
LEMMA ApplyEvent ==
    ASSUME NEW a \in States, NEW e \in Events
    PROVE  /\ e.kind \notin {"Opened", "Closed"} =>
                Apply(a, e).position = a.position /\ Apply(a, e).trades = a.trades
           /\ e.kind = "Opened" /\ a.position = NoPosition =>
                /\ Apply(a, e).position = [op |-> e.op, contracts |-> e.contracts]
                /\ Apply(a, e).trades = a.trades
           /\ e.kind = "Closed" /\ a.position # NoPosition /\ a.position.op = e.op =>
                /\ Apply(a, e).position = NoPosition
                /\ Apply(a, e).trades = a.trades + 1
  <1>1. Apply(a, e) = Then(a.position, a.trades, a.ok, e)  BY ApplyTypes
  <1>2. CASE e.kind \notin {"Opened", "Closed"}
    <2>1. Then(a.position, a.trades, a.ok, e)
            = [position |-> a.position, trades |-> a.trades, ok |-> a.ok]
      BY <1>2 DEF Then
    <2> QED  BY <1>1, <1>2, <2>1
  <1>3. CASE e.kind = "Opened" /\ a.position = NoPosition
    <2>1. Then(a.position, a.trades, a.ok, e)
            = [position |-> [op |-> e.op, contracts |-> e.contracts], trades |-> a.trades, ok |-> a.ok]
      BY <1>3 DEF Then
    <2> QED  BY <1>1, <1>3, <2>1
  <1>4. CASE e.kind = "Closed" /\ a.position # NoPosition /\ a.position.op = e.op
    <2>1. Then(a.position, a.trades, a.ok, e)
            = [position |-> NoPosition, trades |-> a.trades + 1, ok |-> a.ok]
      BY <1>4 DEF Then
    <2> QED  BY <1>1, <1>4, <2>1
  <1> QED  BY <1>2, <1>3, <1>4

LEMMA EventKinds ==
    /\ Event("Other").kind = "Other"
    /\ \A o : /\ IntentCreated(o).kind = "Intent" /\ OrderUnknown(o).kind = "Unknown"
              /\ PartialFillExposure(o).kind = "Exposure"
              /\ \A status : OrderState(o, status).kind = "State"
    /\ \A op, n : /\ PositionOpened(op, n).kind = "Opened"
                  /\ PositionOpened(op, n).op = op /\ PositionOpened(op, n).contracts = n
    /\ \A op : PositionClosed(op).kind = "Closed" /\ PositionClosed(op).op = op
  BY DEF Event, IntentCreated, OrderUnknown, PartialFillExposure, OrderState, PositionOpened,
         PositionClosed

\* A snapshot leaves nothing to replay.
LEMMA SnapshotReplays ==
    ASSUME TypeInv, EndStep \/ Shutdown
    PROVE  /\ snapshot'.seq = Len(journal') /\ Len(journal') \in Nat
           /\ Recovered'.position = position' /\ Recovered'.trades = trades'
  <1>1. /\ snapshot'.seq = Len(journal') /\ Len(journal') \in Nat
        /\ snapshot'.position = position /\ snapshot'.trades = trades
        /\ position' = position /\ trades' = trades
    <2>1. Len(journal) \in Nat /\ journal \in Seq(Events)  BY DEF TypeInv, JournalTypes
    <2>2. CASE EndStep
      BY <2>1, <2>2 DEF EndStep, Snapshot, book
    <2>3. CASE Shutdown
      <3>1. snapshot' = [seq |-> Len(journal'), position |-> position, trades |-> trades,
                         counter |-> counter, halted |-> halted]
        BY <2>3 DEF Shutdown, Snapshot
      <3>2. Len(journal') = Len(journal) + 1  BY <2>1, <2>3, EventTypes DEF Shutdown
      <3> QED  BY <2>1, <2>3, <3>1, <3>2 DEF Shutdown, Down, book
    <2> QED  BY <2>2, <2>3
  <1>2. Base' = [position |-> position, trades |-> trades, ok |-> TRUE]  BY <1>1 DEF Base
  <1>3. Base' \in States  BY <1>2 DEF TypeInv, BookTypes, States
  <1>4. SubSeq(journal', snapshot'.seq + 1, Len(journal')) = <<>>  BY <1>1
  <1>5. Recovered' = Base'  BY <1>3, <1>4, RecoveredLater, ReplayNothing
  <1> QED  BY <1>1, <1>2, <1>5

LEMMA ReplayedStep == ASSUME BookInv, [Next]_vars PROVE Replayed'
  <1>1. /\ JournalTypes /\ SnapshotType /\ Recovered \in States
    BY RecoveredTypes DEF BookInv, TypeInv
  <1>2. failure' = failure
    BY DEF Next, Execute, Buy, Sell, Order, Send, Simulate, Accept, Settle, Doubt, Book, BookBuy,
           BookSale, Unfilled, PartlyFilled, EndStep, Shutdown, Reconcile, ReconcileReadonly,
           ReconcileAccount, Fail, Crash, PowerLoss, Fall, Down, Restart, RestartAborts, IOL, Arrive,
           Decide, setting, vars
  <1> SUFFICES ASSUME failure # "PowerLoss"
               PROVE  /\ snapshot'.seq <= Len(journal')
                      /\ Recovered'.position = position' /\ Recovered'.trades = trades'
    BY <1>2 DEF Replayed
  <1>3. /\ snapshot.seq <= Len(journal)
        /\ Recovered.position = position /\ Recovered.trades = trades
    BY DEF BookInv, Replayed
  <1>4. ASSUME NEW e \in Events, Write(<<e>>), snapshot' = snapshot
        PROVE  /\ snapshot'.seq <= Len(journal')
               /\ e.kind \notin {"Opened", "Closed"} =>
                    Recovered'.position = position /\ Recovered'.trades = trades
               /\ e.kind = "Opened" /\ position = NoPosition =>
                    /\ Recovered'.position = [op |-> e.op, contracts |-> e.contracts]
                    /\ Recovered'.trades = trades
               /\ e.kind = "Closed" /\ position # NoPosition /\ position.op = e.op =>
                    Recovered'.position = NoPosition /\ Recovered'.trades = trades + 1
    <2>1. Recovered' = Apply(Recovered, e) /\ snapshot'.seq <= Len(journal')
      BY <1>1, <1>3, <1>4, ReplayWrite DEF Write
    <2> QED  BY <1>1, <1>3, <2>1, ApplyEvent
  <1>5. ASSUME NEW e \in Events, Write(<<e>>), snapshot' = snapshot, UNCHANGED book,
               e.kind \notin {"Opened", "Closed"}
        PROVE  /\ snapshot'.seq <= Len(journal')
               /\ Recovered'.position = position' /\ Recovered'.trades = trades'
    BY <1>4, <1>5 DEF book
  <1>6. current \in SentOrders /\ position.op \in OrderIds /\ now \in Nat /\ Holding \in Nat
    BY RecoveryAssumption DEF BookInv, TypeInv, WorkTypes, BookTypes, Positions
  <1>7. CASE Buy \/ Sell
    <2>1. IntentCreated(current') \in Events  BY <1>7, OrdersAreTyped DEF BookInv
    <2>2. Write(<<IntentCreated(current')>>) /\ snapshot' = snapshot /\ UNCHANGED book
      BY <1>7 DEF Buy, Sell, Order
    <2> QED  BY <1>5, <2>1, <2>2, EventKinds
  <1>8. CASE Simulate
    <2>1. Write(<<OrderState(current, pc')>>) /\ snapshot' = snapshot /\ UNCHANGED book /\ pc' \in Final
      BY <1>8 DEF Simulate, Final
    <2> QED  BY <1>5, <1>6, <2>1, EventTypes, EventKinds
  <1>9. CASE Accept \/ Settle
    <2>1. PICK o \in orders :
              Write(<<OrderState(current, o.status)>>) /\ snapshot' = snapshot /\ UNCHANGED book
      BY <1>9 DEF Accept, Settle, WriteSynced
    <2>2. o.status \in Final \cup {"Open"}  BY DEF BookInv, TypeInv, IolTypes, KnownOrders
    <2> QED  BY <1>5, <1>6, <2>1, <2>2, EventTypes, EventKinds
  <1>10. CASE Doubt
    <2>1. Write(<<OrderUnknown(current)>>) /\ snapshot' = snapshot /\ UNCHANGED book
      BY <1>10 DEF Doubt, WriteSynced
    <2> QED  BY <1>5, <1>6, <2>1, EventTypes, EventKinds
  <1>11. CASE PartlyFilled
    <2>1. Write(<<PartialFillExposure(current)>>) /\ snapshot' = snapshot /\ UNCHANGED book
      BY <1>11 DEF PartlyFilled
    <2> QED  BY <1>5, <1>6, <2>1, EventTypes, EventKinds
  <1>12. CASE BookBuy
    <2>1. /\ Write(<<PositionOpened(current.op, current.contracts)>>) /\ snapshot' = snapshot
          /\ position' = [op |-> current.op, contracts |-> current.contracts] /\ trades' = trades
          /\ position = NoPosition
      BY <1>12 DEF BookBuy, BookInv, Sides, Hand
    <2>2. PositionOpened(current.op, current.contracts) \in Events
      BY <1>6, EventTypes DEF SentOrders
    <2> QED  BY <1>4, <2>1, <2>2, EventKinds
  <1>13. CASE BookSale
    <2>1. /\ Write(<<PositionClosed(position.op)>>) /\ snapshot' = snapshot
          /\ position' = NoPosition /\ trades' = trades + 1 /\ position # NoPosition
      BY <1>13 DEF BookSale, BookInv, Sides, Hand
    <2>2. 0 \in Nat  OBVIOUS
    <2>3. PositionClosed(position.op) \in Events  BY <1>6, <2>2, EventTypes
    <2> QED  BY <1>4, <2>1, <2>3, EventKinds
  <1>14. CASE Restart
    <2>1. /\ Write(<<Event("Other")>>) /\ snapshot' = snapshot
          /\ position' = Recovered.position /\ trades' = Recovered.trades
      BY <1>14 DEF Restart
    <2>2. UNCHANGED book  BY <1>3, <2>1 DEF book
    <2> QED  BY <1>5, <2>1, <2>2, EventTypes, EventKinds
  <1>15. CASE Reconcile /\ AdoptPosition /\ position = NoPosition
    <2>1. snapshot' = snapshot /\ trades' = trades /\ position' =
              [op |-> [n |-> 0, t |-> now, side |-> "Buy"], contracts |-> Holding]
      BY <1>15 DEF AdoptPosition, Reconcile, ReconcileReadonly, ReconcileAccount
    <2>2. Write(<<PositionOpened([n |-> 0, t |-> now, side |-> "Buy"], Holding)>>)
      BY <1>15 DEF AdoptPosition
    <2>3. [n |-> 0, t |-> now, side |-> "Buy"] \in OrderIds  BY <1>6 DEF OrderIds
    <2>4. PositionOpened([n |-> 0, t |-> now, side |-> "Buy"], Holding) \in Events
      BY <1>6, <2>3, EventTypes
    <2> QED  BY <1>4, <1>15, <2>1, <2>2, <2>4, EventKinds
  <1>16. CASE Reconcile /\ Block
    <2>1. Write(<<Event("Other")>>) /\ snapshot' = snapshot /\ UNCHANGED book
      BY <1>16 DEF Block, Reconcile, ReconcileReadonly, ReconcileAccount
    <2> QED  BY <1>5, <2>1, EventTypes, EventKinds
  <1>17. CASE EndStep \/ Shutdown
    BY <1>17, SnapshotReplays DEF BookInv
  <1>18. CASE PowerLoss  BY <1>18 DEF PowerLoss
  <1>19. CASE \/ Send \/ Unfilled \/ Crash \/ RestartAborts \/ IOL \/ UNCHANGED vars
              \/ (Reconcile /\ UNCHANGED <<book, journal>>)
    <2>1. journal' = journal /\ snapshot' = snapshot /\ UNCHANGED book
      BY <1>19
      DEF Send, Unfilled, Crash, Fall, Down, RestartAborts, IOL, Arrive, Decide, disk, memory, vars,
          Reconcile, ReconcileReadonly, ReconcileAccount
    <2>2. Recovered' = Recovered  BY <2>1 DEF Recovered, EventsAfter
    <2> QED  BY <1>3, <2>1, <2>2 DEF book
  <1>20. Reconcile =>
            (AdoptPosition /\ position = NoPosition) \/ Block \/ UNCHANGED <<book, journal>>
    BY DEF Reconcile, ReconcileReadonly, ReconcileAccount
  <1> QED
    BY <1>7, <1>8, <1>9, <1>10, <1>11, <1>12, <1>13, <1>14, <1>15, <1>16, <1>17, <1>18, <1>19, <1>20
    DEF Next, Execute, Book, Fail

LEMMA BookInvStarts == ASSUME Init PROVE BookInv
  <1>1. TypeInv  BY TypeInvStarts
  <1>2. Sides  BY DEF Init, Sides, Hand
  <1>3. /\ journal = <<Event("Other")>> /\ snapshot.seq = Len(journal)
        /\ snapshot.position = position /\ snapshot.trades = trades
    BY DEF Init, Snapshot
  <1>4. Len(journal) = 1  BY <1>3
  <1>5. EventsAfter(snapshot.seq) = <<>>  BY <1>3, <1>4 DEF EventsAfter
  <1>6. Base \in States  BY <1>1, RecoveredTypes DEF TypeInv
  <1>7. Recovered = Base  BY <1>5, <1>6, RecoveredLater, ReplayNothing
  <1> QED  BY <1>1, <1>2, <1>3, <1>4, <1>7 DEF BookInv, Replayed, Base

LEMMA BookInvStep == ASSUME BookInv, [Next]_vars PROVE BookInv'
  BY TypeInvStep, SidesStep, ReplayedStep DEF BookInv

LEMMA BookInvHolds == Spec => []BookInv
  BY BookInvStarts, BookInvStep, PTL DEF Spec

\* A restart after crashes of the process (new_with_source: the snapshot, then
\* apply_recovery_event on the events after it) finds the position and the
\* trades where the program left them, wherever it was struck.
THEOREM RestartsRestore == Spec => RecoveryRestoresState
  <1>1. BookInv => (failure # "PowerLoss" /\ Restart => UNCHANGED book)
    BY DEF BookInv, Replayed, Restart, book
  <1> QED  BY <1>1, BookInvHolds, PTL DEF RecoveryRestoresState

-----------------------------------------------------------------------------
(* The account and the engine.                                             *)

\* The order in hand may have changed the account and not yet the engine.
Aside == {"sent", "tracking"} \cup Final
Rest == {o \in orders : ~(pc \in Aside /\ o.number = current.number)}

\* What IOL has of the order in hand is what was sent.
HandOrders ==
    pc \in Hand =>
        \A o \in wire \cup orders :
            o.number = current.number => o.op = current.op /\ o.contracts = current.contracts

\* The verdict in hand is IOL's.
HandState ==
    Real /\ pc \in Final =>
        \E o \in orders :
            /\ o.number = current.number /\ o.op = current.op /\ o.contracts = current.contracts
            /\ o.status = pc

InDoubt == \E o \in orders : ResentInDoubt(o.op)

\* While a live engine works and nothing is pending, it holds what the account
\* holds, the order in hand aside.
Matches ==
    Real /\ pc \in Hand \cup {"idle", "ending"} /\ ~blocked /\ pending = {} =>
        InDoubt \/ position.contracts = Net(Rest)

AccountInv == RecoveryInv /\ BookInv /\ HandOrders /\ HandState /\ Matches

LEMMA AccountFacts ==
    ASSUME AccountInv
    PROVE  /\ JournalInv /\ Traced /\ TypeInv /\ Sides
           /\ wire \subseteq SentOrders /\ orders \in SUBSET KnownOrders /\ IsFiniteSet(orders)
           /\ Net(orders) \in Int /\ Net(orders) = Holding
  BY NetIsInt, HoldingIsNet DEF AccountInv, RecoveryInv, WriteAhead, BookInv, TypeInv, IolTypes

LEMMA HandOrdersStep == ASSUME AccountInv, [Next]_vars PROVE HandOrders'
  <1>0. Traced /\ Numbered /\ InHand /\ HandOrders /\ Len(journal) \in Nat
    BY AccountFacts, JournalDomain DEF Traced, AccountInv
  <1>1. CASE Buy \/ Sell
    <2>1. current'.number = Len(journal) + 1 /\ UNCHANGED iol
      BY <1>1 DEF Buy, Sell, Order
    <2> QED  BY <1>0, <2>1 DEF HandOrders, Numbered, iol
  <1>2. CASE Send
    <2>1. /\ wire' = wire \cup {current} /\ orders' = orders /\ current' = current
          /\ pc = "intent"
      BY <1>2 DEF Send
    <2>2. \A o \in wire \cup orders : o.number # current.number
      BY <1>0, <2>1 DEF InHand, Hand
    <2> QED  BY <2>1, <2>2 DEF HandOrders
  <1>3. CASE Arrive
    <2>1. PICK o \in wire :
              /\ wire' = wire \ {o}
              /\ orders' = orders \cup {[op |-> o.op, number |-> o.number,
                                        contracts |-> o.contracts, status |-> "Open"]}
      BY <1>3 DEF Arrive
    <2>2. pc' = pc /\ current' = current  BY <1>3 DEF Arrive, memory
    <2> QED  BY <1>0, <2>1, <2>2 DEF HandOrders
  <1>4. CASE Decide
    <2>1. PICK o \in orders, status \in Final :
              wire' = wire /\ orders' = (orders \ {o}) \cup {[o EXCEPT !.status = status]}
      BY <1>4 DEF Decide
    <2>2. o \in KnownOrders  BY AccountFacts
    <2>3. [o EXCEPT !.status = status]
            = [op |-> o.op, number |-> o.number, contracts |-> o.contracts, status |-> status]
      BY <2>2, DecidedTypes
    <2>4. pc' = pc /\ current' = current  BY <1>4 DEF Decide, memory
    <2> QED  BY <1>0, <2>1, <2>3, <2>4 DEF HandOrders
  <1>5. CASE Simulate \/ Accept \/ Settle \/ UNCHANGED vars
    <2>1. UNCHANGED <<iol, current>> /\ (pc \in Hand \/ pc' = pc)
      BY <1>5 DEF Simulate, Accept, Settle, Hand, memory, vars
    <2> QED  BY <1>0, <2>1 DEF HandOrders, iol
  <1>6. CASE ~(Buy \/ Sell \/ Send \/ Simulate \/ Accept \/ Settle \/ IOL \/ UNCHANGED vars)
    <2>1. pc' \notin Hand
      BY <1>6
      DEF Next, Execute, Doubt, Book, BookBuy, BookSale, Unfilled, PartlyFilled, EndStep, Shutdown,
          Reconcile, ReconcileReadonly, ReconcileAccount, Block, AdoptPosition, Fail, Crash, PowerLoss,
          Fall, Down, Restart, RestartAborts, Hand
    <2> QED  BY <2>1 DEF HandOrders
  <1> QED  BY <1>1, <1>2, <1>3, <1>4, <1>5, <1>6 DEF IOL

LEMMA HandStateStep == ASSUME AccountInv, [Next]_vars PROVE HandState'
  <1> SUFFICES ASSUME Real', pc' \in Final
               PROVE  \E o \in orders' :
                          /\ o.number = current'.number /\ o.op = current'.op
                          /\ o.contracts = current'.contracts /\ o.status = pc'
    BY DEF HandState
  <1>0. Traced /\ Numbered /\ HandOrders /\ HandState  BY AccountFacts DEF Traced, AccountInv
  <1>1. CASE Settle
    <2>1. PICK o \in orders : o.number = current.number /\ pc' = o.status
      BY <1>1 DEF Settle
    <2>2. UNCHANGED <<iol, current>> /\ pc \in Hand  BY <1>1 DEF Settle, Hand
    <2> QED  BY <1>0, <2>1, <2>2 DEF HandOrders, iol
  <1>2. CASE Simulate
    <2>1. ~Real /\ UNCHANGED route  BY <1>2 DEF Simulate, setting
    <2> QED  BY <2>1 DEF Real
  <1>3. CASE IOL
    <2>1. pc' = pc /\ current' = current /\ UNCHANGED route
      BY <1>3 DEF IOL, Arrive, Decide, memory, setting
    <2>2. PICK h \in orders :
              /\ h.number = current.number /\ h.op = current.op /\ h.contracts = current.contracts
              /\ h.status = pc
      BY <1>0, <2>1 DEF HandState, Real
    <2>3. h.status # "Open"  BY <2>1, <2>2 DEF Final
    <2>4. h \in orders'
      <3>1. CASE Arrive  BY <3>1, <2>2 DEF Arrive
      <3>2. CASE Decide  BY <3>2, <2>2, <2>3 DEF Decide
      <3> QED  BY <1>3, <3>1, <3>2 DEF IOL
    <2> QED  BY <2>1, <2>2, <2>4
  <1>4. CASE UNCHANGED vars
    BY <1>0, <1>4 DEF HandState, Real, vars, setting, memory, iol
  <1>5. CASE ~(Settle \/ Simulate \/ IOL \/ UNCHANGED vars)
    <2>1. pc' \notin Final
      BY <1>5
      DEF Next, Execute, Buy, Sell, Order, Send, Accept, Doubt, Book, BookBuy, BookSale, Unfilled,
          PartlyFilled, EndStep, Shutdown, Reconcile, ReconcileReadonly, ReconcileAccount, Block,
          AdoptPosition, Fail, Crash, PowerLoss, Fall, Down, Restart, RestartAborts, Final
    <2> QED  BY <2>1
  <1> QED  BY <1>1, <1>2, <1>3, <1>4, <1>5

\* An id in doubt stays so, as long as its orders stay.
LEMMA DoubtStays ==
    ASSUME JournalInv, GoesOn, InDoubt, \A o \in orders : \E p \in orders' : p.op = o.op
    PROVE  InDoubt'
  <1>1. PICK o \in orders : ResentInDoubt(o.op)  BY DEF InDoubt
  <1>2. PICK p \in orders' : p.op = o.op  BY <1>1
  <1>3. ResentInDoubt(o.op)'  BY <1>1, ResentStays
  <1>4. ResentInDoubt(p.op)'  BY <1>2, <1>3
  <1> QED  BY <1>2, <1>4 DEF InDoubt

\* A step that leaves the book, the account and the order in hand alone.
LEMMA MatchesQuiet ==
    ASSUME AccountInv, GoesOn, Rest' = Rest, orders' = orders, UNCHANGED <<position, setting>>,
           Real' /\ pc' \in Hand \cup {"idle", "ending"} /\ ~blocked' /\ pending' = {} =>
                pc \in Hand \cup {"idle", "ending"} /\ ~blocked /\ pending = {}
    PROVE  Matches'
  <1>1. Net(Rest)' = Net(Rest)
    <2>1. Net(Rest)' = Net(Rest')  BY DEF Net, BySide, Filled
    <2> QED  BY <2>1
  <1>2. InDoubt => InDoubt'  BY AccountFacts, DoubtStays
  <1> QED  BY <1>1, <1>2 DEF AccountInv, Matches, setting, Real

\* The order in hand and what it did to the account.
LEMMA BookedShare ==
    ASSUME AccountInv, Real, pc \in Final
    PROVE  /\ Net(Rest) \in Int
           /\ current.op.side = "Buy" =>
                Net(orders) = Net(Rest) + (IF pc = "Executed" THEN current.contracts
                                           ELSE IF pc = "Partial" THEN 1 ELSE 0)
           /\ current.op.side = "Sell" =>
                Net(orders) = Net(Rest) - (IF pc = "Executed" THEN current.contracts
                                           ELSE IF pc = "Partial" THEN 1 ELSE 0)
  <1>1. PICK h \in orders :
            /\ h.number = current.number /\ h.op = current.op /\ h.contracts = current.contracts
            /\ h.status = pc
    BY DEF AccountInv, HandState
  <1>2. \A p \in orders : p.number = h.number => p = h
    BY AccountFacts DEF Traced, Numbered
  <1>3. Rest = orders \ {h}  BY <1>1, <1>2 DEF Rest, Aside
  <1>4. orders \in SUBSET KnownOrders /\ IsFiniteSet(orders) /\ h \in KnownOrders  BY AccountFacts
  <1>5. Net(Rest) \in Int /\ Net(orders) = Net(Rest) + Share(h)
    BY <1>1, <1>3, <1>4, NetLess
  <1>6. h.contracts \in Nat  BY <1>4 DEF KnownOrders
  <1>7. FilledContracts(h) = IF pc = "Executed" THEN current.contracts
                             ELSE IF pc = "Partial" THEN 1 ELSE 0
    <2>1. CASE pc = "Executed"  BY <1>1, <2>1 DEF FilledContracts
    <2>2. CASE pc = "Partial"  BY <1>1, <2>2 DEF FilledContracts
    <2>3. CASE pc = "Unfilled"  BY <1>1, <2>3 DEF FilledContracts
    <2> QED  BY <2>1, <2>2, <2>3 DEF Final
  <1>8. FilledContracts(h) \in Nat  BY <1>4, FilledTypes
  <1>9. CASE current.op.side = "Buy"
    <2>1. Share(h) = FilledContracts(h)  BY <1>1, <1>9 DEF Share
    <2> QED  BY <1>5, <1>7, <1>8, <1>9, <2>1
  <1>10. CASE current.op.side = "Sell"
    <2>1. Share(h) = 0 - FilledContracts(h)  BY <1>1, <1>10 DEF Share
    <2> QED  BY <1>5, <1>7, <1>8, <1>10, <2>1
  <1> QED  BY <1>5, <1>9, <1>10

\* IOL hears of an order: nothing of it is filled yet.
LEMMA ArriveMatches == ASSUME AccountInv, Arrive PROVE Matches'
  <1>1. PICK o \in wire :
            /\ wire' = wire \ {o}
            /\ orders' = orders \cup {[op |-> o.op, number |-> o.number,
                                      contracts |-> o.contracts, status |-> "Open"]}
    BY DEF Arrive
  <1> DEFINE q == [op |-> o.op, number |-> o.number, contracts |-> o.contracts, status |-> "Open"]
  <1>2. /\ UNCHANGED <<journal, position, blocked, pending, pc, current, route>>
    BY DEF Arrive, disk, memory, book, alarm, setting
  <1>3. JournalInv /\ GoesOn /\ orders \in SUBSET KnownOrders /\ IsFiniteSet(orders) /\ o \in SentOrders
    BY <1>2, AccountFacts, SameGoesOn
  <1>4. q \in KnownOrders /\ q.status = "Open"  BY <1>3 DEF SentOrders, KnownOrders
  <1>5. orders' = orders \cup {q}  BY <1>1
  <1> HIDE DEF q
  <1>6. InDoubt => InDoubt'  BY <1>3, <1>5, DoubtStays
  <1>7. Net(Rest') = Net(Rest)
    <2>1. CASE q \in Rest'
      <3>1. Rest' = Rest \cup {q}  BY <1>2, <1>5, <2>1 DEF Rest
      <3>2. Rest \in SUBSET KnownOrders /\ IsFiniteSet(Rest)  BY <1>3, FS_Subset DEF Rest
      <3>3. Rest' \in SUBSET KnownOrders /\ IsFiniteSet(Rest')
        BY <1>4, <3>1, <3>2, FS_AddElement
      <3>4. CASE q \in Rest
        <4>1. Rest' = Rest  BY <3>1, <3>4
        <4> QED  BY <4>1
      <3>5. CASE q \notin Rest
        <4>1. Rest' \ {q} = Rest  BY <3>1, <3>5
        <4> DEFINE S == Rest'
        <4>2. S \in SUBSET KnownOrders /\ IsFiniteSet(S) /\ q \in S /\ S \ {q} = Rest
          BY <2>1, <3>3, <4>1
        <4> HIDE DEF S
        <4>3. Net(S) = Net(Rest) + Share(q) /\ Net(Rest) \in Int  BY <4>2, NetLess
        <4>4. Share(q) = 0  BY <1>4, FilledTypes DEF Share
        <4>5. Net(S) = Net(Rest)  BY <4>3, <4>4
        <4> QED  BY <4>5 DEF S
      <3> QED  BY <3>4, <3>5
    <2>2. CASE q \notin Rest'
      <3>1. Rest' = Rest  BY <1>2, <1>5, <2>2 DEF Rest
      <3> QED  BY <3>1
    <2> QED  BY <2>1, <2>2
  <1>8. Matches' <=> (Real /\ pc \in Hand \cup {"idle", "ending"} /\ ~blocked /\ pending = {} =>
                        InDoubt' \/ position.contracts = Net(Rest'))
    BY <1>2, Zenon DEF Matches, Real, Net, BySide, Filled
  <1> QED  BY <1>6, <1>7, <1>8 DEF AccountInv, Matches

\* IOL's verdict on the order in hand is for later; on any other, the program
\* knew that it did not know.
LEMMA DecideMatches == ASSUME AccountInv, Decide PROVE Matches'
  <1>1. PICK o \in orders, status \in Final :
            /\ o.status = "Open"
            /\ orders' = (orders \ {o}) \cup {[o EXCEPT !.status = status]}
    BY DEF Decide
  <1> DEFINE q == [o EXCEPT !.status = status]
  <1>2. UNCHANGED <<journal, position, blocked, pending, pc, current, route>>
    BY DEF Decide, disk, memory, book, alarm, setting
  <1>3. JournalInv /\ Traced /\ GoesOn /\ o \in KnownOrders
    BY <1>2, AccountFacts, SameGoesOn
  <1>4. q.op = o.op /\ q.number = o.number
    BY <1>3, DecidedTypes
  <1>5. orders' = (orders \ {o}) \cup {q}  BY <1>1
  <1> HIDE DEF q
  <1> SUFFICES ASSUME Real, pc \in Hand \cup {"idle", "ending"}, ~blocked, pending = {}
               PROVE  InDoubt' \/ position.contracts = Net(Rest')
    <2>1. Matches' <=> (Real /\ pc \in Hand \cup {"idle", "ending"} /\ ~blocked /\ pending = {} =>
                          InDoubt' \/ position.contracts = Net(Rest'))
      BY <1>2, Zenon DEF Matches, Real, Net, BySide, Filled
    <2> QED  BY <2>1
  <1>6. InDoubt => InDoubt'  BY <1>3, <1>4, <1>5, DoubtStays
  <1>7. CASE pc \in Aside /\ o.number = current.number
    <2>1. Rest' = Rest  BY <1>2, <1>4, <1>5, <1>7 DEF Rest
    <2> QED  BY <1>6, <2>1 DEF AccountInv, Matches
  <1>8. CASE ~(pc \in Aside /\ o.number = current.number)
    <2>1. o \in Loose  BY <1>1 DEF Loose, InFlight
    <2>2. pc \notin {"down", "aborted"}  BY DEF Hand
    <2>3. ResentInDoubt(o.op)
      BY <1>3, <1>8, <2>1, <2>2 DEF Traced, Watched, Aside, Final
    <2>4. ResentInDoubt(o.op)'  BY <1>3, <2>3, ResentStays
    <2>5. ResentInDoubt(q.op)'  BY <1>4, <2>4
    <2> QED  BY <1>5, <2>5 DEF InDoubt
  <1> QED  BY <1>7, <1>8

LEMMA MatchesStep == ASSUME AccountInv, [Next]_vars PROVE Matches'
  <1>0. JournalInv /\ Traced /\ TypeInv /\ Sides /\ Len(journal) \in Nat /\ Matches
    BY AccountFacts, JournalDomain DEF AccountInv
  <1>1. \A e : journal' = journal \o <<e>> => GoesOn  BY <1>0, WriteGoesOn
  <1>2. journal' = journal => GoesOn  BY <1>0, SameGoesOn
  <1>3. Matches' <=> (Real' /\ pc' \in Hand \cup {"idle", "ending"} /\ ~blocked' /\ pending' = {} =>
                        InDoubt' \/ position'.contracts = Net(Rest'))
    BY Zenon DEF Matches, Net, BySide, Filled
  <1>4. CASE Buy \/ Sell
    <2>1. /\ pc = "idle" /\ pc' = "intent" /\ (\E e : journal' = journal \o <<e>>)
          /\ UNCHANGED <<book, alarm, iol, setting>>
      BY <1>4 DEF Buy, Sell, Order, Write
    <2>2. Rest = orders /\ Rest' = orders'  BY <2>1 DEF Rest, Aside, Final
    <2> QED  BY <1>1, <2>1, <2>2, MatchesQuiet DEF book, alarm, iol
  <1>5. CASE Send
    <2>1. /\ pc = "intent" /\ pc' = "sent" /\ journal' = journal
          /\ UNCHANGED <<book, alarm, orders, current, setting>>
      BY <1>5 DEF Send
    <2>2. \A o \in orders : o.number # current.number
      BY <1>0, <2>1 DEF Traced, InHand, Hand
    <2>3. Rest = orders /\ Rest' = orders'  BY <2>1, <2>2 DEF Rest, Aside, Final
    <2> QED  BY <1>2, <2>1, <2>3, MatchesQuiet DEF book, alarm, Hand
  <1>6. CASE Simulate \/ ReconcileReadonly
    <2>1. ~Real /\ route' = route  BY <1>6 DEF Simulate, ReconcileReadonly, setting
    <2> QED  BY <1>3, <2>1 DEF Real
  <1>7. CASE Accept \/ Settle
    <2>1. /\ pc \in {"sent", "tracking"} /\ pc' \in {"tracking"} \cup Final
          /\ (\E e : journal' = journal \o <<e>>)
          /\ UNCHANGED <<book, alarm, current, iol, setting>>
      BY <1>7 DEF Accept, Settle, WriteSynced, Write
    <2>2. Rest' = Rest  BY <2>1 DEF Rest, Aside, iol
    <2> QED  BY <1>1, <2>1, <2>2, MatchesQuiet DEF book, alarm, iol, Hand
  <1>8. CASE Doubt \/ PartlyFilled
    <2>1. blocked' = TRUE  BY <1>8 DEF Doubt, PartlyFilled, Alarm
    <2> QED  BY <1>3, <2>1
  <1>9. CASE BookBuy
    <2>1. /\ pc = "Executed" /\ pc' = "ending" /\ current.op.side = "Buy"
          /\ (\E e : journal' = journal \o <<e>>)
          /\ position' = [op |-> current.op, contracts |-> current.contracts]
          /\ UNCHANGED <<alarm, iol, setting>>
      BY <1>9 DEF BookBuy, Write
    <2>2. Rest' = orders  BY <2>1 DEF Rest, Aside, Final, iol
    <2>3. position = NoPosition  BY <1>0, <2>1 DEF Sides, Hand
    <2>4. InDoubt => InDoubt'
      <3>1. GoesOn /\ orders' = orders  BY <1>1, <2>1 DEF iol
      <3> QED  BY <1>0, <3>1, DoubtStays
    <2> SUFFICES ASSUME Real, ~blocked, pending = {}, ~InDoubt
                 PROVE  position'.contracts = Net(orders)
      BY <1>3, <2>1, <2>2, <2>4 DEF alarm, setting, Real
    <2>5. 0 = Net(Rest)  BY <1>0, <2>1, <2>3 DEF Matches, Hand, NoPosition
    <2>6. Net(orders) = Net(Rest) + current.contracts /\ Net(Rest) \in Int
      BY <2>1, BookedShare DEF Final
    <2>7. current.contracts \in Nat  BY <1>0 DEF TypeInv, WorkTypes, SentOrders
    <2> QED  BY <2>1, <2>5, <2>6, <2>7
  <1>10. CASE BookSale
    <2>1. /\ pc = "Executed" /\ pc' = "idle" /\ current.op.side = "Sell"
          /\ (\E e : journal' = journal \o <<e>>)
          /\ position' = NoPosition /\ UNCHANGED <<alarm, iol, setting>>
      BY <1>10 DEF BookSale, Write
    <2>2. Rest' = orders  BY <2>1 DEF Rest, Aside, Final, iol
    <2>3. current.contracts = position.contracts  BY <1>0, <2>1 DEF Sides, Hand
    <2>4. InDoubt => InDoubt'
      <3>1. GoesOn /\ orders' = orders  BY <1>1, <2>1 DEF iol
      <3> QED  BY <1>0, <3>1, DoubtStays
    <2> SUFFICES ASSUME Real, ~blocked, pending = {}, ~InDoubt
                 PROVE  position'.contracts = Net(orders)
      BY <1>3, <2>1, <2>2, <2>4 DEF alarm, setting, Real
    <2>5. position.contracts = Net(Rest)  BY <1>0, <2>1 DEF Matches, Hand
    <2>6. Net(orders) = Net(Rest) - current.contracts /\ Net(Rest) \in Int
      BY <2>1, BookedShare DEF Final
    <2> QED  BY <2>1, <2>3, <2>5, <2>6 DEF NoPosition
  <1>11. CASE Unfilled
    <2>1. /\ pc = "Unfilled" /\ pc' = "ending" /\ journal' = journal
          /\ UNCHANGED <<book, alarm, iol, setting>>
      BY <1>11 DEF Unfilled, disk
    <2>2. Rest' = orders  BY <2>1 DEF Rest, Aside, Final, iol
    <2>3. current.op.side \in {"Buy", "Sell"}  BY <1>0, <2>1 DEF Sides, Hand
    <2>4. InDoubt => InDoubt'
      <3>1. GoesOn /\ orders' = orders  BY <1>2, <2>1 DEF iol
      <3> QED  BY <1>0, <3>1, DoubtStays
    <2> SUFFICES ASSUME Real, ~blocked, pending = {}, ~InDoubt
                 PROVE  position'.contracts = Net(orders)
      BY <1>3, <2>1, <2>2, <2>4 DEF alarm, setting, Real
    <2>5. position.contracts = Net(Rest)  BY <1>0, <2>1 DEF Matches, Hand
    <2>6. Net(orders) = Net(Rest) /\ Net(Rest) \in Int
      BY <2>1, <2>3, BookedShare DEF Final
    <2> QED  BY <2>1, <2>5, <2>6 DEF book
  <1>12. CASE EndStep
    <2>1. /\ pc \in {"idle", "ending"} /\ pc' = "idle" /\ journal' = journal
          /\ UNCHANGED <<book, alarm, iol, setting>>
      BY <1>12 DEF EndStep
    <2>2. Rest = orders /\ Rest' = orders'  BY <2>1 DEF Rest, Aside, Final
    <2> QED  BY <1>2, <2>1, <2>2, MatchesQuiet DEF book, alarm, iol
  <1>13. CASE Shutdown \/ Fail \/ Restart \/ RestartAborts
    <2>1. pc' \in {"down", "starting", "aborted"}
      BY <1>13 DEF Shutdown, Fail, Crash, PowerLoss, Fall, Down, Restart, RestartAborts
    <2> QED  BY <1>3, <2>1 DEF Hand
  <1>14. CASE ReconcileAccount
    <2>1. UNCHANGED <<iol, setting>>  BY <1>14 DEF ReconcileAccount
    <2>2. blocked' = TRUE \/ (pc' = "idle" /\ position'.contracts = Holding)
      <3>1. CASE AccountAgrees /\ pc' = "idle" /\ UNCHANGED book
        BY <3>1 DEF AccountAgrees, book
      <3>2. CASE AdoptPosition
        BY <3>2 DEF AdoptPosition
      <3>3. CASE Block
        BY <3>3 DEF Block
      <3> QED  BY <1>14, <3>1, <3>2, <3>3 DEF ReconcileAccount
    <2>3. CASE blocked' = TRUE  BY <1>3, <2>3
    <2>4. CASE pc' = "idle" /\ position'.contracts = Holding
      <3>1. Rest' = orders  BY <2>1, <2>4 DEF Rest, Aside, Final, iol
      <3>2. Net(orders) = Holding  BY AccountFacts
      <3> QED  BY <1>3, <2>4, <3>1, <3>2
    <2> QED  BY <2>2, <2>3, <2>4
  <1>15. CASE IOL  BY <1>15, ArriveMatches, DecideMatches DEF IOL
  <1>16. CASE UNCHANGED vars
    <2>1. /\ journal' = journal /\ pc' = pc /\ UNCHANGED <<book, alarm, current, iol, setting>>
      BY <1>16 DEF vars, disk, memory
    <2>2. Rest' = Rest  BY <2>1 DEF Rest, iol
    <2> QED  BY <1>2, <2>1, <2>2, MatchesQuiet DEF book, alarm, iol
  <1> QED
    BY <1>4, <1>5, <1>6, <1>7, <1>8, <1>9, <1>10, <1>11, <1>12, <1>13, <1>14, <1>15, <1>16
    DEF Next, Execute, Book, Reconcile

LEMMA AccountInvStarts == ASSUME Init PROVE AccountInv
  <1>1. RecoveryInv /\ BookInv  BY RecoveryInvStarts, BookInvStarts
  <1>2. HandOrders /\ HandState  BY DEF Init, HandOrders, HandState, Hand, Final
  <1>3. Matches
    <2>1. position = NoPosition /\ orders = {} /\ wire = {} /\ pc = "idle"  BY DEF Init
    <2>2. Rest = orders  BY <2>1 DEF Rest
    <2>3. Net({}) = 0
      <3>1. IsFiniteSet({}) /\ \A side : BySide(side, {}) = Filled({})
        <4>1. \A side : {o \in {} : o.op.side = side} = {}  OBVIOUS
        <4> QED  BY <4>1, FS_EmptySet DEF BySide
      <3>2. Filled({}) \in Int
        <4> DEFINE S == {}
        <4>1. IsFiniteSet(S) /\ \A o \in S : FilledContracts(o) \in Int  BY <3>1
        <4> HIDE DEF S
        <4>2. Filled(S) \in Int  BY <4>1, FilledSum
        <4> QED  BY <4>2 DEF S
      <3> QED  BY <3>1, <3>2 DEF Net
    <2> QED  BY <2>1, <2>2, <2>3 DEF Matches, NoPosition
  <1> QED  BY <1>1, <1>2, <1>3 DEF AccountInv

LEMMA AccountInvStep == ASSUME AccountInv, [Next]_vars PROVE AccountInv'
  BY RecoveryInvStep, BookInvStep, HandOrdersStep, HandStateStep, MatchesStep DEF AccountInv

LEMMA AccountInvHolds == Spec => []AccountInv
  BY AccountInvStarts, AccountInvStep, PTL DEF Spec

\* An engine that looked at the account and has nothing pending holds what the
\* account holds (apply_account_snapshot after apply_recovery_event), whatever
\* the crashes and the power losses took, but for a sale sent again in doubt.
THEOREM AccountMatches == Spec => []SettledStateMatchesAccount
  <1>1. AccountInv => SettledStateMatchesAccount
    <2> SUFFICES ASSUME AccountInv, Real, pc = "idle", ~blocked, pending = {}
                 PROVE  position.contracts = Holding \/ \E o \in orders : ResentInDoubt(o.op)
      BY DEF SettledStateMatchesAccount
    <2>1. Rest = orders  BY DEF Rest, Aside, Final
    <2>2. Net(orders) = Holding  BY AccountFacts
    <2> QED  BY <2>1, <2>2 DEF AccountInv, Matches, InDoubt
  <1> QED  BY <1>1, AccountInvHolds, PTL

-----------------------------------------------------------------------------
(* Trades.                                                                 *)

Sales == {i \in DOMAIN journal : journal[i].kind = "Closed"}

\* An event more: a sale is one more sale.
LEMMA SalesGrow ==
    ASSUME JournalTypes, NEW e \in Events, journal' = journal \o <<e>>
    PROVE  /\ Cardinality(Sales) \in Nat
           /\ e.kind # "Closed" => Sales' = Sales
           /\ e.kind = "Closed" => Cardinality(Sales') = Cardinality(Sales) + 1
  <1>1. /\ Len(journal) \in Nat /\ DOMAIN journal = 1..Len(journal)
        /\ DOMAIN journal' = 1..(Len(journal) + 1)
        /\ journal'[Len(journal) + 1] = e /\ \A i \in 1..Len(journal) : journal'[i] = journal[i]
    <2>1. journal' = Append(journal, e)  BY WriteOne DEF JournalTypes
    <2> QED  BY <2>1 DEF JournalTypes
  <1>2. IsFiniteSet(Sales) /\ Len(journal) + 1 \notin Sales
    <2>1. IsFiniteSet(1..Len(journal)) /\ Sales \subseteq 1..Len(journal)
      BY <1>1, FS_Interval DEF Sales
    <2>2. Len(journal) + 1 \notin 1..Len(journal)  BY <1>1
    <2>3. IsFiniteSet(Sales)  BY <2>1, FS_Subset
    <2> QED  BY <2>1, <2>2, <2>3
  <1>3. Cardinality(Sales) \in Nat  BY <1>2, FS_CardinalityType
  <1>4. ASSUME e.kind # "Closed" PROVE Sales' = Sales  BY <1>1, <1>4 DEF Sales
  <1>5. ASSUME e.kind = "Closed" PROVE Cardinality(Sales') = Cardinality(Sales) + 1
    <2>1. Sales' = Sales \cup {Len(journal) + 1}  BY <1>1, <1>5 DEF Sales
    <2> QED  BY <1>2, <2>1, FS_AddElement
  <1> QED  BY <1>3, <1>4, <1>5

Counted == failure # "PowerLoss" => trades = Cardinality(Sales)

LEMMA CountedStep == ASSUME BookInv, Counted, [Next]_vars PROVE Counted'
  <1>1. JournalTypes /\ TypeInv  BY DEF BookInv, TypeInv
  <1>2. failure' = failure
    BY DEF Next, Execute, Buy, Sell, Order, Send, Simulate, Accept, Settle, Doubt, Book, BookBuy,
           BookSale, Unfilled, PartlyFilled, EndStep, Shutdown, Reconcile, ReconcileReadonly,
           ReconcileAccount, Fail, Crash, PowerLoss, Fall, Down, Restart, RestartAborts, IOL, Arrive,
           Decide, setting, vars
  <1> SUFFICES ASSUME failure # "PowerLoss" PROVE trades' = Cardinality(Sales')
    BY <1>2 DEF Counted
  <1>3. trades = Cardinality(Sales)  BY DEF Counted
  <1>4. ASSUME NEW e \in Events, Write(<<e>>), e.kind # "Closed", trades' = trades
        PROVE  trades' = Cardinality(Sales')
    BY <1>1, <1>3, <1>4, SalesGrow DEF Write
  <1>5. current \in SentOrders /\ position.op \in OrderIds /\ now \in Nat /\ Holding \in Nat
    BY RecoveryAssumption DEF BookInv, TypeInv, WorkTypes, BookTypes, Positions
  <1>6. CASE Buy \/ Sell
    <2>1. IntentCreated(current') \in Events  BY <1>1, <1>6, OrdersAreTyped
    <2>2. Write(<<IntentCreated(current')>>) /\ trades' = trades
      BY <1>6 DEF Buy, Sell, Order, book
    <2> QED  BY <1>4, <2>1, <2>2, EventKinds
  <1>7. CASE Simulate
    <2>1. Write(<<OrderState(current, pc')>>) /\ trades' = trades /\ pc' \in Final
      BY <1>7 DEF Simulate, Final, book
    <2> QED  BY <1>4, <1>5, <2>1, EventTypes, EventKinds
  <1>8. CASE Accept \/ Settle
    <2>1. PICK o \in orders : Write(<<OrderState(current, o.status)>>) /\ trades' = trades
      BY <1>8 DEF Accept, Settle, WriteSynced, book
    <2>2. o.status \in Final \cup {"Open"}  BY <1>1 DEF TypeInv, IolTypes, KnownOrders
    <2> QED  BY <1>4, <1>5, <2>1, <2>2, EventTypes, EventKinds
  <1>9. CASE Doubt
    <2>1. Write(<<OrderUnknown(current)>>) /\ trades' = trades
      BY <1>9 DEF Doubt, WriteSynced, book
    <2> QED  BY <1>4, <1>5, <2>1, EventTypes, EventKinds
  <1>10. CASE PartlyFilled
    <2>1. Write(<<PartialFillExposure(current)>>) /\ trades' = trades
      BY <1>10 DEF PartlyFilled, book
    <2> QED  BY <1>4, <1>5, <2>1, EventTypes, EventKinds
  <1>11. CASE BookBuy
    <2>1. Write(<<PositionOpened(current.op, current.contracts)>>) /\ trades' = trades
      BY <1>11 DEF BookBuy
    <2>2. PositionOpened(current.op, current.contracts) \in Events
      BY <1>5, EventTypes DEF SentOrders
    <2> QED  BY <1>4, <2>1, <2>2, EventKinds
  <1>12. CASE BookSale
    <2>1. journal' = journal \o <<PositionClosed(position.op)>> /\ trades' = trades + 1
      BY <1>12 DEF BookSale, Write
    <2>2. 0 \in Nat  OBVIOUS
    <2>3. PositionClosed(position.op) \in Events  BY <1>5, <2>2, EventTypes
    <2>4. PositionClosed(position.op).kind = "Closed"  BY EventKinds
    <2> QED  BY <1>1, <1>3, <2>1, <2>3, <2>4, SalesGrow
  <1>13. CASE Restart
    <2>1. Write(<<Event("Other")>>) /\ trades' = Recovered.trades  BY <1>13 DEF Restart
    <2>2. trades' = trades  BY <2>1 DEF BookInv, Replayed
    <2> QED  BY <1>4, <2>1, <2>2, EventTypes, EventKinds
  <1>14. CASE Reconcile
    <2>1. CASE AdoptPosition
      <3>1. /\ Write(<<PositionOpened([n |-> 0, t |-> now, side |-> "Buy"], Holding)>>)
            /\ trades' = trades
        BY <2>1 DEF AdoptPosition
      <3>2. [n |-> 0, t |-> now, side |-> "Buy"] \in OrderIds  BY <1>5 DEF OrderIds
      <3>3. PositionOpened([n |-> 0, t |-> now, side |-> "Buy"], Holding) \in Events
        BY <1>5, <3>2, EventTypes
      <3> QED  BY <1>4, <3>1, <3>3, EventKinds
    <2>2. CASE Block
      <3>1. Write(<<Event("Other")>>) /\ trades' = trades  BY <2>2 DEF Block, book
      <3> QED  BY <1>4, <3>1, EventTypes, EventKinds
    <2>3. CASE UNCHANGED <<book, journal>>
      BY <1>3, <2>3 DEF Sales, book
    <2> QED  BY <1>14, <2>1, <2>2, <2>3 DEF Reconcile, ReconcileReadonly, ReconcileAccount
  <1>15. CASE Shutdown
    <2>1. journal' = Append(journal, Event("Other")) /\ trades' = trades
      BY <1>15 DEF Shutdown, Down, book
    <2>2. journal' = journal \o <<Event("Other")>>  BY <1>1, <2>1, WriteOne DEF JournalTypes
    <2> QED  BY <1>1, <1>3, <2>1, <2>2, SalesGrow, EventTypes, EventKinds
  <1>16. CASE PowerLoss  BY <1>16 DEF PowerLoss
  <1>17. CASE \/ Send \/ Unfilled \/ EndStep \/ Crash \/ RestartAborts \/ IOL \/ UNCHANGED vars
    <2>1. journal' = journal /\ trades' = trades
      BY <1>17
      DEF Send, Unfilled, EndStep, Crash, Fall, Down, RestartAborts, IOL, Arrive, Decide, disk, memory,
          book, vars
    <2> QED  BY <1>3, <2>1 DEF Sales
  <1> QED
    BY <1>6, <1>7, <1>8, <1>9, <1>10, <1>11, <1>12, <1>13, <1>14, <1>15, <1>16, <1>17
    DEF Next, Execute, Book, Fail

\* However many crashes strike between the event and the snapshot, each close in
\* the journal is one trade of the day's limit.
THEOREM TradesCounted == Spec => []TradesAreCountedOnce
  <1>1. Init => Counted
    <2> SUFFICES ASSUME Init PROVE Cardinality(Sales) = 0  BY DEF Init, Counted
    <2>1. journal = <<Event("Other")>>  BY DEF Init
    <2>2. DOMAIN journal = {1} /\ journal[1].kind = "Other"  BY <2>1, EventKinds
    <2>3. Sales = {}  BY <2>2 DEF Sales
    <2> QED  BY <2>3, FS_EmptySet
  <1>2. Counted <=> TradesAreCountedOnce  BY DEF Counted, Sales, TradesAreCountedOnce
  <1> QED  BY <1>1, <1>2, BookInvHolds, CountedStep, PTL DEF Spec
================================================================================
