----------------------------- MODULE RecordsProofs -----------------------------
(***************************************************************************)
(* What is written down is what is read back, for every choice of times,   *)
(* limits and frames: the journal after any torn write or power loss, the  *)
(* capture of the market when it is replayed, the changes of a quote that  *)
(* the lunch pause counts, the volatilities an entry is ranked against.    *)
(* Each part states its inductive invariant first.                         *)
(***************************************************************************)
EXTENDS JournalFile, CaptureReplay, LunchLiquidity, EntryFilters, FoldFacts,
        SequenceTheorems, TLAPS

-----------------------------------------------------------------------------
(* JournalFile: what the file holds and what the process remembers of it   *)

JournalSpec == JournalInit /\ [][JournalNext]_journalFile

Records == [sequence : Nat, previous : Nat, id : Nat]
FileLines == [events : Seq(Records), torn : BOOLEAN, ended : BOOLEAN]

JournalTypes ==
    /\ lines \in Seq(FileLines)
    /\ synced \in 0..Len(lines)
    /\ journal \in [state : {"closed", "open", "refused"}, sequence : Nat, hash : Nat]
    /\ appends \in Nat
    /\ recorded \in SUBSET Nat
    /\ tears \in BOOLEAN

\* The hash of the last of some events.
LastId(events) == IF events = <<>> THEN 0 ELSE events[Len(events)].id

\* read_events_with_key accepts the chain of some events.
Chained(events) ==
    \A i \in DOMAIN events :
        /\ events[i].sequence = i
        /\ events[i].previous = IF i = 1 THEN 0 ELSE events[i - 1].id

\* Their numbers ascend, and are of events that were tried.
Ascending(events) ==
    \A i, j \in DOMAIN events : i < j => events[i].id < events[j].id
Numbered(events, n) == \A i \in DOMAIN events : events[i].id \in 1..n

\* A line that holds one event and nothing else.
Whole(line) == ~line.torn /\ line.ended /\ Len(line.events) = 1

\* Nothing was torn: the process remembers the last event of the file.
Clean ==
    /\ journal.state # "refused"
    /\ \A i \in DOMAIN lines : Whole(lines[i])
    /\ Chained(Contents(lines))
    /\ journal.state = "open" =>
        /\ journal.sequence = Len(Contents(lines))
        /\ journal.hash = LastId(Contents(lines))

\* The numbers ascend whatever was torn, for a failed append has used its own
\* up; the sequence and the chain go on only as long as nothing is torn.
JournalInv ==
    /\ JournalTypes
    /\ Numbered(Contents(lines), appends)
    /\ Ascending(Contents(lines))
    /\ recorded \subseteq EventIds(Contents(lines))
    /\ ~tears => Clean

-----------------------------------------------------------------------------
(* What the lines hold                                                     *)

LEMMA SomeFirst ==
    ASSUME NEW S, NEW s \in Seq(S), NEW n \in Nat, n <= Len(s)
    PROVE  /\ SubSeq(s, 1, n) \in Seq(S) /\ Len(SubSeq(s, 1, n)) = n
           /\ \A i \in 1..n : SubSeq(s, 1, n)[i] = s[i]
  OBVIOUS

LEMMA ConcatAppend ==
    ASSUME NEW S, NEW a \in Seq(S), NEW b \in Seq(S), NEW e \in S
    PROVE  a \o Append(b, e) = Append(a \o b, e)
  <1> DEFINE one == a \o Append(b, e)
             other == Append(a \o b, e)
  <1>1. /\ Append(b, e) \in Seq(S) /\ Len(Append(b, e)) = Len(b) + 1
        /\ Append(b, e)[Len(b) + 1] = e /\ \A i \in 1..Len(b) : Append(b, e)[i] = b[i]
    OBVIOUS
  <1>2. /\ a \o b \in Seq(S) /\ Len(a \o b) = Len(a) + Len(b)
        /\ \A i \in 1..(Len(a) + Len(b)) : (a \o b)[i] = IF i <= Len(a) THEN a[i] ELSE b[i - Len(a)]
    OBVIOUS
  <1>3. /\ one \in Seq(S) /\ Len(one) = Len(a) + Len(b) + 1
        /\ \A i \in 1..Len(one) : one[i] = IF i <= Len(a) THEN a[i] ELSE Append(b, e)[i - Len(a)]
    BY <1>1
  <1>4. /\ other \in Seq(S) /\ Len(other) = Len(a) + Len(b) + 1
        /\ \A i \in 1..Len(other) : other[i] = IF i <= Len(a) + Len(b) THEN (a \o b)[i] ELSE e
    BY <1>2
  <1>5. Len(a) \in Nat /\ Len(b) \in Nat  OBVIOUS
  <1>6. ASSUME NEW i \in 1..Len(other) PROVE one[i] = other[i]
    <2> HIDE DEF one, other
    <2>1. i \in 1..(Len(a) + Len(b) + 1)  BY <1>4
    <2>2. CASE i <= Len(a)
      <3>1. i \in 1..(Len(a) + Len(b))  BY <1>5, <2>1, <2>2
      <3> QED  BY <1>2, <1>3, <1>4, <1>5, <2>1, <2>2, <3>1
    <2>3. CASE i > Len(a) /\ i <= Len(a) + Len(b)
      <3>1. i \in 1..(Len(a) + Len(b)) /\ i - Len(a) \in 1..Len(b)  BY <1>5, <2>1, <2>3
      <3>2. one[i] = b[i - Len(a)]  BY <1>1, <1>3, <1>5, <2>1, <2>3, <3>1
      <3>3. other[i] = b[i - Len(a)]  BY <1>2, <1>4, <1>5, <2>1, <2>3, <3>1
      <3> QED  BY <3>2, <3>3
    <2>4. CASE i > Len(a) + Len(b)
      <3>1. i = Len(a) + Len(b) + 1 /\ i - Len(a) = Len(b) + 1 /\ ~(i <= Len(a))
        BY <1>5, <2>1, <2>4
      <3>2. one[i] = e  BY <1>1, <1>3, <2>1, <3>1
      <3>3. other[i] = e  BY <1>4, <1>5, <2>1, <2>4
      <3> QED  BY <3>2, <3>3
    <2> QED  BY <1>5, <2>1, <2>2, <2>3, <2>4
  <1> HIDE DEF one, other
  <1>7. one = other
    <2>1. Len(one) = Len(other)  BY <1>3, <1>4
    <2> QED  BY <1>3, <1>4, <1>6, <2>1, SeqEqual
  <1> QED  BY <1>7 DEF one, other

\* What each line adds.
Adding(s) == [i \in 1..Len(s) |-> [a \in Seq(Records) |-> a \o s[i].events]]

LEMMA AddingTypes ==
    ASSUME NEW s \in Seq(FileLines)
    PROVE  /\ Len(s) \in Nat /\ DOMAIN s = 1..Len(s)
           /\ \A i \in 1..Len(s) : s[i] \in FileLines /\ s[i].events \in Seq(Records)
           /\ Adding(s) \in [1..Len(s) -> [Seq(Records) -> Seq(Records)]]
  <1>1. Len(s) \in Nat /\ DOMAIN s = 1..Len(s) /\ \A i \in 1..Len(s) : s[i] \in FileLines  OBVIOUS
  <1>2. \A i \in 1..Len(s) : s[i].events \in Seq(Records)  BY <1>1 DEF FileLines
  <1>3. \A i \in 1..Len(s) : [a \in Seq(Records) |-> a \o s[i].events] \in [Seq(Records) -> Seq(Records)]
    BY <1>2, ConcatProperties
  <1> QED  BY <1>1, <1>2, <1>3 DEF Adding

\* The reading is a table of what each line adds, the last line last.
LEMMA ContentsPlay ==
    ASSUME NEW s \in Seq(FileLines)
    PROVE  \E g \in [SUBSET (1..Len(s)) -> Seq(Records)] :
              Plays(g, Len(s), <<>>, Adding(s)) /\ Contents(s) = g[1..Len(s)]
  <1> DEFINE n == Len(s)
             it == CHOOSE g : g = [t \in SUBSET DOMAIN s |->
                        IF t = {} THEN <<>> ELSE g[t \ {Max(t)}] \o s[Max(t)].events]
  <1>1. n \in Nat /\ DOMAIN s = 1..n /\ Adding(s) \in [1..n -> [Seq(Records) -> Seq(Records)]]
    BY AddingTypes
  <1>2. PICK g \in [SUBSET (1..n) -> Seq(Records)] : Plays(g, n, <<>>, Adding(s))
    <2> DEFINE base == <<>>
               act == Adding(s)
               A == Seq(Records)
    <2>1. base \in A /\ act \in [1..n -> [A -> A]]  BY <1>1
    <2> HIDE DEF n, base, act, A
    <2>2. \E g \in [SUBSET (1..n) -> A] : Plays(g, n, base, act)  BY <1>1, <2>1, PlayDefined
    <2> QED  BY <2>2 DEF base, act, A
  <1>3. ASSUME NEW t \in SUBSET (1..n)
        PROVE  g[t] = IF t = {} THEN <<>> ELSE g[t \ {Max(t)}] \o s[Max(t)].events
    <2>1. CASE t = {}  BY <1>2, <2>1 DEF Plays
    <2>2. CASE t # {}
      <3> HIDE DEF n
      <3>1. g[t] = Adding(s)[Max(t)][g[t \ {Max(t)}]]  BY <1>2, <2>2 DEF Plays
      <3>2. Max(t) \in 1..n  BY <1>1, <2>2, MaxIn
      <3>3. g[t \ {Max(t)}] \in Seq(Records)  OBVIOUS
      <3>4. Adding(s)[Max(t)][g[t \ {Max(t)}]] = g[t \ {Max(t)}] \o s[Max(t)].events
        BY <3>2, <3>3 DEF Adding, n
      <3> QED  BY <2>2, <3>1, <3>4
    <2> QED  BY <2>1, <2>2
  <1>4. g = [t \in SUBSET DOMAIN s |->
                IF t = {} THEN <<>> ELSE g[t \ {Max(t)}] \o s[Max(t)].events]
    BY <1>1, <1>3
  <1>5. it = [t \in SUBSET DOMAIN s |->
                IF t = {} THEN <<>> ELSE it[t \ {Max(t)}] \o s[Max(t)].events]
    BY <1>4
  <1>6. Contents(s) = it[DOMAIN s]  BY DEF Contents, FoldLeft, MapThenFoldSet
  <1>7. it[1..n] = g[1..n]
    <2> HIDE DEF it, n
    <2>1. g[{}] = it[{}]  BY <1>1, <1>3, <1>5
    <2>2. Agree(g, it, n)
      <3> SUFFICES ASSUME NEW t \in (SUBSET (1..n)) \ {{}}, g[t \ {Max(t)}] = it[t \ {Max(t)}]
                   PROVE  g[t] = it[t]
        BY DEF Agree
      <3>1. g[t] = g[t \ {Max(t)}] \o s[Max(t)].events  BY <1>3
      <3>2. it[t] = it[t \ {Max(t)}] \o s[Max(t)].events  BY <1>1, <1>5
      <3> QED  BY <3>1, <3>2
    <2> DEFINE one == g
    <2>3. one[{}] = it[{}] /\ Agree(one, it, n)  BY <2>1, <2>2
    <2> HIDE DEF one
    <2>4. \A t \in SUBSET (1..n) : one[t] = it[t]  BY <1>1, <2>3, SameTable
    <2> QED  BY <2>4 DEF one
  <1> HIDE DEF it
  <1> QED  BY <1>1, <1>2, <1>6, <1>7

LEMMA ContentsOfNone == Contents(<<>>) = <<>>
  <1>1. <<>> \in Seq(FileLines) /\ Len(<<>>) = 0  OBVIOUS
  <1>2. PICK g \in [SUBSET (1..0) -> Seq(Records)] :
            Plays(g, 0, <<>>, Adding(<<>>)) /\ Contents(<<>>) = g[1..0]
    BY <1>1, ContentsPlay
  <1>3. 1..0 = {}  OBVIOUS
  <1> QED  BY <1>2, <1>3 DEF Plays

\* A line more is read after the others.
LEMMA ContentsOneMore ==
    ASSUME NEW s \in Seq(FileLines), NEW l \in FileLines
    PROVE  /\ Contents(Append(s, l)) = Contents(s) \o l.events
           /\ Contents(s) \in Seq(Records) /\ l.events \in Seq(Records)
  <1> DEFINE n == Len(s)
             r == Append(s, l)
             act == Adding(s)
             more == Adding(r)
             base == <<>>
             A == Seq(Records)
  <1>1. /\ n \in Nat /\ r \in Seq(FileLines) /\ Len(r) = n + 1
        /\ r[n + 1] = l /\ \A i \in 1..n : r[i] = s[i]
    OBVIOUS
  <1>2. PICK g \in [SUBSET (1..n) -> A] : Plays(g, n, base, act) /\ Contents(s) = g[1..n]
    BY ContentsPlay
  <1> HIDE DEF n, r
  <1>3. PICK h \in [SUBSET (1..(n + 1)) -> A] :
            Plays(h, n + 1, base, more) /\ Contents(r) = h[1..(n + 1)]
    <2>1. \E h \in [SUBSET (1..Len(r)) -> Seq(Records)] :
            Plays(h, Len(r), <<>>, Adding(r)) /\ Contents(r) = h[1..Len(r)]
      BY <1>1, ContentsPlay
    <2> QED  BY <1>1, <2>1
  <1>4. SameSteps(act, more, n, A)
    <2> SUFFICES ASSUME NEW i \in 1..n, NEW a \in A PROVE act[i][a] = more[i][a]
      BY DEF SameSteps
    <2>1. i \in 1..Len(s)  BY DEF n
    <2>2. i \in 1..Len(r) /\ r[i] = s[i]  BY <1>1
    <2>3. act[i][a] = a \o s[i].events  BY <2>1 DEF Adding
    <2>4. more[i][a] = a \o r[i].events  BY <2>2 DEF Adding
    <2> QED  BY <2>2, <2>3, <2>4
  <1>5. ASSUME NEW a \in A PROVE more[n + 1][a] = a \o l.events
    <2>1. n + 1 \in 1..Len(r)  BY <1>1
    <2>2. more[n + 1][a] = a \o r[n + 1].events  BY <2>1 DEF Adding
    <2> QED  BY <1>1, <2>2
  <1>6. h[1..(n + 1)] = more[n + 1][g[1..n]] /\ g[1..n] \in A
    <2> DEFINE one == g
               other == h
    <2>1. /\ one \in [SUBSET (1..n) -> A] /\ other \in [SUBSET (1..(n + 1)) -> A]
          /\ Plays(one, n, base, act) /\ Plays(other, n + 1, base, more)
          /\ SameSteps(act, more, n, A)
      BY <1>2, <1>3, <1>4
    <2> HIDE DEF one, other, A, act, more, base
    <2>2. other[1..(n + 1)] = more[n + 1][one[1..n]] /\ one[1..n] \in A
      BY <1>1, <2>1, PlayOneMore
    <2> QED  BY <2>2 DEF one, other
  <1>7. l.events \in Seq(Records)  BY DEF FileLines
  <1> HIDE DEF more
  <1> QED  BY <1>2, <1>3, <1>5, <1>6, <1>7 DEF r

\* One reading starts with the other.
Starts(a, b) == Len(a) <= Len(b) /\ \A i \in 1..Len(a) : a[i] = b[i]

LEMMA ContentsType == ASSUME NEW s \in Seq(FileLines) PROVE Contents(s) \in Seq(Records)
  <1> DEFINE l == [events |-> <<>>, torn |-> FALSE, ended |-> FALSE]
  <1>1. l \in FileLines  BY DEF FileLines
  <1> HIDE DEF l
  <1> QED  BY <1>1, ContentsOneMore

\* FileLines that are before from the start hold the start of what was held.
LEMMA ContentsOfSome ==
    ASSUME NEW s \in Seq(FileLines), NEW n \in 0..Len(s)
    PROVE  Starts(Contents(SubSeq(s, 1, n)), Contents(s))
  <1> DEFINE First(m) == SubSeq(s, 1, m)
             N == {m \in Nat : n + m <= Len(s) => Starts(Contents(First(n)), Contents(First(n + m)))}
  <1>0. Len(s) \in Nat /\ n \in Nat  OBVIOUS
  <1>1. \A m \in 0..Len(s) : First(m) \in Seq(FileLines) /\ Len(First(m)) = m
    OBVIOUS
  <1>2. ASSUME NEW m \in 0..Len(s) PROVE Contents(First(m)) \in Seq(Records) /\ Len(Contents(First(m))) \in Nat
    <2>1. First(m) \in Seq(FileLines)  BY <1>1
    <2> HIDE DEF First
    <2>2. Contents(First(m)) \in Seq(Records)  BY <2>1, ContentsType
    <2> QED  BY <2>2
  <1>3. 0 \in N
    <2>1. n + 0 = n  BY <1>0
    <2>2. Len(Contents(First(n))) \in Nat  BY <1>2
    <2> HIDE DEF First
    <2> QED  BY <2>1, <2>2 DEF Starts
  <1>4. ASSUME NEW m \in N PROVE m + 1 \in N
    <2> SUFFICES ASSUME n + (m + 1) <= Len(s)
                 PROVE  Starts(Contents(First(n)), Contents(First(n + (m + 1))))
      OBVIOUS
    <2> DEFINE k == n + m
    <2>1. k \in 0..Len(s) /\ k + 1 \in 0..Len(s) /\ k + 1 \in 1..Len(s) /\ n + (m + 1) = k + 1
      BY <1>0
    <2>2. Starts(Contents(First(n)), Contents(First(k)))  BY <2>1
    <2>3. First(k + 1) = Append(First(k), s[k + 1]) /\ s[k + 1] \in FileLines
      <3> HIDE DEF k
      <3> QED  BY <2>1
    <2>4. Contents(First(k + 1)) = Contents(First(k)) \o s[k + 1].events /\ s[k + 1].events \in Seq(Records)
      <3>1. First(k) \in Seq(FileLines)  BY <1>1, <2>1
      <3> HIDE DEF First, k
      <3> QED  BY <2>3, <3>1, ContentsOneMore
    <2>5. Contents(First(k)) \in Seq(Records) /\ Contents(First(n)) \in Seq(Records)  BY <1>2, <2>1
    <2> HIDE DEF First, k
    <2>6. Starts(Contents(First(n)), Contents(First(k + 1)))  BY <2>2, <2>4, <2>5 DEF Starts
    <2> QED  BY <2>1, <2>6
  <1>5. N = Nat
    <2> HIDE DEF N
    <2>1. N \in SUBSET Nat  BY DEF N
    <2> QED  BY <1>3, <1>4, <2>1, Induction
  <1> DEFINE m == Len(s) - n
  <1>6. m \in N /\ n + m = Len(s)
    <2>1. m \in Nat /\ n + m = Len(s)  BY <1>0
    <2> HIDE DEF N, m
    <2> QED  BY <1>5, <2>1
  <1>7. First(Len(s)) = s  OBVIOUS
  <1>8. Len(s) <= Len(s)  BY <1>0
  <1> HIDE DEF First, m
  <1>9. Starts(Contents(First(n)), Contents(First(Len(s))))  BY <1>6, <1>8
  <1>10. First(n) = SubSeq(s, 1, n)  BY DEF First
  <1> QED  BY <1>7, <1>9, <1>10

-----------------------------------------------------------------------------
(* The facts an event more, or less, leaves                                *)

LEMMA LessIsStill ==
    ASSUME NEW a \in Seq(Records), NEW b \in Seq(Records), Starts(a, b), NEW n \in Nat
    PROVE  /\ Numbered(b, n) => Numbered(a, n)
           /\ Ascending(b) => Ascending(a)
           /\ Chained(b) => Chained(a)
  <1>1. DOMAIN a = 1..Len(a) /\ DOMAIN b = 1..Len(b) /\ Len(a) \in Nat /\ Len(b) \in Nat
    OBVIOUS
  <1>2. \A i \in DOMAIN a : i \in DOMAIN b /\ a[i] = b[i]  BY <1>1 DEF Starts
  <1>3. Numbered(b, n) => Numbered(a, n)  BY <1>2 DEF Numbered
  <1>4. Ascending(b) => Ascending(a)  BY <1>2 DEF Ascending
  <1>5. ASSUME Chained(b), NEW i \in DOMAIN a
        PROVE  a[i].sequence = i /\ a[i].previous = IF i = 1 THEN 0 ELSE a[i - 1].id
    <2>1. i # 1 => i - 1 \in DOMAIN a  BY <1>1
    <2>2. i \in DOMAIN b /\ a[i] = b[i] /\ (i # 1 => a[i - 1] = b[i - 1])  BY <1>2, <2>1
    <2> QED  BY <1>5, <2>2 DEF Chained
  <1> QED  BY <1>3, <1>4, <1>5 DEF Chained

LEMMA OneMoreIs ==
    ASSUME NEW a \in Seq(Records), NEW e \in Records, NEW n \in Nat, e.id = n + 1,
           Numbered(a, n), Ascending(a)
    PROVE  /\ Numbered(Append(a, e), n + 1)
           /\ Ascending(Append(a, e))
           /\ EventIds(Append(a, e)) = EventIds(a) \cup {n + 1}
           /\ (Chained(a) /\ e.sequence = Len(a) + 1 /\ e.previous = LastId(a))
                => Chained(Append(a, e))
           /\ LastId(Append(a, e)) = n + 1
           /\ Len(Append(a, e)) = Len(a) + 1
  <1> DEFINE b == Append(a, e)
  <1>1. /\ Len(a) \in Nat /\ Len(b) = Len(a) + 1
        /\ DOMAIN a = 1..Len(a) /\ DOMAIN b = 1..(Len(a) + 1)
        /\ b[Len(a) + 1] = e /\ \A i \in DOMAIN a : b[i] = a[i]
    OBVIOUS
  <1>2. b # <<>>  BY <1>1
  <1> HIDE DEF b
  <1>3. \A i \in DOMAIN b : i \in DOMAIN a \/ i = Len(a) + 1  BY <1>1
  <1>4. \A i \in DOMAIN a : i \in DOMAIN b /\ a[i].id \in 1..n  BY <1>1 DEF Numbered
  <1>5. Numbered(b, n + 1)
    <2> SUFFICES ASSUME NEW i \in DOMAIN b PROVE b[i].id \in 1..(n + 1)  BY DEF Numbered
    <2>1. CASE i \in DOMAIN a
      <3>1. a[i].id \in 1..n /\ b[i] = a[i]  BY <1>1, <1>4, <2>1
      <3>2. \A k \in 1..n : k \in 1..(n + 1)  OBVIOUS
      <3> QED  BY <3>1, <3>2
    <2>2. CASE i = Len(a) + 1  BY <1>1, <2>2
    <2> QED  BY <1>3, <2>1, <2>2
  <1>6. Ascending(b)
    <2> SUFFICES ASSUME NEW i \in DOMAIN b, NEW j \in DOMAIN b, i < j PROVE b[i].id < b[j].id
      BY DEF Ascending
    <2>1. i \in DOMAIN a  BY <1>1
    <2>2. CASE j \in DOMAIN a  BY <1>1, <2>1, <2>2 DEF Ascending
    <2>3. CASE j = Len(a) + 1
      <3>1. a[i].id \in 1..n /\ b[i] = a[i] /\ b[j] = e  BY <1>1, <1>4, <2>1, <2>3
      <3> QED  BY <3>1
    <2> QED  BY <1>3, <2>2, <2>3
  <1>7. EventIds(b) = EventIds(a) \cup {n + 1}
    <2>1. \A x \in EventIds(b) : x \in EventIds(a) \cup {n + 1}
      <3> SUFFICES ASSUME NEW i \in DOMAIN b PROVE b[i].id \in EventIds(a) \cup {n + 1}
        BY DEF EventIds
      <3>1. CASE i \in DOMAIN a  BY <1>1, <3>1 DEF EventIds
      <3>2. CASE i = Len(a) + 1  BY <1>1, <3>2
      <3> QED  BY <1>3, <3>1, <3>2
    <2>2. \A x \in EventIds(a) : x \in EventIds(b)  BY <1>1, <1>4 DEF EventIds
    <2>3. n + 1 \in EventIds(b)
      <3>1. Len(a) + 1 \in DOMAIN b /\ b[Len(a) + 1].id = n + 1  BY <1>1
      <3> QED  BY <3>1 DEF EventIds
    <2> QED  BY <2>1, <2>2, <2>3
  <1>8. ASSUME Chained(a), e.sequence = Len(a) + 1, e.previous = LastId(a)
        PROVE  Chained(b)
    <2> SUFFICES ASSUME NEW i \in DOMAIN b
                 PROVE  b[i].sequence = i /\ b[i].previous = IF i = 1 THEN 0 ELSE b[i - 1].id
      BY DEF Chained
    <2>1. CASE i \in DOMAIN a
      <3>1. i # 1 => i - 1 \in DOMAIN a  BY <1>1, <2>1
      <3>2. b[i] = a[i] /\ (i # 1 => b[i - 1] = a[i - 1])  BY <1>1, <2>1, <3>1
      <3> QED  BY <1>8, <2>1, <3>2 DEF Chained
    <2>2. CASE i = Len(a) + 1
      <3>1. b[i] = e  BY <1>1, <2>2
      <3>2. CASE i = 1
        <4>1. a = <<>>  BY <1>1, <2>2, <3>2
        <4> QED  BY <1>8, <2>2, <3>1, <3>2, <4>1 DEF LastId
      <3>3. CASE i # 1
        <4>1. a # <<>> /\ i - 1 = Len(a) /\ Len(a) \in DOMAIN a  BY <1>1, <2>2, <3>3
        <4>2. b[i - 1] = a[Len(a)]  BY <1>1, <4>1
        <4> QED  BY <1>8, <2>2, <3>1, <3>3, <4>1, <4>2 DEF LastId
      <3> QED  BY <3>2, <3>3
    <2> QED  BY <1>3, <2>1, <2>2
  <1>9. LastId(b) = n + 1  BY <1>1, <1>2 DEF LastId
  <1> QED  BY <1>1, <1>5, <1>6, <1>7, <1>8, <1>9 DEF b

-----------------------------------------------------------------------------
(* The steps                                                               *)

LEMMA ReadingIs ==
    /\ Written = Contents(lines)
    /\ ChainHolds <=> Chained(Contents(lines))
    /\ ReadLines.whole <=> \A i \in DOMAIN lines : Parses(lines[i])
  BY DEF Written, ReadLines, ChainHolds, Chained

LEMMA JournalStarts == JournalInit => JournalInv
  <1> SUFFICES ASSUME JournalInit PROVE JournalInv  OBVIOUS
  <1> USE DEF JournalInit, NoJournal
  <1>1. Contents(lines) = <<>>  BY ContentsOfNone
  <1>2. JournalTypes
    <2>1. lines \in Seq(FileLines) /\ Len(lines) = 0 /\ 0 \in 0..0  OBVIOUS
    <2>2. journal \in [state : {"closed", "open", "refused"}, sequence : Nat, hash : Nat]
      OBVIOUS
    <2> QED  BY <2>1, <2>2 DEF JournalTypes
  <1>3. \A i \in DOMAIN <<>> : FALSE  OBVIOUS
  <1>4. Numbered(<<>>, 0) /\ Ascending(<<>>) /\ Chained(<<>>)
    BY <1>3 DEF Numbered, Ascending, Chained
  <1>5. Clean  BY <1>1, <1>3, <1>4 DEF Clean
  <1> QED  BY <1>1, <1>2, <1>4, <1>5 DEF JournalInv

\* A reading without tears is whole, and the chain holds.
LEMMA CleanIsReadable == ASSUME Clean PROVE Readable
  <1>1. ASSUME NEW line, Whole(line) PROVE Parses(line)  BY <1>1 DEF Whole, Parses
  <1>2. \A i \in DOMAIN lines : Parses(lines[i])  BY <1>1 DEF Clean
  <1> QED  BY <1>2, ReadingIs DEF Readable, Clean

LEMMA OpenHolds == JournalInv /\ OpenJournal => JournalInv'
  <1> SUFFICES ASSUME JournalInv, OpenJournal PROVE JournalInv'  OBVIOUS
  <1> DEFINE all == Contents(lines)
  <1>1. UNCHANGED <<lines, synced, appends, tears>>  BY DEF OpenJournal
  <1>2. all' = all  BY <1>1
  <1>3. all \in Seq(Records) /\ JournalTypes  BY ContentsType DEF JournalInv, JournalTypes
  <1> HIDE DEF all
  <1>4. all \in Seq(Records) => Len(all) \in Nat /\ LastId(all) \in Nat /\ EventIds(all) \subseteq Nat
    <2> SUFFICES ASSUME all \in Seq(Records)
                 PROVE  Len(all) \in Nat /\ LastId(all) \in Nat /\ EventIds(all) \subseteq Nat
      OBVIOUS
    <2>1. Len(all) \in Nat /\ DOMAIN all = 1..Len(all)  OBVIOUS
    <2>2. \A i \in DOMAIN all : all[i].id \in Nat
      <3>1. \A i \in DOMAIN all : all[i] \in Records  BY <2>1
      <3> QED  BY <3>1 DEF Records
    <2>3. all # <<>> => Len(all) \in DOMAIN all  BY <2>1
    <2> QED  BY <2>1, <2>2, <2>3 DEF LastId, EventIds
  <1>5. CASE Readable
    <2>1. /\ journal' = [state |-> "open", sequence |-> Len(all), hash |-> LastId(all)]
          /\ recorded' = EventIds(all)
      BY <1>5, ReadingIs DEF OpenJournal, LastId, Last, all
    <2>2. JournalTypes'  BY <1>1, <1>3, <1>4, <2>1 DEF JournalTypes
    <2>3. ~tears' => Clean'
      <3> SUFFICES ASSUME ~tears PROVE Clean'  BY <1>1
      <3>1. Clean  BY DEF JournalInv
      <3> QED  BY <1>1, <1>2, <2>1, <3>1 DEF Clean, all
    <2> QED  BY <1>1, <1>2, <2>1, <2>2, <2>3 DEF JournalInv, all
  <1>6. CASE ~Readable
    <2>1. journal' = [NoJournal EXCEPT !.state = "refused"] /\ recorded' = recorded
      BY <1>6 DEF OpenJournal
    <2>2. tears  BY <1>6, CleanIsReadable DEF JournalInv
    <2>3. JournalTypes'  BY <1>1, <1>3, <2>1 DEF JournalTypes, NoJournal
    <2> QED  BY <1>1, <1>2, <2>1, <2>2, <2>3 DEF JournalInv, all
  <1> QED  BY <1>5, <1>6

\* What an append leaves: the lines, what they hold, and one more line at most.
LEMMA ExtendedIs ==
    ASSUME lines \in Seq(FileLines), NEW e \in Records, NEW part \in Parts
    PROVE  /\ Extended(e, part) \in Seq(FileLines)
           /\ Len(Extended(e, part)) >= Len(lines)
           /\ Contents(Extended(e, part)) = IF part \in {"event", "line"} THEN Append(Contents(lines), e)
                                            ELSE Contents(lines)
           /\ (part = "line" /\ \A i \in DOMAIN lines : Whole(lines[i])) =>
                \A i \in DOMAIN Extended(e, part) : Whole(Extended(e, part)[i])
  <1> DEFINE fresh == lines = <<>> \/ Last(lines).ended
             line == IF fresh THEN NewLine ELSE Last(lines)
             before == IF fresh THEN lines ELSE Front(lines)
             new == [events |-> IF part = "part" THEN line.events ELSE Append(line.events, e),
                     torn |-> line.torn \/ part = "part",
                     ended |-> part = "line"]
             grown == Extended(e, part)
  <1>1. grown = IF part = "nothing" THEN lines ELSE Append(before, new)  BY DEF Extended
  <1>2. /\ line \in FileLines /\ before \in Seq(FileLines) /\ Len(before) + 1 >= Len(lines)
        /\ Contents(before) \o line.events = Contents(lines)
        /\ Contents(before) \in Seq(Records)
    <2>1. CASE fresh
      <3>1. line = NewLine /\ before = lines  BY <2>1
      <3> HIDE DEF line, before, fresh
      <3>2. Contents(lines) \in Seq(Records)  BY ContentsType
      <3>3. NewLine \in FileLines /\ NewLine.events = <<>>  BY DEF NewLine, FileLines
      <3>4. Contents(lines) \o <<>> = Contents(lines)  BY <3>2
      <3>5. Len(lines) + 1 >= Len(lines)  OBVIOUS
      <3> QED  BY <3>1, <3>2, <3>3, <3>4, <3>5
    <2>2. CASE ~fresh
      <3> DEFINE n == Len(lines)
      <3>1. lines # <<>> /\ line = lines[n] /\ before = SubSeq(lines, 1, n - 1)
        BY <2>2 DEF Last, Front
      <3>0. lines \in Seq(FileLines)  OBVIOUS
      <3> HIDE DEF line, before, fresh
      <3>2. n \in Nat /\ n >= 1 /\ n \in 1..n  BY <3>1
      <3>3. line \in FileLines /\ before \in Seq(FileLines) /\ Len(before) = n - 1 /\ lines = Append(before, line)
        <4>1. line \in FileLines  BY <3>0, <3>1, <3>2
        <4>2. before \in Seq(FileLines) /\ Len(before) = n - 1 /\ \A i \in 1..(n - 1) : before[i] = lines[i]
          <5> DEFINE m == n - 1
          <5>1. m \in Nat /\ m <= Len(lines)  BY <3>2
          <5> HIDE DEF m, n
          <5>2. /\ SubSeq(lines, 1, m) \in Seq(FileLines) /\ Len(SubSeq(lines, 1, m)) = m
                /\ \A i \in 1..m : SubSeq(lines, 1, m)[i] = lines[i]
            BY <3>0, <5>1, SomeFirst
          <5> QED  BY <3>1, <5>2 DEF m
        <4>3. /\ Append(before, line) \in Seq(FileLines) /\ Len(Append(before, line)) = n
              /\ \A i \in 1..n : Append(before, line)[i] = lines[i]
          BY <3>1, <3>2, <4>1, <4>2
        <4>4. lines = Append(before, line)
          <5> DEFINE other == Append(before, line)
          <5>1. other \in Seq(FileLines) /\ Len(other) = Len(lines) /\ \A i \in 1..Len(lines) : other[i] = lines[i]
            BY <4>3
          <5> HIDE DEF other
          <5>2. other = lines  BY <3>0, <5>1, SeqEqual
          <5> QED  BY <5>2 DEF other
        <4> QED  BY <4>1, <4>2, <4>4
      <3>4. Contents(lines) = Contents(before) \o line.events /\ Contents(before) \in Seq(Records)
        BY <3>3, ContentsOneMore
      <3> HIDE DEF n
      <3>5. Len(before) + 1 >= Len(lines)  BY <3>2, <3>3 DEF n
      <3> QED  BY <3>3, <3>4, <3>5
    <2> QED  BY <2>1, <2>2
  <1>3. /\ line.events \in Seq(Records) /\ line.torn \in BOOLEAN /\ line.ended \in BOOLEAN
    BY <1>2 DEF FileLines
  <1>4. CASE part = "nothing"  BY <1>1, <1>4
  <1>5. CASE part # "nothing"
    <2>1. grown = Append(before, new)  BY <1>1, <1>5
    <2>2. new.events = IF part = "part" THEN line.events ELSE Append(line.events, e)
      OBVIOUS
    <2>3. new \in FileLines
      <3> HIDE DEF line
      <3>1. Append(line.events, e) \in Seq(Records)  BY <1>3
      <3>2. (line.torn \/ part = "part") \in BOOLEAN /\ (part = "line") \in BOOLEAN  OBVIOUS
      <3> QED  BY <1>3, <3>1, <3>2 DEF FileLines
    <2>4. (part = "line" /\ \A i \in DOMAIN lines : Whole(lines[i])) =>
                before = lines /\ Whole(new)
      <3> SUFFICES ASSUME part = "line", \A i \in DOMAIN lines : Whole(lines[i])
                   PROVE  before = lines /\ Whole(new)
        OBVIOUS
      <3>1. lines # <<>> => Len(lines) \in DOMAIN lines  OBVIOUS
      <3>2. fresh  BY <3>1 DEF Whole, Last
      <3>3. line = NewLine /\ before = lines  BY <3>2
      <3> HIDE DEF line, before, fresh
      <3>4. new = [events |-> Append(<<>>, e), torn |-> FALSE, ended |-> TRUE]
        BY <3>3 DEF NewLine
      <3>5. Len(Append(<<>>, e)) = 1  OBVIOUS
      <3> HIDE DEF new
      <3> QED  BY <3>3, <3>4, <3>5 DEF Whole
    <2> HIDE DEF new, line, before, fresh, grown
    <2>5. grown \in Seq(FileLines) /\ Len(grown) >= Len(lines)
      <3>1. Len(grown) = Len(before) + 1 /\ grown \in Seq(FileLines)  BY <1>2, <2>1, <2>3
      <3> QED  BY <1>2, <3>1
    <2>6. Contents(grown) = Contents(before) \o new.events  BY <1>2, <2>1, <2>3, ContentsOneMore
    <2>7. Contents(grown) = IF part \in {"event", "line"} THEN Append(Contents(lines), e)
                            ELSE Contents(lines)
      <3>1. CASE part = "part"  BY <1>2, <2>2, <2>6, <3>1
      <3>2. CASE part \in {"event", "line"}
        <4>1. new.events = Append(line.events, e)  BY <2>2, <3>2
        <4>2. Contents(before) \o Append(line.events, e) = Append(Contents(before) \o line.events, e)
          <5> DEFINE one == Contents(before)
                     other == line.events
          <5>1. one \in Seq(Records) /\ other \in Seq(Records)  BY <1>2, <1>3
          <5> HIDE DEF one, other
          <5>2. one \o Append(other, e) = Append(one \o other, e)  BY <5>1, ConcatAppend
          <5> QED  BY <5>2 DEF one, other
        <4> QED  BY <1>2, <2>6, <3>2, <4>1, <4>2
      <3> QED  BY <1>5, <3>1, <3>2 DEF Parts
    <2>8. (part = "line" /\ \A i \in DOMAIN lines : Whole(lines[i])) =>
                \A i \in DOMAIN grown : Whole(grown[i])
      <3> SUFFICES ASSUME part = "line", \A i \in DOMAIN lines : Whole(lines[i]),
                          NEW i \in DOMAIN grown
                   PROVE  Whole(grown[i])
        OBVIOUS
      <3>1. grown = Append(lines, new) /\ Whole(new)  BY <2>1, <2>4
      <3>2. (i \in DOMAIN lines /\ grown[i] = lines[i]) \/ grown[i] = new  BY <3>1
      <3> QED  BY <3>1, <3>2
    <2> QED  BY <2>5, <2>7, <2>8 DEF grown
  <1> QED  BY <1>4, <1>5

LEMMA AppendHolds == JournalInv /\ AppendEvent => JournalInv'
  <1> SUFFICES ASSUME JournalInv, AppendEvent PROVE JournalInv'  OBVIOUS
  <1> DEFINE all == Contents(lines)
             e == NextEvent
             n == appends
  <1>1. PICK part \in Parts :
            /\ lines' = Extended(e, part)
            /\ journal' = AfterAppend(part)
            /\ recorded' = IF part = "line" THEN recorded \cup {n + 1} ELSE recorded
            /\ tears' = (tears \/ part \in {"part", "event"})
    BY DEF AppendEvent
  <1>2. /\ appends' = n + 1 /\ synced' = synced /\ journal.state = "open"
        /\ JournalTypes /\ n \in Nat
    BY DEF AppendEvent, JournalInv, JournalTypes
  <1>3. e \in Records /\ e.id = n + 1 /\ e.sequence = journal.sequence + 1 /\ e.previous = journal.hash
    BY <1>2 DEF NextEvent, Records, JournalTypes
  <1>4. all \in Seq(Records)  BY <1>2, ContentsType DEF JournalTypes
  <1>5. Numbered(all, n) /\ Ascending(all) /\ recorded \subseteq EventIds(all)  BY DEF JournalInv
  <1> HIDE DEF e, n
  <1>6. /\ lines' \in Seq(FileLines) /\ Len(lines') >= Len(lines)
        /\ all' = IF part \in {"event", "line"} THEN Append(all, e) ELSE all
        /\ (part = "line" /\ \A i \in DOMAIN lines : Whole(lines[i])) =>
              \A i \in DOMAIN lines' : Whole(lines'[i])
    <2>1. lines \in Seq(FileLines)  BY <1>2 DEF JournalTypes
    <2> QED  BY <1>1, <1>3, <2>1, ExtendedIs
  <1> HIDE DEF all
  <1>7. /\ Numbered(Append(all, e), n + 1) /\ Ascending(Append(all, e))
        /\ EventIds(Append(all, e)) = EventIds(all) \cup {n + 1}
        /\ (Chained(all) /\ e.sequence = Len(all) + 1 /\ e.previous = LastId(all))
                => Chained(Append(all, e))
        /\ LastId(Append(all, e)) = n + 1
        /\ Len(Append(all, e)) = Len(all) + 1
    BY <1>2, <1>3, <1>4, <1>5, OneMoreIs
  <1>8. JournalTypes'
    <2>1. journal' \in [state : {"closed", "open", "refused"}, sequence : Nat, hash : Nat]
      <3>1. CASE part = "line"
        <4>1. journal' = [journal EXCEPT !.sequence = @ + 1, !.hash = n + 1]
          BY <1>1, <3>1 DEF AfterAppend, n
        <4>2. /\ journal.state \in {"closed", "open", "refused"} /\ journal.sequence \in Nat
              /\ DOMAIN journal = {"state", "sequence", "hash"}
          BY <1>2 DEF JournalTypes
        <4>3. journal' = [state |-> journal.state, sequence |-> journal.sequence + 1, hash |-> n + 1]
          BY <1>2, <4>1 DEF JournalTypes
        <4> QED  BY <1>2, <4>2, <4>3
      <3>2. CASE part # "line"  BY <1>1, <1>2, <3>2 DEF AfterAppend, JournalTypes
      <3> QED  BY <3>1, <3>2
    <2>2. synced' \in 0..Len(lines')
      <3>1. Len(lines) \in Nat /\ Len(lines') \in Nat /\ synced \in 0..Len(lines)
        BY <1>2, <1>6 DEF JournalTypes
      <3> QED  BY <1>2, <1>6, <3>1
    <2>3. recorded' \in SUBSET Nat  BY <1>1, <1>2 DEF JournalTypes
    <2>4. tears' \in BOOLEAN  BY <1>1, <1>2 DEF JournalTypes
    <2> QED  BY <1>2, <1>6, <2>1, <2>2, <2>3, <2>4 DEF JournalTypes
  <1>9. Numbered(all', n + 1) /\ Ascending(all') /\ recorded' \subseteq EventIds(all')
    <2>1. CASE part \in {"event", "line"}
      <3>1. all' = Append(all, e) /\ EventIds(all') = EventIds(all) \cup {n + 1}  BY <1>6, <1>7, <2>1
      <3> QED  BY <1>1, <1>5, <1>7, <3>1
    <2>2. CASE part \notin {"event", "line"}
      <3>1. all' = all /\ recorded' = recorded  BY <1>1, <1>6, <2>2
      <3>2. \A k \in 1..n : k \in 1..(n + 1)  BY <1>2
      <3>3. Numbered(all, n + 1)  BY <1>5, <3>2 DEF Numbered
      <3> QED  BY <1>5, <3>1, <3>3
    <2> QED  BY <2>1, <2>2
  <1>10. ~tears' => Clean'
    <2> SUFFICES ASSUME ~tears' PROVE Clean'  OBVIOUS
    <2>1. ~tears /\ part \in {"nothing", "line"}  BY <1>1 DEF Parts
    <2>2. Clean  BY <2>1 DEF JournalInv
    <2>3. CASE part = "nothing"
      <3>1. lines' = lines /\ journal' = journal /\ all' = all
        BY <1>1, <1>6, <2>3 DEF Extended, AfterAppend
      <3> QED  BY <2>2, <3>1 DEF Clean, all
    <2>4. CASE part = "line"
      <3>1. journal.sequence = Len(all) /\ journal.hash = LastId(all) /\ Chained(all)
        BY <1>2, <2>2 DEF Clean, all
      <3>2. all' = Append(all, e) /\ Chained(all')
            /\ LastId(all') = n + 1 /\ Len(all') = Len(all) + 1
        BY <1>3, <1>6, <1>7, <2>4, <3>1
      <3>3. /\ journal'.state = "open" /\ journal'.sequence = journal.sequence + 1
            /\ journal'.hash = n + 1
        BY <1>1, <1>2, <2>4 DEF AfterAppend, JournalTypes, n
      <3>4. \A i \in DOMAIN lines' : Whole(lines'[i])  BY <1>6, <2>2, <2>4 DEF Clean
      <3> QED  BY <3>1, <3>2, <3>3, <3>4 DEF Clean, all
    <2> QED  BY <2>1, <2>3, <2>4
  <1> QED  BY <1>2, <1>8, <1>9, <1>10 DEF JournalInv, all

LEMMA SyncHolds == JournalInv /\ SyncJournal => JournalInv'
  <1> SUFFICES ASSUME JournalInv, SyncJournal PROVE JournalInv'  OBVIOUS
  <1>1. UNCHANGED <<lines, journal, appends, recorded, tears>> /\ synced' = Len(lines)
    BY DEF SyncJournal
  <1>2. JournalTypes'
    <2>1. Len(lines) \in 0..Len(lines)  BY DEF JournalInv, JournalTypes
    <2> QED  BY <1>1, <2>1 DEF JournalInv, JournalTypes
  <1> QED  BY <1>1, <1>2 DEF JournalInv, Clean

LEMMA DeathHolds == JournalInv /\ ProcessDies => JournalInv'
  <1> SUFFICES ASSUME JournalInv, ProcessDies PROVE JournalInv'  OBVIOUS
  <1>1. UNCHANGED <<lines, synced, appends, recorded, tears>> /\ journal' = NoJournal
    BY DEF ProcessDies
  <1>2. JournalTypes'  BY <1>1 DEF JournalInv, JournalTypes, NoJournal
  <1> QED  BY <1>1, <1>2 DEF JournalInv, Clean, NoJournal

LEMMA PowerHolds == JournalInv /\ PowerFails => JournalInv'
  <1> SUFFICES ASSUME JournalInv, PowerFails PROVE JournalInv'  OBVIOUS
  <1> DEFINE all == Contents(lines)
  <1>1. PICK n \in synced..Len(lines) :
            \/ lines' = SubSeq(lines, 1, n) /\ tears' = tears
            \/ tears' = TRUE /\ lines' = Append(SubSeq(lines, 1, n), TornLine)
    BY DEF PowerFails
  <1> DEFINE before == SubSeq(lines, 1, n)
  <1>2. /\ synced' = Len(lines') /\ journal' = NoJournal /\ appends' = appends
        /\ JournalTypes
    BY DEF PowerFails, JournalInv
  <1>3. recorded' = recorded \cap EventIds(all')  BY DEF PowerFails, Written, ReadLines
  <1>4. /\ n \in 0..Len(lines) /\ before \in Seq(FileLines) /\ Len(before) = n
        /\ \A i \in DOMAIN before : i \in DOMAIN lines /\ before[i] = lines[i]
    BY <1>2 DEF JournalTypes
  <1>5. TornLine \in FileLines /\ TornLine.events = <<>>  BY DEF TornLine, FileLines
  <1>6. Starts(Contents(before), all)  BY <1>2, <1>4, ContentsOfSome DEF JournalTypes
  <1>7. Contents(before) \in Seq(Records) /\ all \in Seq(Records)
    BY <1>2, <1>4, ContentsType DEF JournalTypes
  <1> HIDE DEF before, all
  <1>8. lines' \in Seq(FileLines) /\ Contents(lines') = Contents(before)
    <2>1. CASE lines' = before  BY <1>4, <2>1
    <2>2. CASE lines' = Append(before, TornLine)
      <3>1. Append(before, TornLine) \in Seq(FileLines)  BY <1>4, <1>5
      <3>2. Contents(Append(before, TornLine)) = Contents(before) \o <<>>  BY <1>4, <1>5, ContentsOneMore
      <3>3. Contents(before) \o <<>> = Contents(before)  BY <1>7
      <3> QED  BY <2>2, <3>1, <3>2, <3>3
    <2> QED  BY <1>1, <2>1, <2>2 DEF before
  <1>9. all' = Contents(before)  BY <1>8 DEF all
  <1>10. appends \in Nat /\ Numbered(all, appends) /\ Ascending(all)
    BY <1>2 DEF JournalInv, JournalTypes, all
  <1>11. /\ Numbered(all', appends) /\ Ascending(all')
         /\ Chained(all) => Chained(all')
    BY <1>6, <1>7, <1>9, <1>10, LessIsStill
  <1>12. JournalTypes'
    <2>1. recorded' \in SUBSET Nat  BY <1>2, <1>3 DEF JournalTypes
    <2>2. Len(lines') \in Nat  BY <1>8
    <2>3. tears' \in BOOLEAN  BY <1>1, <1>2 DEF JournalTypes
    <2> QED  BY <1>2, <1>8, <2>1, <2>2, <2>3 DEF JournalTypes, NoJournal
  <1>13. ~tears' => Clean'
    <2> SUFFICES ASSUME ~tears' PROVE Clean'  OBVIOUS
    <2>1. lines' = before /\ ~tears  BY <1>1 DEF before
    <2>2. Clean  BY <2>1 DEF JournalInv
    <2>3. \A i \in DOMAIN lines' : Whole(lines'[i])  BY <1>4, <2>1, <2>2 DEF Clean
    <2>4. Chained(all')  BY <1>11, <2>2 DEF Clean, all
    <2> QED  BY <1>2, <2>3, <2>4 DEF Clean, all, NoJournal
  <1> QED  BY <1>2, <1>3, <1>11, <1>12, <1>13 DEF JournalInv, all

\* A start refuses the journal only after an append or a power loss stopped
\* inside a line, and an accepted one holds every confirmed event the power
\* loss left, once and in order (Journal::append, read_events_with_key).
THEOREM JournalIsReadBack == JournalSpec => []JournalReadsBack
  <1>1. JournalInv /\ [JournalNext]_journalFile => JournalInv'
    <2> SUFFICES ASSUME JournalInv, [JournalNext]_journalFile PROVE JournalInv'  OBVIOUS
    <2>1. CASE OpenJournal  BY <2>1, OpenHolds
    <2>2. CASE AppendEvent  BY <2>2, AppendHolds
    <2>3. CASE SyncJournal  BY <2>3, SyncHolds
    <2>4. CASE ProcessDies  BY <2>4, DeathHolds
    <2>5. CASE PowerFails  BY <2>5, PowerHolds
    <2>6. CASE UNCHANGED journalFile
      BY <2>6 DEF journalFile, JournalInv, JournalTypes, Clean
    <2> QED  BY <2>1, <2>2, <2>3, <2>4, <2>5, <2>6 DEF JournalNext
  <1>2. JournalInv => JournalReadsBack
    BY ReadingIs DEF JournalInv, JournalReadsBack, Clean, Ascending
  <1> QED  BY <1>1, <1>2, JournalStarts, PTL DEF JournalSpec

-----------------------------------------------------------------------------
(* CaptureReplay: what was captured and what was given out of it           *)

CaptureSpec == CaptureInit /\ [][CaptureNext]_captureReplay

CapturedLines == [stamp : Stamps, state : {"written", "newline", "cut", "joined"}]
FrameTimes == Stamps \cup {Never}

CaptureTypes ==
    /\ captureState \in {"live", "stopped", "replay", "crashed", "refused", "completed"}
    /\ capture \in Seq(CapturedLines)
    /\ lastTime \in FrameTimes /\ savedTime \in FrameTimes
    /\ mishaps \in [torn : BOOLEAN, lost : FrameTimes, stepped : BOOLEAN]

\* The time a live run goes on from: memory, and after its end the snapshot.
GoesOnFrom == IF captureState = "live" THEN lastTime ELSE savedTime

Ascends == \A i \in 2..Len(capture) : capture[i - 1].stamp <= capture[i].stamp

\* As long as no write was cut every line is whole, and the last one is not
\* later than what the run goes on from or than what a crash lost.
CapturedInv ==
    ~mishaps.torn =>
        /\ \A i \in DOMAIN capture : capture[i].state = "written"
        /\ ~mishaps.stepped => Ascends
        /\ captureState \in {"live", "stopped", "crashed"} /\ capture # <<>> =>
                \/ capture[Len(capture)].stamp <= GoesOnFrom
                \/ capture[Len(capture)].stamp <= mishaps.lost

\* The lines before k went out, in order and none twice, but for those of the
\* time of one before them.
WentOut(went, k) ==
    /\ went \in Seq(Nat)
    /\ \A i \in 2..Len(went) : went[i - 1] < went[i]
    /\ \A i \in 1..Len(went) : went[i] \in 1..(k - 1)
    /\ \A i \in 1..(k - 1) : \E j \in 1..Len(went) :
            \/ went[j] = i
            \/ went[j] < i /\ capture[went[j]].stamp = capture[i].stamp

\* Those from k on.
LinesFrom(k) == SubSeq(Lines, k, Len(capture))
TimeOf(went) == IF went = <<>> THEN Never ELSE capture[went[Len(went)]].stamp

ReplayedInv ==
    IF captureState \in {"replay", "completed"}
    THEN /\ Replayable
         /\ \E k \in 1..(Len(capture) + 1) : unread = LinesFrom(k) /\ WentOut(replayed, k)
         /\ \E k \in 1..(Len(capture) + 1) : WentOut(kept, k)
         /\ lastTime = TimeOf(replayed) /\ savedTime = TimeOf(kept)
         /\ captureState = "completed" => unread = <<>>
    ELSE replayed = <<>> /\ kept = <<>>

CaptureInv ==
    /\ CaptureTypes /\ CapturedInv /\ ReplayedInv
    /\ captureState = "refused" => capture = <<>> \/ mishaps.torn \/ mishaps.stepped

LEMMA TimesAre ==
    /\ \A t \in Stamps : t \in Int /\ t # Never
    /\ \A t \in FrameTimes : t \in Int
    /\ \A line \in CapturedLines : line.stamp \in Stamps
  <1>1. Stamps \subseteq Nat  BY CaptureAssumption
  <1> QED  BY <1>1 DEF FrameTimes, Never, CapturedLines

LEMMA CaptureStarts == CaptureInit => CaptureInv
  BY DEF CaptureInit, CaptureInv, CaptureTypes, CapturedInv, ReplayedInv, FrameTimes, Ascends,
         CapturedLines

-----------------------------------------------------------------------------
(* The live run                                                            *)

\* A frame appended to whole lines is a line of its own.
LEMMA AppendedIs ==
    ASSUME CaptureTypes, NEW stamp \in Stamps, NEW state \in {"written", "newline", "cut"}
    PROVE  /\ Appended(stamp, state) \in Seq(CapturedLines)
           /\ (\A i \in DOMAIN capture : capture[i].state = "written") =>
                    Appended(stamp, state) = Append(capture, [stamp |-> stamp, state |-> state])
  <1>1. ASSUME capture # <<>> PROVE Last(capture) = capture[Len(capture)] /\ Len(capture) \in DOMAIN capture
                                   /\ Front(capture) \in Seq(CapturedLines)
    <2>1. capture \in Seq(CapturedLines)  BY DEF CaptureTypes
    <2>2. Len(capture) \in Nat \ {0} /\ DOMAIN capture = 1..Len(capture)  BY <1>1, <2>1
    <2>3. Front(capture) \in Seq(CapturedLines)  BY <2>1, <2>2 DEF Front
    <2> QED  BY <2>2, <2>3 DEF Last
  <1>2. \A s \in {"written", "newline", "cut", "joined"} : [stamp |-> stamp, state |-> s] \in CapturedLines
    BY DEF CapturedLines
  <1>3. capture \in Seq(CapturedLines)  BY DEF CaptureTypes
  <1> QED  BY <1>1, <1>2, <1>3 DEF Appended

\* A step of the live run that leaves the file as it is.
LEMMA LiveKeeps ==
    ASSUME CaptureInv, captureState \in {"live", "stopped", "crashed"}, captureState' \in {"live", "stopped", "crashed"},
           UNCHANGED <<capture, unread, replayed, kept>>,
           lastTime' \in FrameTimes, savedTime' \in FrameTimes,
           mishaps' \in [torn : BOOLEAN, lost : FrameTimes, stepped : BOOLEAN],
           mishaps'.torn = mishaps.torn, mishaps'.stepped = mishaps.stepped,
           mishaps.lost <= mishaps'.lost,
           GoesOnFrom <= GoesOnFrom' \/ GoesOnFrom <= mishaps'.lost
    PROVE  CaptureInv'
  <1>1. CaptureTypes'  BY DEF CaptureInv, CaptureTypes
  <1>2. CapturedInv'
    <2> SUFFICES ASSUME ~mishaps'.torn PROVE
            /\ \A i \in DOMAIN capture' : capture'[i].state = "written"
            /\ ~mishaps'.stepped => Ascends'
            /\ capture' # <<>> =>
                \/ capture'[Len(capture')].stamp <= GoesOnFrom'
                \/ capture'[Len(capture')].stamp <= mishaps'.lost
      BY DEF CapturedInv
    <2>1. ~mishaps.stepped => Ascends'  BY DEF CaptureInv, CapturedInv, Ascends
    <2>2. ASSUME capture # <<>>
          PROVE  \/ capture[Len(capture)].stamp <= GoesOnFrom'
                 \/ capture[Len(capture)].stamp <= mishaps'.lost
      <3>1. \/ capture[Len(capture)].stamp <= GoesOnFrom
            \/ capture[Len(capture)].stamp <= mishaps.lost
        BY <2>2 DEF CaptureInv, CapturedInv
      <3>2. capture[Len(capture)].stamp \in Int
        <4>1. capture \in Seq(CapturedLines)  BY DEF CaptureInv, CaptureTypes
        <4>2. capture[Len(capture)] \in CapturedLines  BY <2>2, <4>1
        <4> QED  BY <4>2, TimesAre
      <3>3. /\ GoesOnFrom \in Int /\ GoesOnFrom' \in Int
            /\ mishaps.lost \in Int /\ mishaps'.lost \in Int
        <4>1. /\ GoesOnFrom \in FrameTimes /\ GoesOnFrom' \in FrameTimes
              /\ mishaps.lost \in FrameTimes /\ mishaps'.lost \in FrameTimes
          BY DEF CaptureInv, CaptureTypes, GoesOnFrom
        <4> QED  BY <4>1, TimesAre
      <3> QED  BY <3>1, <3>2, <3>3
    <2> QED  BY <2>1, <2>2 DEF CaptureInv, CapturedInv
  <1>3. ReplayedInv'  BY DEF CaptureInv, ReplayedInv
  <1> QED  BY <1>1, <1>2, <1>3 DEF CaptureInv

LEMMA CaptureFrameKeeps == ASSUME CaptureInv, CaptureFrame PROVE CaptureInv'
  <1>1. PICK stamp \in Stamps :
            /\ InOrder(stamp)
            /\ capture' = Appended(stamp, "written")
            /\ lastTime' = stamp
            /\ mishaps' = [mishaps EXCEPT !.stepped = @ \/ stamp < mishaps.lost]
    BY DEF CaptureFrame
  <1>2. captureState = "live" /\ UNCHANGED <<captureState, savedTime, unread, replayed, kept>>
    BY DEF CaptureFrame
  <1>3. /\ capture' \in Seq(CapturedLines)
        /\ ~mishaps.torn => capture' = Append(capture, [stamp |-> stamp, state |-> "written"])
    BY <1>1, AppendedIs DEF CaptureInv, CapturedInv
  <1>4. CaptureTypes'
    BY <1>1, <1>2, <1>3 DEF CaptureInv, CaptureTypes, FrameTimes
  <1>5. CapturedInv'
    <2> SUFFICES ASSUME ~mishaps'.torn PROVE
            /\ \A i \in DOMAIN capture' : capture'[i].state = "written"
            /\ ~mishaps'.stepped => Ascends'
            /\ capture'[Len(capture')].stamp <= lastTime'
      BY <1>2 DEF CapturedInv, GoesOnFrom
    <2>1. ~mishaps.torn /\ (~mishaps'.stepped => ~mishaps.stepped /\ ~(stamp < mishaps.lost))
      BY <1>1 DEF CaptureInv, CaptureTypes
    <2>2. /\ capture \in Seq(CapturedLines) /\ Len(capture) \in Nat
          /\ capture' = Append(capture, [stamp |-> stamp, state |-> "written"])
      BY <1>3, <2>1 DEF CaptureInv, CaptureTypes
    <2>3. \A i \in DOMAIN capture : capture[i].state = "written"  BY <2>1 DEF CaptureInv, CapturedInv
    <2>4. /\ Len(capture') = Len(capture) + 1
          /\ capture'[Len(capture) + 1] = [stamp |-> stamp, state |-> "written"]
          /\ \A i \in 1..Len(capture) : capture'[i] = capture[i]
      BY <2>2
    <2>5. ASSUME ~mishaps'.stepped PROVE Ascends'
      <3>1. Ascends /\ ~(stamp < mishaps.lost)  BY <2>1, <2>5 DEF CaptureInv, CapturedInv
      <3>2. ASSUME capture # <<>> PROVE capture[Len(capture)].stamp <= stamp
        <4>1. capture[Len(capture)].stamp <= lastTime \/ capture[Len(capture)].stamp <= mishaps.lost
          BY <1>2, <2>1, <3>2 DEF CaptureInv, CapturedInv, GoesOnFrom
        <4>2. capture[Len(capture)].stamp \in Int /\ lastTime \in Int /\ mishaps.lost \in Int /\ stamp \in Int
          <5>1. capture[Len(capture)] \in CapturedLines  BY <2>2, <3>2
          <5>2. lastTime \in FrameTimes /\ mishaps.lost \in FrameTimes  BY DEF CaptureInv, CaptureTypes
          <5> QED  BY <5>1, <5>2, TimesAre
        <4>3. lastTime <= stamp  BY <1>1 DEF InOrder
        <4> QED  BY <3>1, <4>1, <4>2, <4>3
      <3>3. ASSUME NEW i \in 2..(Len(capture) + 1) PROVE capture'[i - 1].stamp <= capture'[i].stamp
        <4>1. CASE i = Len(capture) + 1
          <5>1. i - 1 = Len(capture) /\ Len(capture) \in 1..Len(capture) /\ capture # <<>>
            BY <2>2, <4>1
          <5> QED  BY <2>4, <3>2, <4>1, <5>1
        <4>2. CASE i # Len(capture) + 1
          <5>1. i \in 2..Len(capture) /\ i - 1 \in 1..Len(capture)  BY <2>2, <4>2
          <5> QED  BY <2>4, <3>1, <5>1 DEF Ascends
        <4> QED  BY <4>1, <4>2
      <3> QED  BY <2>4, <3>3 DEF Ascends
    <2>6. capture'[Len(capture')].stamp <= lastTime'  BY <1>1, <2>4, TimesAre
    <2> QED  BY <2>2, <2>3, <2>4, <2>5, <2>6
  <1>6. ReplayedInv'  BY <1>2 DEF CaptureInv, ReplayedInv
  <1> QED  BY <1>2, <1>4, <1>5, <1>6 DEF CaptureInv

\* What a crash loses is noted.
LEMMA ForgottenIs ==
    ASSUME CaptureInv
    PROVE  /\ Forgotten \in [torn : BOOLEAN, lost : FrameTimes, stepped : BOOLEAN]
           /\ Forgotten.torn = mishaps.torn /\ Forgotten.stepped = mishaps.stepped
           /\ mishaps.lost <= Forgotten.lost
           /\ lastTime <= savedTime \/ lastTime <= Forgotten.lost
  <1>1. /\ lastTime \in FrameTimes /\ savedTime \in FrameTimes /\ mishaps.lost \in FrameTimes
        /\ \A t \in FrameTimes : t \in Int
        /\ mishaps \in [torn : BOOLEAN, lost : FrameTimes, stepped : BOOLEAN]
    BY TimesAre DEF CaptureInv, CaptureTypes, FrameTimes, Never
  <1> QED  BY <1>1 DEF Forgotten

\* A write that is cut leaves nothing to say of the file.
LEMMA CaptureCutKeeps == ASSUME CaptureInv, CaptureCut PROVE CaptureInv'
  <1>1. /\ captureState = "live" /\ captureState' \in {"stopped", "crashed"}
        /\ UNCHANGED <<unread, replayed, kept>>
        /\ \E stamp \in Stamps, state \in {"newline", "cut"} : capture' = Appended(stamp, state)
        /\ mishaps' \in {[mishaps EXCEPT !.torn = TRUE], [Forgotten EXCEPT !.torn = TRUE]}
        /\ lastTime' \in {lastTime, Never} /\ savedTime' \in {lastTime', savedTime}
    BY DEF CaptureCut, EndRun, Dies
  <1>2. capture' \in Seq(CapturedLines)  BY <1>1, AppendedIs DEF CaptureInv
  <1>3. mishaps' \in [torn : BOOLEAN, lost : FrameTimes, stepped : BOOLEAN] /\ mishaps'.torn
    BY <1>1, ForgottenIs DEF CaptureInv, CaptureTypes
  <1>4. CaptureTypes'  BY <1>1, <1>2, <1>3 DEF CaptureInv, CaptureTypes, FrameTimes
  <1>5. CapturedInv'  BY <1>3 DEF CapturedInv
  <1>6. ReplayedInv'  BY <1>1 DEF CaptureInv, ReplayedInv
  <1> QED  BY <1>1, <1>4, <1>5, <1>6 DEF CaptureInv

LEMMA LiveStepsKeep ==
    ASSUME CaptureInv, CaptureRefused \/ SaveLive \/ StopLive \/ CrashLive \/ RestartLive
    PROVE  CaptureInv'
  <1>0. /\ lastTime \in FrameTimes /\ savedTime \in FrameTimes /\ mishaps.lost \in FrameTimes
        /\ Never \in FrameTimes /\ \A t \in FrameTimes : t <= t
        /\ mishaps \in [torn : BOOLEAN, lost : FrameTimes, stepped : BOOLEAN]
    BY TimesAre DEF CaptureInv, CaptureTypes, FrameTimes, Never
  <1>1. CASE CaptureRefused \/ StopLive
    <2>1. /\ captureState = "live" /\ captureState' = "stopped" /\ savedTime' = lastTime
          /\ UNCHANGED <<capture, lastTime, mishaps, unread, replayed, kept>>
      BY <1>1 DEF CaptureRefused, StopLive, EndRun
    <2>2. GoesOnFrom' = GoesOnFrom  BY <2>1 DEF GoesOnFrom
    <2>3. GoesOnFrom <= GoesOnFrom'  BY <1>0, <2>1, <2>2 DEF GoesOnFrom
    <2> QED  BY <1>0, <2>1, <2>3, LiveKeeps
  <1>2. CASE SaveLive
    <2>1. /\ captureState = "live" /\ captureState' = "live" /\ savedTime' = lastTime
          /\ UNCHANGED <<capture, lastTime, mishaps, unread, replayed, kept>>
      BY <1>2 DEF SaveLive
    <2>2. GoesOnFrom <= GoesOnFrom'  BY <1>0, <2>1 DEF GoesOnFrom
    <2> QED  BY <1>0, <2>1, <2>2, LiveKeeps
  <1>3. CASE CrashLive
    <2>1. /\ captureState = "live" /\ captureState' = "crashed" /\ lastTime' = Never
          /\ mishaps' = Forgotten
          /\ UNCHANGED <<capture, savedTime, unread, replayed, kept>>
      BY <1>3 DEF CrashLive, Dies
    <2>2. GoesOnFrom <= GoesOnFrom' \/ GoesOnFrom <= mishaps'.lost
      BY <2>1, ForgottenIs DEF GoesOnFrom
    <2> QED  BY <1>0, <2>1, <2>2, ForgottenIs, LiveKeeps
  <1>4. CASE RestartLive
    <2>1. /\ captureState \in {"stopped", "crashed"} /\ captureState' = "live" /\ lastTime' = savedTime
          /\ UNCHANGED <<capture, savedTime, mishaps, unread, replayed, kept>>
      BY <1>4 DEF RestartLive
    <2>2. GoesOnFrom <= GoesOnFrom'  BY <1>0, <2>1 DEF GoesOnFrom
    <2> QED  BY <1>0, <2>1, <2>2, LiveKeeps
  <1> QED  BY <1>1, <1>2, <1>3, <1>4
-----------------------------------------------------------------------------
(* The replay                                                              *)

LEMMA LinesFromAre ==
    ASSUME CaptureTypes, NEW k \in 1..(Len(capture) + 1)
    PROVE  /\ LinesFrom(k) \in Seq(Nat)
           /\ Len(LinesFrom(k)) = Len(capture) - k + 1
           /\ \A i \in 1..(Len(capture) - k + 1) : LinesFrom(k)[i] = k + i - 1
  <1>1. Len(capture) \in Nat /\ DOMAIN capture = 1..Len(capture)  BY DEF CaptureTypes
  <1>2. \A i \in k..Len(capture) : Lines[i] \in Nat /\ Lines[i] = i  BY <1>1 DEF Lines
  <1>3. k \in Int /\ Len(capture) \in Int  BY <1>1
  <1>4. /\ SubSeq(Lines, k, Len(capture)) \in Seq(Nat)
        /\ Len(SubSeq(Lines, k, Len(capture))) = IF k <= Len(capture) THEN Len(capture) - k + 1 ELSE 0
        /\ \A i \in 1..(Len(capture) - k + 1) : SubSeq(Lines, k, Len(capture))[i] = Lines[k + i - 1]
    BY <1>2, <1>3, SubSeqProperties
  <1>5. \A i \in 1..(Len(capture) - k + 1) : Lines[k + i - 1] = k + i - 1
    <2> SUFFICES ASSUME NEW i \in 1..(Len(capture) - k + 1) PROVE Lines[k + i - 1] = k + i - 1  OBVIOUS
    <2>1. k + i - 1 \in k..Len(capture)  BY <1>1
    <2> QED  BY <1>2, <2>1
  <1>6. (IF k <= Len(capture) THEN Len(capture) - k + 1 ELSE 0) = Len(capture) - k + 1  BY <1>1
  <1> QED  BY <1>4, <1>5, <1>6 DEF LinesFrom

LEMMA LinesAre == ASSUME CaptureTypes PROVE Lines = LinesFrom(1)
  <1>1. Len(capture) \in Nat /\ DOMAIN capture = 1..Len(capture)  BY DEF CaptureTypes
  <1>2. Lines \in Seq(Nat) /\ Len(Lines) = Len(capture) /\ \A i \in 1..Len(capture) : Lines[i] = i
    BY <1>1 DEF Lines
  <1>3. 1 \in 1..(Len(capture) + 1)  BY <1>1
  <1>4. /\ LinesFrom(1) \in Seq(Nat) /\ Len(LinesFrom(1)) = Len(capture)
        /\ \A i \in 1..Len(capture) : LinesFrom(1)[i] = i
    <2>1. Len(capture) - 1 + 1 = Len(capture) /\ \A i \in 1..Len(capture) : 1 + i - 1 = i  BY <1>1
    <2>2. /\ LinesFrom(1) \in Seq(Nat) /\ Len(LinesFrom(1)) = Len(capture) - 1 + 1
          /\ \A i \in 1..(Len(capture) - 1 + 1) : LinesFrom(1)[i] = 1 + i - 1
      BY <1>3, LinesFromAre
    <2> QED  BY <2>1, <2>2
  <1> QED  BY <1>1, <1>2, <1>4, SeqEqual

\* The next line goes out and the rest stays.
LEMMA NextLine ==
    ASSUME CaptureTypes, NEW k \in 1..(Len(capture) + 1), LinesFrom(k) # <<>>
    PROVE  /\ k \in 1..Len(capture) /\ Head(LinesFrom(k)) = k
           /\ Tail(LinesFrom(k)) = LinesFrom(k + 1)
  <1>1. Len(capture) \in Nat  BY DEF CaptureTypes
  <1>2. /\ LinesFrom(k) \in Seq(Nat)
        /\ Len(LinesFrom(k)) = Len(capture) - k + 1
        /\ \A i \in 1..(Len(capture) - k + 1) : LinesFrom(k)[i] = k + i - 1
    BY LinesFromAre
  <1>3. Len(LinesFrom(k)) # 0  BY <1>2
  <1>4. k \in 1..Len(capture) /\ k + 1 \in 1..(Len(capture) + 1)  BY <1>1, <1>2, <1>3
  <1>5. /\ LinesFrom(k + 1) \in Seq(Nat)
        /\ Len(LinesFrom(k + 1)) = Len(capture) - k
        /\ \A i \in 1..(Len(capture) - k) : LinesFrom(k + 1)[i] = k + i
    <2>1. Len(capture) - (k + 1) + 1 = Len(capture) - k  BY <1>1
    <2>2. \A i \in 1..(Len(capture) - k) : (k + 1) + i - 1 = k + i  BY <1>1
    <2> QED  BY <1>4, <2>1, <2>2, LinesFromAre
  <1>6. /\ Tail(LinesFrom(k)) \in Seq(Nat)
        /\ Len(Tail(LinesFrom(k))) = Len(capture) - k
        /\ \A i \in 1..(Len(capture) - k) : Tail(LinesFrom(k))[i] = k + i
    <2>1. /\ Tail(LinesFrom(k)) \in Seq(Nat)
          /\ Len(Tail(LinesFrom(k))) = Len(capture) - k
          /\ \A i \in 1..(Len(capture) - k) : Tail(LinesFrom(k))[i] = LinesFrom(k)[i + 1]
      BY <1>1, <1>2, <1>4, HeadTailProperties
    <2>2. \A i \in 1..(Len(capture) - k) : i + 1 \in 1..(Len(capture) - k + 1) /\ k + (i + 1) - 1 = k + i
      BY <1>1, <1>4
    <2> QED  BY <1>2, <2>1, <2>2
  <1>7. Head(LinesFrom(k)) = k
    <2>1. Head(LinesFrom(k)) = LinesFrom(k)[1]  BY <1>2
    <2>2. 1 \in 1..(Len(capture) - k + 1) /\ k + 1 - 1 = k  BY <1>1, <1>4
    <2> QED  BY <1>2, <2>1, <2>2
  <1>8. Tail(LinesFrom(k)) = LinesFrom(k + 1)
    <2> DEFINE rest == Tail(LinesFrom(k))
               next == LinesFrom(k + 1)
    <2>1. /\ rest \in Seq(Nat) /\ next \in Seq(Nat) /\ Len(rest) = Len(next)
          /\ \A i \in 1..Len(rest) : rest[i] = next[i]
      BY <1>5, <1>6
    <2> HIDE DEF rest, next
    <2>2. rest = next  BY <2>1, SeqEqual
    <2> QED  BY <2>2 DEF rest, next
  <1> QED  BY <1>4, <1>7, <1>8

LEMMA OneMoreWentOut ==
    ASSUME NEW went, NEW k \in Nat \ {0}, WentOut(went, k)
    PROVE  WentOut(Append(went, k), k + 1)
  <1> DEFINE more == Append(went, k)
  <1>1. went \in Seq(Nat) /\ Len(went) \in Nat  BY DEF WentOut
  <1>2. /\ more \in Seq(Nat) /\ Len(more) = Len(went) + 1 /\ more[Len(went) + 1] = k
        /\ \A i \in 1..Len(went) : more[i] = went[i]
    BY <1>1, AppendProperties
  <1> HIDE DEF more
  <1>3. \A i \in 1..Len(went) : went[i] \in 1..(k - 1)  BY DEF WentOut
  <1>4. \A i \in 1..Len(more) : more[i] \in 1..((k + 1) - 1)
    <2> SUFFICES ASSUME NEW i \in 1..(Len(went) + 1) PROVE more[i] \in 1..k  BY <1>2
    <2>1. CASE i = Len(went) + 1  BY <1>2, <2>1
    <2>2. CASE i # Len(went) + 1
      <3>1. i \in 1..Len(went)  BY <1>1, <2>2
      <3>2. more[i] = went[i] /\ went[i] \in 1..(k - 1)  BY <1>2, <1>3, <3>1
      <3> QED  BY <3>2
    <2> QED  BY <2>1, <2>2
  <1>5. \A i \in 2..Len(more) : more[i - 1] < more[i]
    <2> SUFFICES ASSUME NEW i \in 2..(Len(went) + 1) PROVE more[i - 1] < more[i]  BY <1>2
    <2>1. CASE i = Len(went) + 1
      <3>1. i - 1 \in 1..Len(went)  BY <1>1, <2>1
      <3>2. more[i - 1] = went[i - 1] /\ went[i - 1] \in 1..(k - 1)  BY <1>2, <1>3, <3>1
      <3> QED  BY <1>2, <2>1, <3>2
    <2>2. CASE i # Len(went) + 1
      <3>1. i - 1 \in 1..Len(went) /\ i \in 1..Len(went) /\ i \in 2..Len(went)  BY <1>1, <2>2
      <3> QED  BY <1>2, <3>1 DEF WentOut
    <2> QED  BY <2>1, <2>2
  <1>6. ASSUME NEW i \in 1..k
        PROVE  \E j \in 1..Len(more) :
                    \/ more[j] = i
                    \/ more[j] < i /\ capture[more[j]].stamp = capture[i].stamp
    <2>1. CASE i = k  BY <1>1, <1>2, <2>1
    <2>2. CASE i # k
      <3>1. i \in 1..(k - 1)  BY <2>2
      <3>2. PICK j \in 1..Len(went) :
                \/ went[j] = i
                \/ went[j] < i /\ capture[went[j]].stamp = capture[i].stamp
        BY <3>1 DEF WentOut
      <3>3. j \in 1..Len(more) /\ more[j] = went[j]  BY <1>1, <1>2
      <3> QED  BY <3>2, <3>3
    <2> QED  BY <2>1, <2>2
  <1>7. \A i \in 1..((k + 1) - 1) : \E j \in 1..Len(more) :
                    \/ more[j] = i
                    \/ more[j] < i /\ capture[more[j]].stamp = capture[i].stamp
    BY <1>6
  <1>8. WentOut(more, k + 1)  BY <1>2, <1>4, <1>5, <1>7 DEF WentOut
  <1> QED  BY <1>8 DEF more

LEMMA NothingWentOut == WentOut(<<>>, 1) /\ TimeOf(<<>>) = Never
  BY DEF WentOut, TimeOf

-----------------------------------------------------------------------------
(* A restart of the replay                                                 *)

\* In a capture in order a later line is of no earlier time.
LEMMA InOrderOfTime ==
    ASSUME CaptureTypes, Replayable, NEW i \in 1..Len(capture), NEW j \in 1..Len(capture), i <= j
    PROVE  capture[i].stamp <= capture[j].stamp
  <1>1. Len(capture) \in Nat /\ \A m \in 1..Len(capture) : capture[m].stamp \in Int
    BY TimesAre DEF CaptureTypes
  <1>2. \A m \in 2..Len(capture) : capture[m - 1].stamp <= capture[m].stamp  BY DEF Replayable
  <1> DEFINE T == {d \in Nat : i + d <= Len(capture) => capture[i].stamp <= capture[i + d].stamp}
  <1>3. 0 \in T  BY <1>1
  <1>4. ASSUME NEW d \in T PROVE d + 1 \in T
    <2> SUFFICES ASSUME i + (d + 1) <= Len(capture) PROVE capture[i].stamp <= capture[i + (d + 1)].stamp
      OBVIOUS
    <2>1. i + d <= Len(capture) /\ i + d \in 1..Len(capture) /\ i + (d + 1) \in 2..Len(capture)
          /\ (i + (d + 1)) - 1 = i + d
      BY <1>1
    <2>2. capture[i].stamp <= capture[i + d].stamp  BY <2>1
    <2>3. capture[i + d].stamp <= capture[i + (d + 1)].stamp  BY <1>2, <2>1
    <2>4. capture[i].stamp \in Int /\ capture[i + d].stamp \in Int /\ capture[i + (d + 1)].stamp \in Int
      <3>1. i + (d + 1) \in 1..Len(capture)  BY <2>1
      <3> QED  BY <1>1, <2>1, <3>1
    <2> QED  BY <2>2, <2>3, <2>4
  <1>5. T = Nat
    <2>1. T \in SUBSET Nat  OBVIOUS
    <2> HIDE DEF T
    <2> QED  BY <1>3, <1>4, <2>1, Induction
  <1>6. j - i \in Nat /\ i + (j - i) = j  BY <1>1
  <1>7. j - i \in T
    <2> HIDE DEF T
    <2> QED  BY <1>5, <1>6
  <1> QED  BY <1>1, <1>6, <1>7

\* What is later than the time of the last line that went out is the rest, but
\* for lines of that time.
LEMMA LaterIsTheRest ==
    ASSUME CaptureTypes, Replayable, NEW went, went # <<>>,
           NEW k \in 1..(Len(capture) + 1), WentOut(went, k)
    PROVE  /\ TimeOf(went) # Never
           /\ \E m \in 1..(Len(capture) + 1) : AfterTime(TimeOf(went)) = LinesFrom(m) /\ WentOut(went, m)
  <1> DEFINE N == Len(capture)
             last == went[Len(went)]
             later == {i \in DOMAIN capture : capture[i].stamp > TimeOf(went)}
             m == IF later = {} THEN N + 1 ELSE Min(later)
  <1>1. N \in Nat /\ DOMAIN capture = 1..N /\ \A i \in 1..N : capture[i].stamp \in Stamps
    BY TimesAre DEF CaptureTypes
  <1>2. /\ went \in Seq(Nat) /\ Len(went) \in Nat /\ Len(went) # 0 /\ Len(went) \in 1..Len(went)
        /\ \A i \in 1..Len(went) : went[i] \in 1..(k - 1)
        /\ \A i \in 2..Len(went) : went[i - 1] < went[i]
    BY DEF WentOut
  <1>3. last \in 1..(k - 1) /\ last \in 1..N  BY <1>1, <1>2
  <1>4. TimeOf(went) = capture[last].stamp /\ TimeOf(went) \in Stamps  BY <1>1, <1>3 DEF TimeOf
  <1>5. TimeOf(went) # Never /\ \A t \in Stamps : t \in Int  BY <1>4, TimesAre
  <1>6. \A i \in 1..Len(went) : went[i] <= last
    <2> DEFINE T == {d \in Nat : d < Len(went) => went[Len(went) - d] <= last}
    <2>1. 0 \in T  BY <1>2
    <2>2. ASSUME NEW d \in T PROVE d + 1 \in T
      <3> SUFFICES ASSUME d + 1 < Len(went) PROVE went[Len(went) - (d + 1)] <= last
        OBVIOUS
      <3>1. /\ d < Len(went) /\ Len(went) - d \in 2..Len(went)
            /\ Len(went) - (d + 1) = (Len(went) - d) - 1
            /\ Len(went) - d \in 1..Len(went) /\ Len(went) - (d + 1) \in 1..Len(went)
        BY <1>2
      <3>2. went[Len(went) - d] <= last  BY <3>1
      <3>3. went[Len(went) - (d + 1)] < went[Len(went) - d]  BY <1>2, <3>1
      <3>4. went[Len(went) - d] \in Nat /\ went[Len(went) - (d + 1)] \in Nat
        <4>1. went[Len(went) - d] \in 1..(k - 1) /\ went[Len(went) - (d + 1)] \in 1..(k - 1)
          BY <1>2, <3>1
        <4> QED  BY <4>1
      <3> QED  BY <1>3, <3>2, <3>3, <3>4
    <2>3. T = Nat
      <3>1. T \in SUBSET Nat  OBVIOUS
      <3> HIDE DEF T
      <3> QED  BY <2>1, <2>2, <3>1, Induction
    <2> SUFFICES ASSUME NEW i \in 1..Len(went) PROVE went[i] <= last  OBVIOUS
    <2>4. Len(went) - i \in Nat /\ Len(went) - i < Len(went) /\ Len(went) - (Len(went) - i) = i
      BY <1>2
    <2>5. Len(went) - i \in T
      <3> HIDE DEF T
      <3> QED  BY <2>3, <2>4
    <2> QED  BY <2>4, <2>5
  <1>7. later \in SUBSET Nat  BY <1>1
  <1>8. later # {} => m \in later /\ \A i \in later : m <= i  BY <1>7, MinIn
  <1>9. m \in 1..(N + 1) /\ \A i \in 1..N : i < m => ~(capture[i].stamp > TimeOf(went))
    <2> HIDE DEF m
    <2>1. CASE later = {}  BY <1>1, <2>1 DEF m
    <2>2. CASE later # {}
      <3>1. m \in later /\ \A i \in later : m <= i  BY <1>8, <2>2
      <3>2. m \in 1..N  BY <1>1, <3>1
      <3>3. \A i \in 1..N : i < m => i \notin later  BY <1>7, <3>1, <3>2
      <3> QED  BY <1>1, <3>2, <3>3
    <2> QED  BY <2>1, <2>2
  <1>10. AfterTime(TimeOf(went)) = LinesFrom(m)
    <2>1. Len(Lines) = N  BY <1>1 DEF Lines
    <2>2. CASE later = {}
      <3>1. AfterTime(TimeOf(went)) = <<>>  BY <2>2 DEF AfterTime, FromFirst
      <3>2. LinesFrom(N + 1) = <<>>
        <4>1. N + 1 \in Int /\ N \in Int /\ N < N + 1  BY <1>1
        <4> HIDE DEF N
        <4>2. SubSeq(Lines, N + 1, N) = <<>>  BY <4>1, SubSeqEmpty
        <4> QED  BY <4>2 DEF LinesFrom, N
      <3> QED  BY <2>2, <3>1, <3>2
    <2>3. CASE later # {}
      <3>1. AfterTime(TimeOf(went)) = SubSeq(Lines, Min(later), Len(Lines))
        BY <2>3 DEF AfterTime, FromFirst
      <3> QED  BY <2>1, <2>3, <3>1 DEF LinesFrom
    <2> QED  BY <2>2, <2>3
  <1>11. last < m
    <2> HIDE DEF m, last
    <2>1. CASE m = N + 1  BY <1>1, <1>3, <2>1
    <2>2. CASE m # N + 1
      <3>1. m \in 1..N /\ later # {}  BY <1>1, <1>9, <2>2 DEF m
      <3>2. capture[m].stamp > capture[last].stamp  BY <1>4, <1>8, <3>1
      <3>3. ~(m <= last)
        <4>1. m <= last => capture[m].stamp <= capture[last].stamp  BY <1>3, <3>1, InOrderOfTime
        <4> QED  BY <1>1, <1>3, <1>5, <3>1, <3>2, <4>1
      <3> QED  BY <1>3, <3>1, <3>3
    <2> QED  BY <2>1, <2>2
  <1>12. WentOut(went, m)
    <2> HIDE DEF m, last, later
    <2>1. \A i \in 1..Len(went) : went[i] \in 1..(m - 1)
      <3> SUFFICES ASSUME NEW i \in 1..Len(went) PROVE went[i] \in 1..(m - 1)  OBVIOUS
      <3>1. went[i] \in 1..(k - 1) /\ went[i] <= last  BY <1>2, <1>6
      <3> QED  BY <1>1, <1>3, <1>9, <1>11, <3>1
    <2>2. ASSUME NEW i \in 1..(m - 1)
          PROVE  \E j \in 1..Len(went) :
                    \/ went[j] = i
                    \/ went[j] < i /\ capture[went[j]].stamp = capture[i].stamp
      <3>1. CASE i < k
        <4>1. i \in 1..(k - 1)  BY <1>1, <1>9, <3>1
        <4> QED  BY <4>1 DEF WentOut
      <3>2. CASE ~(i < k)
        <4>1. i \in 1..N /\ i < m /\ last < i  BY <1>1, <1>3, <1>9, <3>2
        <4>2. capture[last].stamp <= capture[i].stamp
          <5>1. last <= i  BY <1>3, <4>1
          <5> QED  BY <1>3, <4>1, <5>1, InOrderOfTime
        <4>3. ~(capture[i].stamp > capture[last].stamp)  BY <1>4, <1>9, <4>1
        <4>4. capture[last].stamp = capture[i].stamp  BY <1>1, <1>3, <1>5, <4>1, <4>2, <4>3
        <4>5. went[Len(went)] = last  BY DEF last
        <4> QED  BY <1>2, <4>1, <4>4, <4>5
      <3> QED  BY <3>1, <3>2
    <2> QED  BY <1>2, <2>1, <2>2 DEF WentOut
  <1> QED  BY <1>5, <1>9, <1>10, <1>12

-----------------------------------------------------------------------------

\* A step of the replay leaves the capture as it is.
LEMMA ReplaySame ==
    ASSUME UNCHANGED capture
    PROVE  /\ \A went, k : WentOut(went, k)' = WentOut(went, k)
           /\ \A k : LinesFrom(k)' = LinesFrom(k)
  BY DEF WentOut, LinesFrom, Lines

LEMMA ReplayStepsKeep ==
    ASSUME CaptureInv, StartReplay \/ ReplayFrame \/ SaveReplay \/ RestartReplay \/ CompleteReplay
    PROVE  CaptureInv'
  <1>0. UNCHANGED <<capture, mishaps>> /\ CaptureTypes /\ Len(capture) \in Nat
    BY DEF StartReplay, ReplayFrame, SaveReplay, RestartReplay, CompleteReplay, CaptureInv, CaptureTypes
  <1>1. ASSUME captureState \in {"replay", "completed"}
        PROVE  /\ Replayable
               /\ \E k \in 1..(Len(capture) + 1) : unread = LinesFrom(k) /\ WentOut(replayed, k)
               /\ \E k \in 1..(Len(capture) + 1) : WentOut(kept, k)
               /\ lastTime = TimeOf(replayed) /\ savedTime = TimeOf(kept)
    BY <1>1 DEF CaptureInv, ReplayedInv
  <1>2. Replayable' = Replayable  BY <1>0 DEF Replayable
  <1>3. Never \in FrameTimes  BY DEF FrameTimes
  <1>4. CASE StartReplay
    <2>1. /\ captureState \in {"stopped", "crashed"} /\ lastTime' = Never /\ savedTime' = Never
          /\ replayed' = replayed /\ kept' = kept
          /\ \/ Replayable /\ captureState' = "replay" /\ unread' = Lines
             \/ ~Replayable /\ captureState' = "refused"
      BY <1>4 DEF StartReplay
    <2>2. replayed = <<>> /\ kept = <<>>  BY <2>1 DEF CaptureInv, ReplayedInv
    <2>3. CaptureTypes'  BY <1>0, <1>3, <2>1 DEF CaptureTypes
    <2>4. CapturedInv'  BY <1>0, <2>1 DEF CaptureInv, CapturedInv, Ascends
    <2>5. CASE captureState' = "replay"
      <3>1. Replayable'  BY <1>2, <2>1, <2>5
      <3>2. unread' = LinesFrom(1)  BY <1>0, <2>1, <2>5, LinesAre
      <3>3. \E k \in 1..(Len(capture') + 1) : unread' = LinesFrom(k)' /\ WentOut(<<>>, k)'
        <4>1. 1 \in 1..(Len(capture') + 1)  BY <1>0
        <4>2. LinesFrom(1)' = LinesFrom(1) /\ WentOut(<<>>, 1)' = WentOut(<<>>, 1)  BY <1>0, ReplaySame
        <4> QED  BY <3>2, <4>1, <4>2, NothingWentOut
      <3>4. replayed' = <<>> /\ kept' = <<>> /\ TimeOf(<<>>)' = Never  BY <2>1, <2>2 DEF TimeOf
      <3>5. ReplayedInv'  BY <2>1, <2>5, <3>1, <3>3, <3>4 DEF ReplayedInv
      <3> QED  BY <2>3, <2>4, <2>5, <3>5 DEF CaptureInv
    <2>6. CASE captureState' = "refused"
      <3>1. ReplayedInv'  BY <2>1, <2>2, <2>6 DEF ReplayedInv
      <3>2. ~Replayable => capture = <<>> \/ mishaps.torn \/ mishaps.stepped
        BY DEF Replayable, LineParses, CaptureInv, CapturedInv, Ascends
      <3>3. capture' = <<>> \/ mishaps'.torn \/ mishaps'.stepped  BY <1>0, <2>1, <2>6, <3>2
      <3> QED  BY <2>3, <2>4, <2>6, <3>1, <3>3 DEF CaptureInv
    <2> QED  BY <2>1, <2>5, <2>6
  <1>5. CASE ReplayFrame
    <2>1. /\ captureState = "replay" /\ captureState' = "replay" /\ unread # <<>>
          /\ unread' = Tail(unread)
          /\ lastTime' = capture[Head(unread)].stamp
          /\ replayed' = Append(replayed, Head(unread))
          /\ savedTime' = savedTime /\ kept' = kept
      BY <1>5 DEF ReplayFrame
    <2>2. PICK k \in 1..(Len(capture) + 1) : unread = LinesFrom(k) /\ WentOut(replayed, k)
      BY <1>1, <2>1
    <2>3. k \in 1..Len(capture) /\ Head(unread) = k /\ unread' = LinesFrom(k + 1)
      BY <1>0, <2>1, <2>2, NextLine
    <2>4. WentOut(replayed', k + 1)
      <3>1. k \in Nat \ {0}  BY <1>0
      <3> QED  BY <2>1, <2>2, <2>3, <3>1, OneMoreWentOut
    <2>5. \E j \in 1..(Len(capture') + 1) : unread' = LinesFrom(j)' /\ WentOut(replayed, j)'
      <3>1. k + 1 \in 1..(Len(capture') + 1)  BY <1>0, <2>3
      <3>2. LinesFrom(k + 1)' = LinesFrom(k + 1) /\ (WentOut(replayed, k + 1)' <=> WentOut(replayed', k + 1))
        BY <1>0 DEF WentOut, LinesFrom, Lines
      <3> QED  BY <2>3, <2>4, <3>1, <3>2
    <2>6. lastTime' = TimeOf(replayed)'
      <3>1. replayed \in Seq(Nat) /\ k \in Nat  BY <1>0, <2>2 DEF WentOut
      <3>2. replayed' # <<>> /\ replayed'[Len(replayed')] = k
        BY <2>1, <2>3, <3>1, AppendProperties
      <3> QED  BY <1>0, <2>1, <2>3, <3>2 DEF TimeOf
    <2>7. /\ \E j \in 1..(Len(capture') + 1) : WentOut(kept, j)'
          /\ savedTime' = TimeOf(kept)'
      <3>1. PICK j \in 1..(Len(capture) + 1) : WentOut(kept, j)  BY <1>1, <2>1
      <3>2. WentOut(kept, j)'  BY <1>0, <2>1, <3>1 DEF WentOut
      <3>3. TimeOf(kept)' = TimeOf(kept)  BY <1>0, <2>1 DEF TimeOf
      <3> QED  BY <1>0, <1>1, <2>1, <3>2, <3>3
    <2>8. ReplayedInv'  BY <1>1, <1>2, <2>1, <2>5, <2>6, <2>7 DEF ReplayedInv
    <2>9. lastTime' \in FrameTimes
      <3>1. capture[k].stamp \in Stamps  BY <1>0, <2>3, TimesAre DEF CaptureTypes
      <3> QED  BY <2>1, <2>3, <3>1 DEF FrameTimes
    <2>10. CaptureTypes'  BY <1>0, <2>1, <2>9 DEF CaptureTypes
    <2>11. CapturedInv'  BY <1>0, <2>1 DEF CaptureInv, CapturedInv, Ascends
    <2> QED  BY <2>1, <2>8, <2>10, <2>11 DEF CaptureInv
  <1>6. CASE SaveReplay
    <2>1. /\ captureState = "replay" /\ captureState' = "replay"
          /\ kept' = replayed /\ savedTime' = lastTime
          /\ UNCHANGED <<lastTime, unread, replayed>>
      BY <1>6 DEF SaveReplay
    <2>2. PICK k \in 1..(Len(capture) + 1) : unread = LinesFrom(k) /\ WentOut(replayed, k)
      BY <1>1, <2>1
    <2>3. /\ LinesFrom(k)' = LinesFrom(k)
          /\ (WentOut(replayed, k)' <=> WentOut(replayed, k))
          /\ (WentOut(kept, k)' <=> WentOut(replayed, k))
      BY <1>0, <2>1 DEF WentOut, LinesFrom, Lines
    <2>4. TimeOf(replayed)' = TimeOf(replayed) /\ TimeOf(kept)' = TimeOf(replayed)
      BY <1>0, <2>1 DEF TimeOf
    <2>5. ReplayedInv'  BY <1>0, <1>1, <1>2, <2>1, <2>2, <2>3, <2>4 DEF ReplayedInv
    <2>6. CaptureTypes'  BY <1>0, <2>1 DEF CaptureTypes
    <2>7. CapturedInv'  BY <1>0, <2>1 DEF CaptureInv, CapturedInv, Ascends
    <2> QED  BY <2>1, <2>5, <2>6, <2>7 DEF CaptureInv
  <1>7. CASE RestartReplay
    <2>1. /\ captureState = "replay" /\ captureState' = "replay"
          /\ lastTime' = savedTime /\ replayed' = kept
          /\ unread' = (IF savedTime = Never THEN Lines ELSE AfterTime(savedTime))
          /\ UNCHANGED <<savedTime, kept>>
      BY <1>7 DEF RestartReplay
    <2>2. PICK k \in 1..(Len(capture) + 1) : WentOut(kept, k)  BY <1>1, <2>1
    <2>3. savedTime = TimeOf(kept) /\ Replayable  BY <1>1, <2>1
    <2>4. \E j \in 1..(Len(capture) + 1) : unread' = LinesFrom(j) /\ WentOut(kept, j)
      <3>1. CASE kept = <<>>
        <4>1. savedTime = Never  BY <2>3, <3>1, NothingWentOut
        <4>2. unread' = LinesFrom(1)  BY <1>0, <2>1, <4>1, LinesAre
        <4>3. 1 \in 1..(Len(capture) + 1)  BY <1>0
        <4> QED  BY <3>1, <4>2, <4>3, NothingWentOut
      <3>2. CASE kept # <<>>
        <4>1. /\ TimeOf(kept) # Never
              /\ \E m \in 1..(Len(capture) + 1) : AfterTime(TimeOf(kept)) = LinesFrom(m) /\ WentOut(kept, m)
          BY <1>0, <2>2, <2>3, <3>2, LaterIsTheRest
        <4> QED  BY <2>1, <2>3, <4>1
      <3> QED  BY <3>1, <3>2
    <2>5. PICK j \in 1..(Len(capture) + 1) : unread' = LinesFrom(j) /\ WentOut(kept, j)  BY <2>4
    <2>6. /\ LinesFrom(j)' = LinesFrom(j)
          /\ (WentOut(replayed, j)' <=> WentOut(kept, j))
          /\ (WentOut(kept, j)' <=> WentOut(kept, j))
      BY <1>0, <2>1 DEF WentOut, LinesFrom, Lines
    <2>7. TimeOf(replayed)' = TimeOf(kept) /\ TimeOf(kept)' = TimeOf(kept)
      BY <1>0, <2>1 DEF TimeOf
    <2>8. ReplayedInv'  BY <1>0, <1>2, <2>1, <2>3, <2>5, <2>6, <2>7 DEF ReplayedInv
    <2>9. CaptureTypes'  BY <1>0, <2>1 DEF CaptureTypes
    <2>10. CapturedInv'  BY <1>0, <2>1 DEF CaptureInv, CapturedInv, Ascends
    <2> QED  BY <2>1, <2>8, <2>9, <2>10 DEF CaptureInv
  <1>8. CASE CompleteReplay
    <2>1. /\ captureState = "replay" /\ captureState' = "completed" /\ unread = <<>>
          /\ UNCHANGED <<lastTime, savedTime, unread, replayed, kept>>
      BY <1>8 DEF CompleteReplay
    <2>2. /\ \E k \in 1..(Len(capture') + 1) : unread' = LinesFrom(k)' /\ WentOut(replayed, k)'
          /\ \E k \in 1..(Len(capture') + 1) : WentOut(kept, k)'
      BY <1>0, <1>1, <2>1 DEF WentOut, LinesFrom, Lines
    <2>3. TimeOf(replayed)' = TimeOf(replayed) /\ TimeOf(kept)' = TimeOf(kept)
      BY <1>0, <2>1 DEF TimeOf
    <2>4. ReplayedInv'  BY <1>1, <1>2, <2>1, <2>2, <2>3 DEF ReplayedInv
    <2>5. CaptureTypes'  BY <1>0, <2>1 DEF CaptureTypes
    <2>6. CapturedInv'  BY <1>0, <2>1 DEF CaptureInv, CapturedInv, Ascends
    <2> QED  BY <2>1, <2>4, <2>5, <2>6 DEF CaptureInv
  <1> QED  BY <1>4, <1>5, <1>6, <1>7, <1>8

LEMMA CaptureSameKeeps == ASSUME CaptureInv, UNCHANGED captureReplay PROVE CaptureInv'
  <1>1. UNCHANGED <<captureState, capture, lastTime, savedTime, unread, replayed, kept, mishaps>>
    BY DEF captureReplay
  <1>2. CaptureTypes'  BY <1>1 DEF CaptureInv, CaptureTypes
  <1>3. CapturedInv'  BY <1>1 DEF CaptureInv, CapturedInv, Ascends, GoesOnFrom
  <1>4. ReplayedInv'
    <2>1. CASE captureState \in {"replay", "completed"}
      <3>1. PICK k \in 1..(Len(capture) + 1) : unread = LinesFrom(k) /\ WentOut(replayed, k)
        BY <2>1 DEF CaptureInv, ReplayedInv
      <3>2. PICK j \in 1..(Len(capture) + 1) : WentOut(kept, j)
        BY <2>1 DEF CaptureInv, ReplayedInv
      <3>3. unread' = LinesFrom(k)' /\ WentOut(replayed, k)' /\ WentOut(kept, j)'
        BY <1>1, <3>1, <3>2 DEF WentOut, LinesFrom, Lines
      <3>4. TimeOf(replayed)' = TimeOf(replayed) /\ TimeOf(kept)' = TimeOf(kept)
        BY <1>1 DEF TimeOf
      <3>5. Replayable' = Replayable  BY <1>1 DEF Replayable
      <3> QED  BY <1>1, <2>1, <3>3, <3>4, <3>5 DEF CaptureInv, ReplayedInv
    <2>2. CASE captureState \notin {"replay", "completed"}
      BY <1>1, <2>2 DEF CaptureInv, ReplayedInv
    <2> QED  BY <2>1, <2>2
  <1> QED  BY <1>1, <1>2, <1>3, <1>4 DEF CaptureInv

LEMMA CaptureRepeats == CaptureInv => ReplayRepeatsTheCapture
  <1> SUFFICES ASSUME CaptureInv PROVE ReplayRepeatsTheCapture  OBVIOUS
  <1>1. \A i \in 2..Len(replayed) : replayed[i - 1] < replayed[i]
    <2>1. CASE captureState \in {"replay", "completed"}
      BY <2>1 DEF CaptureInv, ReplayedInv, WentOut
    <2>2. CASE captureState \notin {"replay", "completed"}
      BY <2>2 DEF CaptureInv, ReplayedInv
    <2> QED  BY <2>1, <2>2
  <1>2. ASSUME captureState = "completed", NEW i \in DOMAIN capture
        PROVE  \E j \in ToSet(replayed) : j = i \/ (j < i /\ capture[j].stamp = capture[i].stamp)
    <2>1. CaptureTypes /\ Len(capture) \in Nat /\ i \in 1..Len(capture)  BY DEF CaptureInv, CaptureTypes
    <2>2. PICK k \in 1..(Len(capture) + 1) : unread = LinesFrom(k) /\ WentOut(replayed, k)
      BY <1>2 DEF CaptureInv, ReplayedInv
    <2>3. Len(LinesFrom(k)) = Len(capture) - k + 1 /\ Len(LinesFrom(k)) = 0
      BY <1>2, <2>1, <2>2, LinesFromAre DEF CaptureInv, ReplayedInv
    <2>4. i \in 1..(k - 1)  BY <2>1, <2>3
    <2>5. PICK j \in 1..Len(replayed) :
                \/ replayed[j] = i
                \/ replayed[j] < i /\ capture[replayed[j]].stamp = capture[i].stamp
      BY <2>2, <2>4 DEF WentOut
    <2>6. replayed[j] \in ToSet(replayed)
      <3>1. j \in DOMAIN replayed  BY <2>2 DEF WentOut
      <3> QED  BY <3>1 DEF ToSet
    <2> QED  BY <2>5, <2>6
  <1> QED  BY <1>1, <1>2 DEF CaptureInv, ReplayRepeatsTheCapture

\* A replay, however often it is restarted, gives out the lines that were
\* captured in order and none twice, and leaves out only frames of the time of
\* one it gave out; it refuses a capture only for a line that was cut or a time
\* that went back (CaptureWriter, ReplaySource::resume_after).
THEOREM CaptureIsRepeated == CaptureSpec => []ReplayRepeatsTheCapture
  <1>1. CaptureInv /\ [CaptureNext]_captureReplay => CaptureInv'
    <2> SUFFICES ASSUME CaptureInv, [CaptureNext]_captureReplay PROVE CaptureInv'  OBVIOUS
    <2> QED  BY CaptureFrameKeeps, CaptureCutKeeps, LiveStepsKeep, ReplayStepsKeep, CaptureSameKeeps
             DEF CaptureNext
  <1> QED  BY <1>1, CaptureStarts, CaptureRepeats, PTL DEF CaptureSpec

-----------------------------------------------------------------------------
(* LunchLiquidity: the changes of a quote that are still counted           *)

LunchSpec == LunchInit /\ [][LunchNext]_lunch

Quoted == [at : LunchTimes, state : Quotes]
Watches == [first : Int, last : Int, state : Quotes \cup {"none"}, updates : Seq(Nat)]

\* Of the quotes shown the ones after a that differ from the one before.
ChangedSince(shown, a) == {i \in (a + 1)..Len(shown) : shown[i].state # shown[i - 1].state}

\* pos[j] is the quote that the update j is of: a change, of one update only,
\* and every change that is recent at the last quote is one.
Noted(shown, pos, updates, a, last) ==
    /\ pos \in [1..Len(updates) -> Nat]
    /\ \A j \in 1..Len(updates) : pos[j] \in ChangedSince(shown, a) /\ updates[j] = shown[pos[j]].at
    /\ \A j, k \in 1..Len(updates) : j # k => pos[j] # pos[k]
    /\ \A i \in ChangedSince(shown, a) : shown[i].at >= Cutoff(last) => \E j \in 1..Len(updates) : pos[j] = i

\* From the quote a on there was no gap, and before it there was one or nothing.
NoGapSince(shown, a) ==
    /\ \A k \in (a + 1)..Len(shown) : shown[k].at - shown[k - 1].at <= LunchWindow
    /\ a = 1 \/ shown[a].at - shown[a - 1].at > LunchWindow

Watched(shown, watch, a) ==
    /\ watch.first = shown[a].at
    /\ NoGapSince(shown, a)
    /\ \E pos : Noted(shown, pos, watch.updates, a, watch.last)

InTime(shown) == \A i \in 2..Len(shown) : shown[i - 1].at <= shown[i].at

LunchInv ==
    /\ seen \in Seq(Quoted) /\ activity \in Watches /\ frameAt \in Int
    /\ InTime(seen)
    /\ seen # <<>> => seen[Len(seen)].at <= frameAt
    /\ IF activity = Unseen
       THEN seen = <<>> \/ frameAt - seen[Len(seen)].at > LunchWindow
       ELSE /\ seen # <<>> /\ frameAt - seen[Len(seen)].at <= LunchWindow
            /\ activity.last = seen[Len(seen)].at /\ activity.state = seen[Len(seen)].state
            /\ \E a \in 1..Len(seen) : Watched(seen, activity, a)

LEMMA LunchStarts == LunchInit => LunchInv
  BY DEF LunchInit, LunchInv, InTime, Unseen, Watches

LEMMA LunchTypes ==
    /\ LunchWindow \in Nat \ {0}
    /\ \A t \in LunchTimes : t \in Nat
    /\ \A s \in Seq(Quoted) : Len(s) \in Nat /\ \A i \in 1..Len(s) : s[i].at \in Nat /\ s[i].state \in Quotes
    /\ \A t \in Int : Cutoff(t) = t - LunchWindow /\ Cutoff(t) \in Int
  <1>1. LunchWindow \in Nat \ {0} /\ LunchTimes \subseteq Nat  BY LunchAssumption
  <1>2. ASSUME NEW s \in Seq(Quoted), NEW i \in 1..Len(s) PROVE s[i].at \in Nat /\ s[i].state \in Quotes
    <2>1. s[i] \in Quoted  BY <1>2
    <2> QED  BY <1>1, <2>1 DEF Quoted
  <1>3. \A s \in Seq(Quoted) : Len(s) \in Nat  OBVIOUS
  <1>4. \A t \in Int : Cutoff(t) = t - LunchWindow /\ Cutoff(t) \in Int  BY <1>1 DEF Cutoff
  <1> QED  BY <1>1, <1>2, <1>3, <1>4

\* Old updates leave at the front, and no recent one does.
LEMMA RecentIs ==
    ASSUME NEW updates \in Seq(Nat), NEW t \in Int
    PROVE  /\ Recent(updates, t) \in Seq(Nat)
           /\ \E m \in 0..Len(updates) :
                /\ Len(Recent(updates, t)) = Len(updates) - m
                /\ \A j \in 1..(Len(updates) - m) : Recent(updates, t)[j] = updates[j + m]
                /\ \A j \in 1..Len(updates) : updates[j] >= Cutoff(t) => m < j
  <1> DEFINE N == Len(updates)
             recent == RecentOnes(updates, t)
  <1>1. N \in Nat /\ DOMAIN updates = 1..N  OBVIOUS
  <1>2. recent \in SUBSET (1..N)  BY <1>1 DEF RecentOnes
  <1>3. CASE recent = {}
    <2>1. Recent(updates, t) = <<>>  BY <1>3 DEF Recent
    <2>2. \A j \in 1..N : ~(updates[j] >= Cutoff(t))  BY <1>1, <1>3 DEF RecentOnes
    <2>3. N \in 0..N /\ N - N = 0  BY <1>1
    <2> QED  BY <2>1, <2>2, <2>3
  <1>4. CASE recent # {}
    <2> DEFINE f == Min(recent)
    <2>1. f \in recent /\ \A j \in recent : f <= j
      <3>1. recent \in SUBSET Nat  BY <1>2
      <3> HIDE DEF recent
      <3> QED  BY <1>4, <3>1, MinIn
    <2>2. Recent(updates, t) = SubSeq(updates, f, N)  BY <1>4 DEF Recent
    <2>3. f \in 1..N  BY <1>2, <2>1
    <2>4. \A i \in f..N : updates[i] \in Nat  BY <1>1, <2>3
    <2> HIDE DEF f, N
    <2>5. f \in Int /\ N \in Int  BY <1>1, <2>3
    <2>6. /\ SubSeq(updates, f, N) \in Seq(Nat)
          /\ Len(SubSeq(updates, f, N)) = IF f <= N THEN N - f + 1 ELSE 0
          /\ \A i \in 1..(N - f + 1) : SubSeq(updates, f, N)[i] = updates[f + i - 1]
      BY <2>4, <2>5, SubSeqProperties
    <2> DEFINE m == f - 1
    <2>7. m \in 0..N /\ N - m = N - f + 1 /\ f <= N  BY <1>1, <2>3
    <2>8. \A j \in 1..(N - m) : Recent(updates, t)[j] = updates[j + m]
      <3> SUFFICES ASSUME NEW j \in 1..(N - m) PROVE Recent(updates, t)[j] = updates[j + m]  OBVIOUS
      <3>1. j \in 1..(N - f + 1) /\ f + j - 1 = j + m  BY <2>3, <2>7
      <3> QED  BY <2>2, <2>6, <3>1
    <2>9. \A j \in 1..N : updates[j] >= Cutoff(t) => m < j
      <3> SUFFICES ASSUME NEW j \in 1..N, updates[j] >= Cutoff(t) PROVE m < j  OBVIOUS
      <3>1. j \in recent  BY <1>1 DEF RecentOnes
      <3> QED  BY <2>1, <2>3, <3>1
    <2>10. Len(Recent(updates, t)) = N - m  BY <2>2, <2>6, <2>7
    <2> QED  BY <2>2, <2>6, <2>7, <2>8, <2>9, <2>10 DEF N
  <1> QED  BY <1>3, <1>4

WithQuote(shown, t, q) == Append(shown, [at |-> t, state |-> q])
WithChange(shown, updates, t, q) ==
    IF shown[Len(shown)].state = q THEN updates ELSE Append(updates, t)

\* A quote more, before the old updates leave.
LEMMA NotedMore ==
    ASSUME NEW shown \in Seq(Quoted), shown # <<>>, NEW a \in 1..Len(shown),
           NEW pos, NEW updates \in Seq(Nat), NEW last \in Int, Noted(shown, pos, updates, a, last),
           NEW t \in LunchTimes, NEW q \in Quotes, last <= t
    PROVE  /\ WithChange(shown, updates, t, q) \in Seq(Nat)
           /\ \E p : Noted(WithQuote(shown, t, q), p, WithChange(shown, updates, t, q), a, t)
  <1> DEFINE N == Len(shown)
             U == Len(updates)
             more == WithQuote(shown, t, q)
             changed == WithChange(shown, updates, t, q)
  <1>0. /\ more = Append(shown, [at |-> t, state |-> q])
        /\ changed = IF shown[N].state = q THEN updates ELSE Append(updates, t)
    BY DEF WithQuote, WithChange
  <1> HIDE DEF more, changed
  <1>1. N \in Nat /\ U \in Nat /\ t \in Nat  BY LunchTypes
  <1>2. /\ Len(more) = N + 1 /\ more[N + 1] = [at |-> t, state |-> q]
        /\ \A i \in 1..N : more[i] = shown[i]
    <2>1. [at |-> t, state |-> q] \in Quoted  BY DEF Quoted
    <2> QED  BY <1>0, <2>1, AppendProperties
  <1>3. changed \in Seq(Nat)  BY <1>0, <1>1
  <1>4. \A i : i \in ChangedSince(more, a) <=>
                  \/ i \in ChangedSince(shown, a)
                  \/ i = N + 1 /\ shown[N].state # q
    <2> SUFFICES ASSUME NEW i PROVE i \in ChangedSince(more, a) <=>
                  \/ i \in ChangedSince(shown, a)
                  \/ i = N + 1 /\ shown[N].state # q
      OBVIOUS
    <2>1. CASE i = N + 1
      <3>1. (N + 1) - 1 = N /\ N \in 1..N /\ N + 1 \in (a + 1)..(N + 1) /\ N + 1 \notin (a + 1)..N
        BY <1>1
      <3> QED  BY <1>2, <2>1, <3>1 DEF ChangedSince
    <2>2. CASE i # N + 1
      <3>1. i \in (a + 1)..(N + 1) <=> i \in (a + 1)..N
        <4>1. \A j \in (a + 1)..(N + 1) : j # N + 1 => j \in (a + 1)..N  BY <1>1
        <4>2. \A j \in (a + 1)..N : j \in (a + 1)..(N + 1)  BY <1>1
        <4> QED  BY <2>2, <4>1, <4>2
      <3>2. i \in (a + 1)..N => i \in 1..N /\ i - 1 \in 1..N  BY <1>1
      <3> QED  BY <1>2, <2>2, <3>1, <3>2 DEF ChangedSince
    <2> QED  BY <2>1, <2>2
  <1>5. \A i \in ChangedSince(shown, a) : i \in 1..N  BY <1>1 DEF ChangedSince
  <1>6. /\ pos \in [1..U -> Nat]
        /\ \A j \in 1..U : pos[j] \in ChangedSince(shown, a) /\ updates[j] = shown[pos[j]].at
        /\ \A j, k \in 1..U : j # k => pos[j] # pos[k]
        /\ \A i \in ChangedSince(shown, a) : shown[i].at >= Cutoff(last) => \E j \in 1..U : pos[j] = i
    BY DEF Noted
  <1>7. \A i \in ChangedSince(shown, a) : more[i].at >= Cutoff(t) => shown[i].at >= Cutoff(last) /\ more[i] = shown[i]
    <2> SUFFICES ASSUME NEW i \in ChangedSince(shown, a), more[i].at >= Cutoff(t)
                 PROVE  shown[i].at >= Cutoff(last) /\ more[i] = shown[i]
      OBVIOUS
    <2>1. i \in 1..N /\ more[i] = shown[i] /\ shown[i].at \in Nat  BY <1>2, <1>5, LunchTypes
    <2>2. Cutoff(t) = t - LunchWindow /\ Cutoff(last) = last - LunchWindow  BY <1>1, LunchTypes
    <2>3. LunchWindow \in Nat /\ more[i].at >= t - LunchWindow  BY <1>1, <2>2, LunchTypes
    <2> QED  BY <1>1, <2>1, <2>2, <2>3
  <1>8. CASE shown[N].state = q
    <2>1. changed = updates  BY <1>0, <1>8
    <2>2. \A i : i \in ChangedSince(more, a) <=> i \in ChangedSince(shown, a)  BY <1>4, <1>8
    <2>3. \A j \in 1..U : updates[j] = more[pos[j]].at  BY <1>2, <1>5, <1>6
    <2>4. Noted(more, pos, changed, a, t)  BY <1>6, <1>7, <2>1, <2>2, <2>3 DEF Noted
    <2> QED  BY <1>3, <2>4 DEF more, changed
  <1>9. CASE shown[N].state # q
    <2>1. changed = Append(updates, t)  BY <1>0, <1>9
    <2>2. Len(changed) = U + 1 /\ changed[U + 1] = t /\ \A j \in 1..U : changed[j] = updates[j]
      BY <1>1, <2>1, AppendProperties
    <2> DEFINE p == [j \in 1..(U + 1) |-> IF j = U + 1 THEN N + 1 ELSE pos[j]]
    <2>3. \A j \in 1..(U + 1) : j # U + 1 => j \in 1..U  BY <1>1
    <2>4. p[U + 1] = N + 1 /\ \A j \in 1..U : p[j] = pos[j]  BY <1>1
    <2>5. p \in [1..(U + 1) -> Nat]  BY <1>1, <1>6, <2>3
    <2> HIDE DEF p
    <2>6. \A j \in 1..(U + 1) : p[j] \in ChangedSince(more, a) /\ changed[j] = more[p[j]].at
      <3> SUFFICES ASSUME NEW j \in 1..(U + 1)
                   PROVE  p[j] \in ChangedSince(more, a) /\ changed[j] = more[p[j]].at
        OBVIOUS
      <3>1. CASE j = U + 1
        <4>1. p[j] = N + 1 /\ changed[j] = t  BY <2>2, <2>4, <3>1
        <4>2. N + 1 \in ChangedSince(more, a)  BY <1>4, <1>9
        <4> QED  BY <1>2, <4>1, <4>2
      <3>2. CASE j # U + 1
        <4>1. j \in 1..U /\ p[j] = pos[j] /\ changed[j] = updates[j]  BY <2>2, <2>3, <2>4, <3>2
        <4>2. pos[j] \in ChangedSince(shown, a) /\ updates[j] = shown[pos[j]].at  BY <1>6, <4>1
        <4>3. more[pos[j]] = shown[pos[j]]  BY <1>2, <1>5, <4>2
        <4> QED  BY <1>4, <4>1, <4>2, <4>3
      <3> QED  BY <3>1, <3>2
    <2>7. \A j, k \in 1..(U + 1) : j # k => p[j] # p[k]
      <3>1. \A j \in 1..U : p[j] \in 1..N /\ p[j] # N + 1
        <4> SUFFICES ASSUME NEW j \in 1..U PROVE p[j] \in 1..N /\ p[j] # N + 1  OBVIOUS
        <4>1. p[j] \in 1..N  BY <1>5, <1>6, <2>4
        <4> QED  BY <1>1, <4>1
      <3> QED  BY <1>6, <2>3, <2>4, <3>1
    <2>8. \A i \in ChangedSince(more, a) : more[i].at >= Cutoff(t) => \E j \in 1..(U + 1) : p[j] = i
      <3> SUFFICES ASSUME NEW i \in ChangedSince(more, a), more[i].at >= Cutoff(t)
                   PROVE  \E j \in 1..(U + 1) : p[j] = i
        OBVIOUS
      <3>1. CASE i = N + 1  BY <1>1, <2>4, <3>1
      <3>2. CASE i # N + 1
        <4>1. i \in ChangedSince(shown, a)  BY <1>4, <3>2
        <4>2. PICK j \in 1..U : pos[j] = i  BY <1>6, <1>7, <4>1
        <4> QED  BY <1>1, <2>4, <4>2
      <3> QED  BY <3>1, <3>2
    <2>9. Noted(more, p, changed, a, t)  BY <2>2, <2>5, <2>6, <2>7, <2>8 DEF Noted
    <2> QED  BY <1>3, <2>9 DEF more, changed
  <1> QED  BY <1>8, <1>9

\* Then the old updates leave.
LEMMA NotedLess ==
    ASSUME NEW shown, NEW pos, NEW a, NEW updates \in Seq(Nat), NEW t \in Int,
           Noted(shown, pos, updates, a, t)
    PROVE  Recent(updates, t) \in Seq(Nat) /\ \E p : Noted(shown, p, Recent(updates, t), a, t)
  <1> DEFINE U == Len(updates)
             left == Recent(updates, t)
  <1>1. U \in Nat /\ left \in Seq(Nat)  BY RecentIs
  <1>2. PICK m \in 0..U :
            /\ Len(left) = U - m
            /\ \A j \in 1..(U - m) : left[j] = updates[j + m]
            /\ \A j \in 1..U : updates[j] >= Cutoff(t) => m < j
    BY RecentIs
  <1> HIDE DEF left
  <1>3. /\ pos \in [1..U -> Nat]
        /\ \A j \in 1..U : pos[j] \in ChangedSince(shown, a) /\ updates[j] = shown[pos[j]].at
        /\ \A j, k \in 1..U : j # k => pos[j] # pos[k]
        /\ \A i \in ChangedSince(shown, a) : shown[i].at >= Cutoff(t) => \E j \in 1..U : pos[j] = i
    BY DEF Noted
  <1> DEFINE p == [j \in 1..(U - m) |-> pos[j + m]]
  <1>4. \A j \in 1..(U - m) : j + m \in 1..U /\ p[j] = pos[j + m]  BY <1>1
  <1>5. p \in [1..(U - m) -> Nat]  BY <1>3, <1>4
  <1> HIDE DEF p
  <1>6. \A j \in 1..(U - m) : p[j] \in ChangedSince(shown, a) /\ left[j] = shown[p[j]].at
    BY <1>2, <1>3, <1>4
  <1>7. \A j, k \in 1..(U - m) : j # k => p[j] # p[k]
    <2> SUFFICES ASSUME NEW j \in 1..(U - m), NEW k \in 1..(U - m), j # k PROVE p[j] # p[k]  OBVIOUS
    <2>1. j + m # k + m  OBVIOUS
    <2> QED  BY <1>3, <1>4, <2>1
  <1>8. \A i \in ChangedSince(shown, a) : shown[i].at >= Cutoff(t) => \E j \in 1..(U - m) : p[j] = i
    <2> SUFFICES ASSUME NEW i \in ChangedSince(shown, a), shown[i].at >= Cutoff(t)
                 PROVE  \E j \in 1..(U - m) : p[j] = i
      OBVIOUS
    <2>1. PICK j \in 1..U : pos[j] = i  BY <1>3
    <2>2. m < j  BY <1>2, <1>3, <2>1
    <2>3. j - m \in 1..(U - m) /\ (j - m) + m = j  BY <1>1, <2>2
    <2> QED  BY <1>4, <2>1, <2>3
  <1>9. Noted(shown, p, left, a, t)  BY <1>2, <1>5, <1>6, <1>7, <1>8 DEF Noted
  <1> QED  BY <1>1, <1>9 DEF left
-----------------------------------------------------------------------------

LEMMA ObserveKeeps == ASSUME LunchInv, ObserveQuote PROVE LunchInv'
  <1>1. PICK t \in LunchTimes, q \in Quotes :
            /\ t >= frameAt /\ frameAt' = t /\ activity' = Seen(q, t)
            /\ seen' = Append(seen, [at |-> t, state |-> q])
    BY DEF ObserveQuote
  <1> DEFINE N == Len(seen)
  <1>2. /\ N \in Nat /\ t \in Nat /\ frameAt \in Int /\ seen \in Seq(Quoted) /\ activity \in Watches
        /\ LunchWindow \in Nat \ {0}
    BY LunchTypes DEF LunchInv
  <1>3. /\ seen' \in Seq(Quoted) /\ seen' # <<>> /\ Len(seen') = N + 1
        /\ seen'[N + 1] = [at |-> t, state |-> q]
        /\ \A i \in 1..N : seen'[i] = seen[i]
    <2>1. [at |-> t, state |-> q] \in Quoted  BY DEF Quoted
    <2> QED  BY <1>1, <1>2, <2>1, AppendProperties
  <1>4. seen # <<>> => N \in 1..N /\ seen[N].at \in Nat /\ seen[N].at <= frameAt /\ seen[N].at <= t
    <2> SUFFICES ASSUME seen # <<>> PROVE N \in 1..N /\ seen[N].at \in Nat /\ seen[N].at <= frameAt /\ seen[N].at <= t
      OBVIOUS
    <2>1. N \in 1..N  BY <1>2
    <2>2. seen[N].at \in Nat  BY <1>2, <2>1, LunchTypes
    <2>3. seen[N].at <= frameAt  BY DEF LunchInv
    <2> QED  BY <1>1, <1>2, <2>1, <2>2, <2>3
  <1>5. InTime(seen')
    <2> SUFFICES ASSUME NEW i \in 2..(N + 1) PROVE seen'[i - 1].at <= seen'[i].at  BY <1>3 DEF InTime
    <2>1. CASE i = N + 1
      <3>1. i - 1 = N /\ N \in 1..N /\ seen # <<>>  BY <1>2, <2>1
      <3> QED  BY <1>3, <1>4, <2>1, <3>1
    <2>2. CASE i # N + 1
      <3>1. i \in 2..N /\ i \in 1..N /\ i - 1 \in 1..N  BY <1>2, <2>2
      <3> QED  BY <1>3, <3>1 DEF LunchInv, InTime
    <2> QED  BY <2>1, <2>2
  <1>6. /\ seen'[Len(seen')].at = t /\ seen'[Len(seen')].state = q /\ frameAt' = t
        /\ frameAt' - seen'[Len(seen')].at <= LunchWindow
    BY <1>1, <1>2, <1>3
  <1>7. CASE activity = Unseen \/ t - activity.last > LunchWindow
    <2>1. activity' = [first |-> t, last |-> t, state |-> q, updates |-> Recent(<<>>, t)]
      <3>1. activity' = [AfterGap(q, t) EXCEPT !.updates = Recent(@, t)]
        BY <1>1, <1>7 DEF Seen
      <3> QED  BY <3>1 DEF AfterGap
    <2>2. Recent(<<>>, t) = <<>>  BY DEF Recent, RecentOnes
    <2>3. activity' \in Watches /\ activity' # Unseen
      <3>1. t # -1 /\ t \in Int  BY <1>2
      <3>2. <<>> \in Seq(Nat) /\ q \in Quotes \cup {"none"}  OBVIOUS
      <3>3. activity' = [first |-> t, last |-> t, state |-> q, updates |-> <<>>]  BY <2>1, <2>2
      <3>4. activity'.first # Unseen.first  BY <3>1, <3>3 DEF Unseen
      <3> QED  BY <3>1, <3>2, <3>3, <3>4 DEF Watches
    <2>4. N = 0 \/ t - seen[N].at > LunchWindow
      <3>1. CASE activity = Unseen
        <4>1. seen = <<>> \/ frameAt - seen[N].at > LunchWindow  BY <3>1 DEF LunchInv
        <4> QED  BY <1>1, <1>2, <1>4, <4>1
      <3>2. CASE activity # Unseen
        <4>1. activity.last = seen[N].at  BY <3>2 DEF LunchInv
        <4> QED  BY <1>7, <3>2, <4>1
      <3> QED  BY <3>1, <3>2
    <2>5. NoGapSince(seen', N + 1)
      <3>1. (N + 2)..(N + 1) = {} /\ (N + 1) + 1 = N + 2 /\ (N + 1) - 1 = N /\ (N # 0 => N \in 1..N)  BY <1>2
      <3> QED  BY <1>2, <1>3, <2>4, <3>1 DEF NoGapSince
    <2>6. \E pos : Noted(seen', pos, <<>>, N + 1, t)
      <3>1. ChangedSince(seen', N + 1) = {}  BY <1>2, <1>3 DEF ChangedSince
      <3>2. Noted(seen', <<>>, <<>>, N + 1, t)  BY <3>1 DEF Noted
      <3> QED  BY <3>2
    <2>7. Watched(seen', activity', N + 1)  BY <1>3, <2>1, <2>2, <2>5, <2>6 DEF Watched
    <2>8. N + 1 \in 1..Len(seen')  BY <1>2, <1>3
    <2>9. activity'.last = seen'[Len(seen')].at /\ activity'.state = seen'[Len(seen')].state
      BY <1>6, <2>1
    <2> QED  BY <1>2, <1>3, <1>5, <1>6, <2>3, <2>7, <2>8, <2>9 DEF LunchInv
  <1>8. CASE activity # Unseen /\ ~(t - activity.last > LunchWindow)
    <2>1. /\ seen # <<>> /\ activity.last = seen[N].at /\ activity.state = seen[N].state
          /\ \E a \in 1..N : Watched(seen, activity, a)
      BY <1>8 DEF LunchInv
    <2>2. PICK a \in 1..N : Watched(seen, activity, a)  BY <2>1
    <2>3. PICK pos : Noted(seen, pos, activity.updates, a, activity.last)  BY <2>2 DEF Watched
    <2> DEFINE changed == IF activity.state = q THEN activity.updates ELSE Append(activity.updates, t)
    <2>4. activity.updates \in Seq(Nat) /\ activity.first \in Int /\ activity.last \in Int
      BY <1>2 DEF Watches
    <2>5. changed \in Seq(Nat) /\ \E p : Noted(seen', p, changed, a, t)
      <3>1. changed = WithChange(seen, activity.updates, t, q) /\ seen' = WithQuote(seen, t, q)
        BY <1>1, <2>1 DEF WithChange, WithQuote
      <3>2. activity.last <= t  BY <1>4, <2>1
      <3> HIDE DEF changed
      <3> DEFINE updates == activity.updates
                 last == activity.last
      <3>3. updates \in Seq(Nat) /\ last \in Int /\ last <= t /\ Noted(seen, pos, updates, a, last)
        BY <2>3, <2>4, <3>2
      <3> HIDE DEF updates, last
      <3>4. /\ WithChange(seen, updates, t, q) \in Seq(Nat)
            /\ \E p : Noted(WithQuote(seen, t, q), p, WithChange(seen, updates, t, q), a, t)
        BY <1>2, <2>1, <3>3, NotedMore
      <3> QED  BY <3>1, <3>4 DEF updates
    <2>6. activity' = [activity EXCEPT !.last = t, !.state = q, !.updates = Recent(changed, t)]
      <3>1. activity' = [[activity EXCEPT !.last = t, !.state = q, !.updates = changed]
                            EXCEPT !.updates = Recent(@, t)]
        BY <1>1, <1>8 DEF Seen
      <3> HIDE DEF changed
      <3> QED  BY <1>2, <3>1 DEF Watches
    <2> HIDE DEF changed
    <2>7. Recent(changed, t) \in Seq(Nat) /\ \E p : Noted(seen', p, Recent(changed, t), a, t)
      BY <1>2, <2>5, NotedLess
    <2>8. /\ activity' \in Watches /\ activity'.first = activity.first /\ activity'.last = t
          /\ activity'.state = q /\ activity'.updates = Recent(changed, t)
      <3>1. q \in Quotes \cup {"none"} /\ t \in Int  BY <1>2
      <3>2. activity' = [first |-> activity.first, last |-> t, state |-> q, updates |-> Recent(changed, t)]
        BY <1>2, <2>6 DEF Watches
      <3> QED  BY <2>4, <2>7, <3>1, <3>2 DEF Watches
    <2>9. activity.first = seen[a].at /\ NoGapSince(seen, a)  BY <2>2 DEF Watched
    <2>10. activity' # Unseen
      <3>1. seen[a].at \in Nat  BY <1>2, LunchTypes
      <3> QED  BY <2>8, <2>9, <3>1 DEF Unseen
    <2>11. NoGapSince(seen', a)
      <3>1. a \in 1..N /\ (a # 1 => a - 1 \in 1..N)  BY <1>2
      <3>2. a = 1 \/ seen'[a].at - seen'[a - 1].at > LunchWindow  BY <1>3, <2>9, <3>1 DEF NoGapSince
      <3>3. ASSUME NEW k \in (a + 1)..(N + 1) PROVE seen'[k].at - seen'[k - 1].at <= LunchWindow
        <4>1. CASE k = N + 1
          <5>1. k - 1 = N /\ N \in 1..N  BY <1>2, <3>1, <4>1
          <5>2. seen'[k].at = t /\ seen'[k - 1].at = activity.last  BY <1>3, <2>1, <4>1, <5>1
          <5> QED  BY <1>2, <1>8, <2>4, <5>2
        <4>2. CASE k # N + 1
          <5>1. k \in (a + 1)..N /\ k \in 1..N /\ k - 1 \in 1..N  BY <1>2, <3>1, <4>2
          <5> QED  BY <1>3, <2>9, <5>1 DEF NoGapSince
        <4> QED  BY <4>1, <4>2
      <3> QED  BY <1>3, <3>2, <3>3 DEF NoGapSince
    <2>12. Watched(seen', activity', a)  BY <1>3, <2>7, <2>8, <2>9, <2>11 DEF Watched
    <2>13. a \in 1..Len(seen')  BY <1>2, <1>3
    <2> QED  BY <1>2, <1>3, <1>5, <1>6, <2>8, <2>10, <2>12, <2>13 DEF LunchInv
  <1> QED  BY <1>7, <1>8

LEMMA WithoutKeeps == ASSUME LunchInv, ObserveWithout PROVE LunchInv'
  <1>1. PICK t \in LunchTimes :
            /\ t > frameAt /\ frameAt' = t /\ seen' = seen
            /\ activity' = IF activity.last >= Cutoff(t) THEN activity ELSE Unseen
    BY DEF ObserveWithout
  <1>2. /\ t \in Nat /\ frameAt \in Int /\ activity \in Watches /\ activity.last \in Int
        /\ Cutoff(t) = t - LunchWindow /\ LunchWindow \in Nat /\ Unseen \in Watches
    BY LunchTypes DEF LunchInv, Watches, Unseen
  <1>3. seen # <<>> => seen[Len(seen)].at \in Nat
    <2> SUFFICES ASSUME seen # <<>> PROVE seen[Len(seen)].at \in Nat  OBVIOUS
    <2>1. seen \in Seq(Quoted)  BY DEF LunchInv
    <2>2. Len(seen) \in 1..Len(seen)  BY <2>1
    <2> QED  BY <2>1, <2>2, LunchTypes
  <1>4. seen # <<>> => seen[Len(seen)].at <= frameAt'
    <2>1. seen # <<>> => seen[Len(seen)].at <= frameAt  BY DEF LunchInv
    <2> QED  BY <1>1, <1>2, <1>3, <2>1
  <1>5. IF activity' = Unseen
        THEN seen = <<>> \/ frameAt' - seen[Len(seen)].at > LunchWindow
        ELSE /\ activity' = activity
             /\ seen # <<>> /\ frameAt' - seen[Len(seen)].at <= LunchWindow
             /\ activity.last = seen[Len(seen)].at /\ activity.state = seen[Len(seen)].state
             /\ \E a \in 1..Len(seen) : Watched(seen, activity, a)
    <2>1. CASE activity = Unseen
      <3>1. seen = <<>> \/ frameAt - seen[Len(seen)].at > LunchWindow  BY <2>1 DEF LunchInv
      <3> QED  BY <1>1, <1>2, <1>3, <2>1, <3>1
    <2>2. CASE activity # Unseen
      <3>1. /\ seen # <<>> /\ activity.last = seen[Len(seen)].at /\ activity.state = seen[Len(seen)].state
            /\ \E a \in 1..Len(seen) : Watched(seen, activity, a)
        BY <2>2 DEF LunchInv
      <3>2. activity.last >= Cutoff(t) <=> t - seen[Len(seen)].at <= LunchWindow
        BY <1>2, <1>3, <3>1
      <3>3. ~(t - seen[Len(seen)].at <= LunchWindow) => t - seen[Len(seen)].at > LunchWindow
        BY <1>2, <1>3, <3>1
      <3> QED  BY <1>1, <2>2, <3>1, <3>2, <3>3
    <2> QED  BY <2>1, <2>2
  <1> QED  BY <1>1, <1>2, <1>4, <1>5 DEF LunchInv

-----------------------------------------------------------------------------

\* Quotes come in the order of their times.
LEMMA LaterShown ==
    ASSUME NEW shown \in Seq(Quoted), InTime(shown), NEW i \in 1..Len(shown), NEW j \in 1..Len(shown), i <= j
    PROVE  shown[i].at <= shown[j].at
  <1>1. Len(shown) \in Nat /\ \A m \in 1..Len(shown) : shown[m].at \in Nat  BY LunchTypes
  <1> DEFINE T == {d \in Nat : i + d <= Len(shown) => shown[i].at <= shown[i + d].at}
  <1>2. 0 \in T  BY <1>1
  <1>3. ASSUME NEW d \in T PROVE d + 1 \in T
    <2> SUFFICES ASSUME i + (d + 1) <= Len(shown) PROVE shown[i].at <= shown[i + (d + 1)].at  OBVIOUS
    <2>1. /\ i + d <= Len(shown) /\ i + d \in 1..Len(shown) /\ i + (d + 1) \in 2..Len(shown)
          /\ (i + (d + 1)) - 1 = i + d /\ i + (d + 1) \in 1..Len(shown)
      BY <1>1
    <2>2. shown[i].at <= shown[i + d].at  BY <2>1
    <2>3. shown[i + d].at <= shown[i + (d + 1)].at  BY <2>1 DEF InTime
    <2>4. shown[i].at \in Nat /\ shown[i + d].at \in Nat /\ shown[i + (d + 1)].at \in Nat
      BY <1>1, <2>1
    <2> QED  BY <2>2, <2>3, <2>4
  <1>4. T = Nat
    <2>1. T \in SUBSET Nat  OBVIOUS
    <2> HIDE DEF T
    <2> QED  BY <1>2, <1>3, <2>1, Induction
  <1>5. j - i \in Nat /\ i + (j - i) = j  BY <1>1
  <1>6. j - i \in T
    <2> HIDE DEF T
    <2> QED  BY <1>4, <1>5
  <1> QED  BY <1>1, <1>5, <1>6

\* The quotes of the run are those from where the gaps end.
LEMMA RunIs ==
    ASSUME LunchInv, activity # Unseen, NEW a \in 1..Len(seen), Watched(seen, activity, a)
    PROVE  /\ Run = a..Len(seen)
           /\ Changes = {i \in ChangedSince(seen, a) : seen[i].at >= Cutoff(frameAt)}
  <1>1. Len(seen) \in Nat /\ DOMAIN seen = 1..Len(seen)  BY DEF LunchInv
  <1>2. frameAt - seen[Len(seen)].at <= LunchWindow  BY DEF LunchInv
  <1>3. /\ \A k \in (a + 1)..Len(seen) : seen[k].at - seen[k - 1].at <= LunchWindow
        /\ a = 1 \/ seen[a].at - seen[a - 1].at > LunchWindow
    BY DEF Watched, NoGapSince
  <1>4. ASSUME NEW i \in 1..Len(seen)
        PROVE  (\A k \in (i + 1)..Len(seen) : seen[k].at - seen[k - 1].at <= LunchWindow) <=> a <= i
    <2>1. CASE a <= i
      <3>1. \A k \in (i + 1)..Len(seen) : k \in (a + 1)..Len(seen)  BY <1>1, <2>1
      <3> QED  BY <1>3, <2>1, <3>1
    <2>2. CASE ~(a <= i)
      <3>1. a \in (i + 1)..Len(seen) /\ a # 1 /\ a \in 1..Len(seen) /\ a - 1 \in 1..Len(seen)  BY <1>1, <2>2
      <3>2. seen[a].at \in Nat /\ seen[a - 1].at \in Nat /\ LunchWindow \in Nat
        BY <3>1, LunchTypes DEF LunchInv
      <3>3. ~(seen[a].at - seen[a - 1].at <= LunchWindow)  BY <1>3, <3>1, <3>2
      <3> QED  BY <2>2, <3>1, <3>3
    <2> QED  BY <2>1, <2>2
  <1>5. Run = a..Len(seen)
    <2>1. \A i : i \in Run <=> i \in a..Len(seen)
      <3>1. \A i : i \in a..Len(seen) <=> i \in 1..Len(seen) /\ a <= i  BY <1>1
      <3> QED  BY <1>1, <1>2, <1>4, <3>1 DEF Run
    <2> QED  BY <2>1
  <1>6. \A i : i \in Changes <=> i \in ChangedSince(seen, a) /\ seen[i].at >= Cutoff(frameAt)
    <2>1. \A i : i \in a..Len(seen) /\ i - 1 \in a..Len(seen) <=> i \in (a + 1)..Len(seen)
      <3>1. \A i \in a..Len(seen) : i - 1 \in a..Len(seen) <=> i \in (a + 1)..Len(seen)  BY <1>1
      <3>2. \A i \in (a + 1)..Len(seen) : i \in a..Len(seen)  BY <1>1
      <3> QED  BY <3>1, <3>2
    <2> QED  BY <1>5, <2>1 DEF Changes, ChangedSince
  <1> QED  BY <1>5, <1>6

LEMMA CountIsRight == LunchInv => CountIsWhatWasSeen
  <1> SUFFICES ASSUME LunchInv PROVE CountIsWhatWasSeen  OBVIOUS
  <1>0. Len(seen) \in Nat /\ DOMAIN seen = 1..Len(seen) /\ frameAt \in Int /\ LunchWindow \in Nat \ {0}
    BY LunchTypes DEF LunchInv
  <1>1. CASE activity = Unseen
    <2>1. seen = <<>> \/ frameAt - seen[Len(seen)].at > LunchWindow  BY <1>1 DEF LunchInv
    <2>2. Run = {}
      <3>1. CASE seen = <<>>  BY <3>1 DEF Run
      <3>2. CASE seen # <<>>
        <4>1. Len(seen) \in 1..Len(seen) /\ seen[Len(seen)].at \in Nat
          <5>1. seen \in Seq(Quoted)  BY DEF LunchInv
          <5>2. Len(seen) \in 1..Len(seen)  BY <3>2, <5>1
          <5> QED  BY <5>1, <5>2, LunchTypes
        <4>2. ~(frameAt - seen[Len(seen)].at <= LunchWindow)  BY <1>0, <2>1, <3>2, <4>1
        <4> QED  BY <4>2 DEF Run
      <3> QED  BY <3>1, <3>2
    <2> QED  BY <1>1, <2>2 DEF CountIsWhatWasSeen, UpdateCount
  <1>2. CASE activity # Unseen
    <2>1. PICK a \in 1..Len(seen) : Watched(seen, activity, a)  BY <1>2 DEF LunchInv
    <2>2. /\ Run = a..Len(seen)
          /\ Changes = {i \in ChangedSince(seen, a) : seen[i].at >= Cutoff(frameAt)}
      BY <1>2, <2>1, RunIs
    <2>3. a \in Run /\ Run # {} /\ \A i \in Run : i \in 1..Len(seen) /\ a <= i  BY <1>0, <2>2
    <2>4. \A i \in 1..Len(seen) : seen[i].at \in Nat  BY LunchTypes DEF LunchInv
    <2>5. (\A i \in Run : frameAt - seen[i].at < LunchWindow) <=> frameAt - activity.first < LunchWindow
      <3>1. activity.first = seen[a].at  BY <2>1 DEF Watched
      <3>2. \A i \in Run : seen[a].at <= seen[i].at  BY <2>3, LaterShown DEF LunchInv
      <3>3. ASSUME NEW i \in Run, frameAt - seen[a].at < LunchWindow PROVE frameAt - seen[i].at < LunchWindow
        BY <1>0, <2>3, <2>4, <3>2, <3>3
      <3> QED  BY <2>3, <3>1, <3>3
    <2>6. Cardinality(RecentOnes(activity.updates, frameAt)) = Cardinality(Changes)
      <3> DEFINE U == activity.updates
                 R == RecentOnes(U, frameAt)
      <3>1. PICK pos : Noted(seen, pos, U, a, activity.last)  BY <2>1 DEF Watched
      <3>2. U \in Seq(Nat) /\ DOMAIN U = 1..Len(U) /\ Len(U) \in Nat
        <4>1. U \in Seq(Nat)  BY DEF LunchInv, Watches
        <4> QED  BY <4>1
      <3>3. Cutoff(activity.last) <= Cutoff(frameAt)
        <4>1. activity.last = seen[Len(seen)].at /\ activity.last <= frameAt /\ activity.last \in Int
          <5>1. activity \in Watches /\ seen # <<>> /\ activity.last = seen[Len(seen)].at
            BY <1>2 DEF LunchInv
          <5>2. seen[Len(seen)].at <= frameAt  BY <5>1 DEF LunchInv
          <5> QED  BY <5>1, <5>2 DEF Watches
        <4>2. Cutoff(activity.last) = activity.last - LunchWindow /\ Cutoff(frameAt) = frameAt - LunchWindow
          BY <1>0, <4>1, LunchTypes
        <4> QED  BY <1>0, <4>1, <4>2
      <3>4. /\ pos \in [1..Len(U) -> Nat]
            /\ \A j \in 1..Len(U) : pos[j] \in ChangedSince(seen, a) /\ U[j] = seen[pos[j]].at
            /\ \A j, k \in 1..Len(U) : j # k => pos[j] # pos[k]
            /\ \A i \in ChangedSince(seen, a) : seen[i].at >= Cutoff(activity.last) => \E j \in 1..Len(U) : pos[j] = i
        BY <3>1 DEF Noted
      <3> HIDE DEF U
      <3>5. \A j : j \in R <=> j \in 1..Len(U) /\ U[j] >= Cutoff(frameAt)  BY <3>2 DEF RecentOnes
      <3>6. IsFiniteSet(R)
        <4>1. R \in SUBSET (1..Len(U))  BY <3>5
        <4> QED  BY <3>2, <4>1, IntervalFinite, FS_Subset
      <3> HIDE DEF R
      <3>7. \A j \in R : pos[j] \in Changes  BY <2>2, <3>4, <3>5
      <3>8. \A j, k \in R : pos[j] = pos[k] => j = k  BY <3>4, <3>5
      <3>9. \A i \in Changes : \E j \in R : pos[j] = i
        <4> SUFFICES ASSUME NEW i \in Changes PROVE \E j \in R : pos[j] = i  OBVIOUS
        <4>1. i \in ChangedSince(seen, a) /\ seen[i].at >= Cutoff(frameAt) /\ i \in 1..Len(seen)
          BY <1>0, <2>2 DEF ChangedSince
        <4>2. seen[i].at >= Cutoff(activity.last)
          <5>1. seen[i].at \in Int /\ Cutoff(frameAt) \in Int /\ Cutoff(activity.last) \in Int
            <6>1. activity.last \in Int  BY DEF LunchInv, Watches
            <6>2. Cutoff(frameAt) \in Int /\ Cutoff(activity.last) \in Int  BY <1>0, <6>1, LunchTypes
            <6>3. seen[i].at \in Nat  BY <2>4, <4>1
            <6> QED  BY <6>2, <6>3
          <5> QED  BY <3>3, <4>1, <5>1
        <4>3. PICK j \in 1..Len(U) : pos[j] = i  BY <3>4, <4>1, <4>2
        <4>4. j \in R  BY <3>4, <3>5, <4>1, <4>3
        <4> QED  BY <4>3, <4>4
      <3> QED  BY <3>6, <3>7, <3>8, <3>9, SameMany DEF R, U
    <2> QED  BY <1>2, <2>3, <2>5, <2>6 DEF CountIsWhatWasSeen, UpdateCount
  <1> QED  BY <1>1, <1>2

\* The count the lunch pause asks for is of the changes of the quote within the
\* window, without a gap (observe, update_count), though the list it is taken
\* from is cut at every quote.
THEOREM CountIsSeen == LunchSpec => []CountIsWhatWasSeen
  <1>1. LunchInv /\ UNCHANGED lunch => LunchInv'  BY DEF lunch, LunchInv
  <1>2. LunchInv /\ [LunchNext]_lunch => LunchInv'
    BY <1>1, ObserveKeeps, WithoutKeeps DEF LunchNext
  <1> QED  BY <1>2, LunchStarts, CountIsRight, PTL DEF LunchSpec

-----------------------------------------------------------------------------
(* The greatest numbers of a finite set                                    *)

\* The numbers of S that are not less than d, and those with few of them.
NotBelow(S, d) == {e \in S : e >= d}
Top(S, n) == {d \in S : Cardinality(NotBelow(S, d)) <= n}

LEMMA NotBelowIs ==
    ASSUME NEW S \in SUBSET Nat, IsFiniteSet(S)
    PROVE  /\ \A d : IsFiniteSet(NotBelow(S, d)) /\ Cardinality(NotBelow(S, d)) \in Nat
           /\ \A d : Cardinality(NotBelow(S, d)) <= Cardinality(S)
           /\ \A d, e \in S : e < d => Cardinality(NotBelow(S, d)) < Cardinality(NotBelow(S, e))
  <1>1. \A d : NotBelow(S, d) \in SUBSET S  BY DEF NotBelow
  <1>2. \A d : IsFiniteSet(NotBelow(S, d)) /\ Cardinality(NotBelow(S, d)) <= Cardinality(S)
    BY <1>1, FS_Subset
  <1>3. \A d : Cardinality(NotBelow(S, d)) \in Nat  BY <1>2, FS_CardinalityType
  <1>4. ASSUME NEW d \in S, NEW e \in S, e < d
        PROVE  Cardinality(NotBelow(S, d)) < Cardinality(NotBelow(S, e))
    <2>1. NotBelow(S, d) \in SUBSET NotBelow(S, e)
      <3>1. \A f \in S : f >= d => f >= e  BY <1>4
      <3> QED  BY <3>1 DEF NotBelow
    <2>2. NotBelow(S, d) # NotBelow(S, e)
      <3>1. e \in NotBelow(S, e) /\ e \notin NotBelow(S, d)  BY <1>4 DEF NotBelow
      <3> QED  BY <3>1
    <2>3. /\ Cardinality(NotBelow(S, d)) <= Cardinality(NotBelow(S, e))
          /\ Cardinality(NotBelow(S, d)) # Cardinality(NotBelow(S, e))
      BY <1>2, <2>1, <2>2, FS_Subset
    <2> QED  BY <1>3, <2>3
  <1> QED  BY <1>2, <1>3, <1>4

\* There are n of them with n or less that are not below, if S has as many.
LEMMA TopHas ==
    ASSUME NEW S \in SUBSET Nat, IsFiniteSet(S), NEW n \in Nat, n <= Cardinality(S)
    PROVE  Cardinality(Top(S, n)) = n
  <1> DEFINE M == {m \in Nat : m <= Cardinality(S) => Cardinality(Top(S, m)) = m}
             rank == [d \in S |-> Cardinality(NotBelow(S, d))]
  <1>1. /\ rank \in [S -> Nat] /\ \A d \in S : rank[d] = Cardinality(NotBelow(S, d))
        /\ \A d, e \in S : e < d => rank[d] < rank[e]
    BY NotBelowIs
  <1>2. \A m : Top(S, m) = {d \in S : rank[d] <= m}  BY DEF Top
  <1>3. Cardinality(S) \in Nat  BY FS_CardinalityType
  <1>4. \A d \in S : rank[d] # 0
    <2> SUFFICES ASSUME NEW d \in S, rank[d] = 0 PROVE FALSE  OBVIOUS
    <2>1. NotBelow(S, d) = {}  BY <1>1, NotBelowIs, FS_EmptySet
    <2>2. d \in NotBelow(S, d)  BY DEF NotBelow
    <2> QED  BY <2>1, <2>2
  <1>5. 0 \in M
    <2>1. Top(S, 0) = {}
      <3> HIDE DEF rank
      <3>1. \A d \in S : rank[d] \in Nat /\ rank[d] # 0  BY <1>1, <1>4
      <3>2. \A d \in S : ~(rank[d] <= 0)  BY <3>1
      <3> QED  BY <1>2, <3>2
    <2> QED  BY <2>1, FS_EmptySet
  <1>6. ASSUME NEW m \in M PROVE m + 1 \in M
    <2> SUFFICES ASSUME m + 1 <= Cardinality(S) PROVE Cardinality(Top(S, m + 1)) = m + 1
      OBVIOUS
    <2> HIDE DEF rank
    <2>1. Cardinality(Top(S, m)) = m /\ Top(S, m) \in SUBSET S  BY <1>2, <1>3
    <2> DEFINE R == S \ Top(S, m)
               ranks == {k \in Nat : \E d \in R : rank[d] = k}
    <2>2. R # {}
      <3> SUFFICES ASSUME R = {} PROVE FALSE  OBVIOUS
      <3>1. Top(S, m) = S  BY <2>1
      <3> QED  BY <1>3, <2>1, <3>1
    <2>3. \E d \in R : \A e \in R : rank[d] <= rank[e]
      <3>1. ranks \in SUBSET Nat /\ ranks # {}  BY <1>1, <2>2
      <3>2. PICK k \in ranks : \A l \in ranks : k <= l
        <4> HIDE DEF ranks
        <4> QED  BY <3>1, LeastOf
      <3>3. PICK d \in R : rank[d] = k  BY <3>2
      <3>4. \A e \in R : rank[e] \in ranks  BY <1>1
      <3> QED  BY <3>2, <3>3, <3>4
    <2>4. PICK d \in R : \A e \in R : rank[d] <= rank[e]  BY <2>3
    <2>5. d \in S /\ ~(rank[d] <= m) /\ rank[d] \in Nat  BY <1>1, <1>2
    <2>6. \A e \in R : ~(d < e)
      <3> SUFFICES ASSUME NEW e \in R, d < e PROVE FALSE  OBVIOUS
      <3>1. rank[e] < rank[d] /\ rank[d] <= rank[e]  BY <1>1, <2>4, <2>5
      <3> QED  BY <1>1, <2>5, <3>1
    <2>7. NotBelow(S, d) = Top(S, m) \cup {d}
      <3>1. ASSUME NEW e \in S, e >= d PROVE e \in Top(S, m) \cup {d}
        BY <2>5, <2>6, <3>1
      <3>2. ASSUME NEW e \in Top(S, m) PROVE e \in S /\ e >= d
        <4>1. e \in S /\ rank[e] <= m /\ rank[e] \in Nat  BY <1>1, <1>2
        <4>2. e < d => rank[d] < rank[e]  BY <1>1, <2>5, <4>1
        <4>3. ~(e < d)  BY <2>5, <4>1, <4>2
        <4> QED  BY <2>5, <4>1, <4>3
      <3>3. d \in S /\ d >= d  BY <2>5
      <3> QED  BY <3>1, <3>2, <3>3 DEF NotBelow
    <2>8. IsFiniteSet(Top(S, m))  BY <2>1, FS_Subset
    <2>9. d \notin Top(S, m)  OBVIOUS
    <2>10. Cardinality(Top(S, m) \cup {d}) = m + 1 /\ rank[d] = m + 1
      <3>1. Cardinality(Top(S, m) \cup {d}) = Cardinality(Top(S, m)) + 1
        BY <2>8, <2>9, FS_AddElement
      <3> QED  BY <1>1, <2>1, <2>5, <2>7, <3>1
    <2>11. Top(S, m + 1) = Top(S, m) \cup {d}
      <3>1. ASSUME NEW e \in Top(S, m + 1), e # d PROVE e \in Top(S, m)
        <4> SUFFICES ASSUME e \notin Top(S, m) PROVE FALSE  OBVIOUS
        <4>1. e \in S /\ e \in R /\ rank[e] \in Nat /\ rank[e] <= m + 1  BY <1>1, <1>2
        <4>2. e < d => rank[d] < rank[e]  BY <1>1, <2>5, <4>1
        <4>3. ~(d < e)  BY <2>6, <4>1
        <4>4. e < d  BY <2>5, <3>1, <4>1, <4>3
        <4> QED  BY <2>10, <4>1, <4>2, <4>4
      <3>2. ASSUME NEW e \in Top(S, m) PROVE e \in Top(S, m + 1)
        <4>1. e \in S /\ rank[e] \in Nat /\ rank[e] <= m  BY <1>1, <1>2
        <4>2. rank[e] <= m + 1  BY <4>1
        <4> QED  BY <1>2, <4>1, <4>2
      <3>3. d \in Top(S, m + 1)  BY <1>2, <2>5, <2>10
      <3> QED  BY <3>1, <3>2, <3>3
    <2> QED  BY <2>10, <2>11
  <1>7. M = Nat
    <2>1. M \in SUBSET Nat  OBVIOUS
    <2> HIDE DEF M
    <2> QED  BY <1>5, <1>6, <2>1, Induction
  <1>8. n \in M
    <2> HIDE DEF M
    <2> QED  BY <1>7
  <1> QED  BY <1>8

-----------------------------------------------------------------------------
(* EntryFilters: the rank of the volatility of an instant                  *)

FiltersSpec == FiltersInit /\ [][FiltersNext]_filters

\* What the rank of an instant should be, from the instants on record.
Earlier(shown, record, t) == {u \in record : u < t /\ Comparable(shown, u, t)}
SessionsIn(s) == {SessionOf(u) : u \in s}
SessionsAfter(s, u) == {d \in SessionsIn(s) : d > SessionOf(u)}
InWindow(s) == {u \in s : Cardinality(SessionsAfter(s, u)) < WindowSessions}
NotAbove(shown, s, t) == {u \in s : shown[u].iv <= shown[t].iv}

RightVerdict(shown, record, t) ==
    LET before == Earlier(shown, record, t)
    IN  IF Cardinality(SessionsIn(before)) < MinSessions THEN NoRank
        ELSE [below |-> Cardinality(NotAbove(shown, InWindow(before), t)),
              total |-> Cardinality(InWindow(before))]

LEMMA FilterConstants ==
    /\ Evaluations \in SUBSET Nat /\ SessionLength \in Nat \ {0}
    /\ MinSessions \in Nat /\ WindowSessions \in Nat /\ MinSessions <= WindowSessions
    /\ \A u \in Nat : SessionOf(u) \in Nat
  <1>1. Evaluations \in SUBSET Nat /\ SessionLength \in Nat \ {0}  BY FilterAssumption
  <1>2. MinSessions \in 2..WindowSessions  BY FilterAssumption
  <1>3. WindowSessions \in Nat  BY FilterAssumption
  <1>4. \A u \in Nat : SessionOf(u) \in Nat  BY <1>1 DEF SessionOf
  <1> QED  BY <1>1, <1>2, <1>3, <1>4

\* The history holds the instants on record, each once.
Holds(h, record) ==
    /\ h \in Seq(Nat)
    /\ \A i, j \in DOMAIN h : h[i] = h[j] => i = j
    /\ \A i \in DOMAIN h : h[i] \in record
    /\ \A u \in record : \E i \in DOMAIN h : h[i] = u

\* Then the code's rank, which goes by its places, is the right one.
LEMMA RankIsRight ==
    ASSUME NEW shown, NEW h, NEW record, NEW t, Holds(h, record)
    PROVE  PointInTimeRank(shown, h, t) = RightVerdict(shown, record, t)
  <1> DEFINE prior == Prior(shown, h, t)
             before == Earlier(shown, record, t)
             sessions == {SessionOf(h[i]) : i \in prior}
             latest == LatestSessions(sessions)
             last == {i \in prior : SessionOf(h[i]) \in latest}
             window == InWindow(before)
             belowPlaces == {i \in last : shown[h[i]].iv <= shown[t].iv}
             below == NotAbove(shown, window, t)
  <1>1. /\ Len(h) \in Nat /\ DOMAIN h = 1..Len(h)
        /\ \A i \in DOMAIN h : h[i] \in Nat /\ h[i] \in record
        /\ \A i, j \in DOMAIN h : h[i] = h[j] => i = j
        /\ \A u \in record : \E i \in DOMAIN h : h[i] = u
    BY DEF Holds
  <1>2. /\ prior \in SUBSET DOMAIN h
        /\ \A i \in prior : h[i] \in before
        /\ \A i \in DOMAIN h : h[i] \in before => i \in prior
        /\ \A u \in before : \E i \in prior : h[i] = u
        /\ \A u \in before : u \in Nat
    BY <1>1 DEF Prior, Earlier
  <1>3. sessions = SessionsIn(before)
    <2>1. \A d : d \in sessions <=> d \in SessionsIn(before)
      <3> HIDE DEF prior, before
      <3> QED  BY <1>2 DEF SessionsIn
    <2> HIDE DEF sessions
    <2> QED  BY <2>1
  <1>4. IsFiniteSet(prior)
    <2>1. IsFiniteSet(DOMAIN h)  BY <1>1, IntervalFinite
    <2> HIDE DEF prior
    <2> QED  BY <1>2, <2>1, FS_Subset
  <1>5. sessions \in SUBSET Nat /\ IsFiniteSet(sessions)
    <2>1. sessions \in SUBSET Nat  BY <1>1, <1>2, FilterConstants
    <2> DEFINE g == [i \in prior |-> SessionOf(h[i])]
    <2>2. g \in Surjection(prior, sessions)
      <3> HIDE DEF prior
      <3> QED  BY DEF Surjection
    <2> HIDE DEF g, prior, sessions
    <2> QED  BY <1>4, <2>1, <2>2, FS_Surjection
  <1>6. Cardinality(sessions) \in Nat /\ WindowSessions \in Nat /\ MinSessions \in Nat /\ MinSessions <= WindowSessions
    <2> HIDE DEF sessions
    <2> QED  BY <1>5, FS_CardinalityType, FilterConstants
  <1>7. latest = Top(sessions, WindowSessions)
    <2> HIDE DEF sessions
    <2> QED  BY DEF LatestSessions, Top, NotBelow
  <1>8. Cardinality(latest) < MinSessions <=> Cardinality(sessions) < MinSessions
    <2> HIDE DEF sessions, latest
    <2>1. CASE WindowSessions <= Cardinality(sessions)
      <3>1. Cardinality(latest) = WindowSessions  BY <1>5, <1>6, <1>7, <2>1, TopHas
      <3> QED  BY <1>6, <2>1, <3>1
    <2>2. CASE ~(WindowSessions <= Cardinality(sessions))
      <3>1. latest = sessions
        <4>1. \A d \in sessions : Cardinality(NotBelow(sessions, d)) <= WindowSessions
          <5> SUFFICES ASSUME NEW d \in sessions PROVE Cardinality(NotBelow(sessions, d)) <= WindowSessions
            OBVIOUS
          <5>1. /\ Cardinality(NotBelow(sessions, d)) \in Nat
                /\ Cardinality(NotBelow(sessions, d)) <= Cardinality(sessions)
            BY <1>5, NotBelowIs
          <5> QED  BY <1>6, <2>2, <5>1
        <4> QED  BY <1>7, <4>1 DEF Top
      <3> QED  BY <3>1
    <2> QED  BY <2>1, <2>2
  \* In the window are the sessions with fewer than WindowSessions after them.
  <1>9. \A u \in before : SessionOf(u) \in latest <=> Cardinality(SessionsAfter(before, u)) < WindowSessions
    <2> SUFFICES ASSUME NEW u \in before
                 PROVE  SessionOf(u) \in latest <=> Cardinality(SessionsAfter(before, u)) < WindowSessions
      OBVIOUS
    <2> DEFINE d == SessionOf(u)
               after == SessionsAfter(before, u)
    <2>1. d \in sessions /\ d \in Nat  BY <1>2, <1>3, FilterConstants DEF SessionsIn
    <2>2. after = NotBelow(sessions, d) \ {d}
      <3>1. \A e \in sessions : e > d <=> e >= d /\ e # d  BY <1>5, <2>1
      <3> HIDE DEF sessions, before, d
      <3> QED  BY <1>3, <3>1 DEF SessionsAfter, NotBelow, d
    <2> HIDE DEF sessions, latest, after, d
    <2>3. d \in NotBelow(sessions, d) /\ IsFiniteSet(NotBelow(sessions, d))
      <3>1. d >= d  BY <2>1
      <3> QED  BY <1>5, <2>1, <3>1, NotBelowIs DEF NotBelow
    <2>4. /\ Cardinality(after) = Cardinality(NotBelow(sessions, d)) - 1
          /\ Cardinality(NotBelow(sessions, d)) \in Nat
      BY <2>2, <2>3, FS_RemoveElement, FS_CardinalityType
    <2>5. d \in latest <=> Cardinality(NotBelow(sessions, d)) <= WindowSessions
      BY <1>7, <2>1 DEF Top
    <2> QED  BY <1>6, <2>4, <2>5 DEF d, after
  <1>10. /\ \A i \in last : h[i] \in window
         /\ \A u \in window : \E i \in last : h[i] = u
         /\ \A i, j \in last : h[i] = h[j] => i = j
    <2> HIDE DEF prior, before, latest
    <2>1. \A i \in last : h[i] \in window  BY <1>2, <1>9 DEF InWindow
    <2>2. \A u \in window : \E i \in last : h[i] = u
      <3> SUFFICES ASSUME NEW u \in window PROVE \E i \in last : h[i] = u  OBVIOUS
      <3>1. u \in before /\ SessionOf(u) \in latest  BY <1>9 DEF InWindow
      <3>2. PICK i \in prior : h[i] = u  BY <1>2, <3>1
      <3> QED  BY <3>1, <3>2
    <2>3. \A i, j \in last : h[i] = h[j] => i = j  BY <1>1, <1>2
    <2> QED  BY <2>1, <2>2, <2>3
  <1>11. IsFiniteSet(last) /\ IsFiniteSet(belowPlaces)
    <2>1. last \in SUBSET prior /\ belowPlaces \in SUBSET prior  OBVIOUS
    <2> HIDE DEF last, belowPlaces, prior
    <2> QED  BY <1>4, <2>1, FS_Subset
  <1>12. Cardinality(window) = Cardinality(last)
    <2> HIDE DEF last, window
    <2> QED  BY <1>10, <1>11, SameMany
  <1>13. Cardinality(below) = Cardinality(belowPlaces)
    <2> HIDE DEF last, window
    <2>1. \A i \in belowPlaces : h[i] \in below  BY <1>10 DEF NotAbove
    <2>2. \A i, j \in belowPlaces : h[i] = h[j] => i = j  BY <1>10
    <2>3. \A u \in below : \E i \in belowPlaces : h[i] = u  BY <1>10 DEF NotAbove
    <2> HIDE DEF below, belowPlaces
    <2> QED  BY <1>11, <2>1, <2>2, <2>3, SameMany
  <1>14. PointInTimeRank(shown, h, t) =
            IF Cardinality(latest) < MinSessions THEN NoRank
            ELSE [below |-> Cardinality(belowPlaces), total |-> Cardinality(last)]
    BY DEF PointInTimeRank
  <1>15. RightVerdict(shown, record, t) =
            IF Cardinality(SessionsIn(before)) < MinSessions THEN NoRank
            ELSE [below |-> Cardinality(below), total |-> Cardinality(window)]
    BY DEF RightVerdict
  <1> HIDE DEF prior, before, sessions, latest, last, window, belowPlaces, below
  <1> QED  BY <1>3, <1>8, <1>12, <1>13, <1>14, <1>15
-----------------------------------------------------------------------------

Evaluating == filterStage \notin {"down", "refused"}

\* The file holds the instants on record, each once, and lines that were cut.
FileHolds(file, record) ==
    /\ file \in Seq(Nat \cup {Torn})
    /\ \A i, j \in 1..Len(file) : file[i] = file[j] => i = j \/ file[i] = Torn
    /\ \A i \in 1..Len(file) : file[i] # Torn => file[i] \in record
    /\ \A u \in record : \E i \in 1..Len(file) : file[i] = u

\* An entry is judged by the right rank.
JudgedRight ==
    filterStage \in {"valued", "recorded"} /\ Valued(evaluatedAt) =>
        verdict = RightVerdict(candidates, onRecord, evaluatedAt)

\* A process that runs has in memory what the file has, and the market shown at
\* every instant on record is known.
FiltersInv ==
    /\ filterStage \in {"idle", "valued", "recorded", "entering", "down", "refused"}
    /\ candidates \in [DOMAIN candidates -> Candidates] /\ DOMAIN candidates \subseteq Nat
    /\ evaluatedAt \in Nat \cup {-1} /\ snapshotAt \in Nat \cup {-1}
    /\ filterStage \in {"valued", "recorded"} => evaluatedAt \in Nat
    /\ filterStage = "valued" => Valued(evaluatedAt)
    /\ onRecord \subseteq DOMAIN candidates
    /\ ~switches.analytics => DOMAIN candidates = {}
    /\ FileHolds(ivFile, onRecord)
    /\ Evaluating => ivHistory = ivFile /\ \A i \in 1..Len(ivFile) : ivFile[i] # Torn
    /\ JudgedRight

LEMMA FiltersStart == FiltersInit => FiltersInv
  <1> SUFFICES ASSUME FiltersInit PROVE FiltersInv  OBVIOUS
  <1>1. DOMAIN candidates = {} /\ onRecord = {} /\ ivFile = <<>> /\ ivHistory = <<>>
    BY DEF FiltersInit
  <1>2. FileHolds(ivFile, onRecord)  BY <1>1 DEF FileHolds
  <1>3. candidates \in [DOMAIN candidates -> Candidates]  BY DEF FiltersInit
  <1>4. JudgedRight  BY DEF FiltersInit, JudgedRight
  <1> QED  BY <1>1, <1>2, <1>3, <1>4 DEF FiltersInit, FiltersInv, Evaluating

\* The record a running evaluation has.
LEMMA HistoryHolds == ASSUME FiltersInv, Evaluating PROVE Holds(ivHistory, onRecord)
  <1>1. /\ ivHistory = ivFile /\ \A i \in 1..Len(ivFile) : ivFile[i] # Torn
        /\ FileHolds(ivFile, onRecord)
    BY DEF FiltersInv
  <1>2. Len(ivFile) \in Nat /\ DOMAIN ivFile = 1..Len(ivFile)  BY <1>1 DEF FileHolds
  <1>3. ivFile \in Seq(Nat)
    <2>1. \A i \in 1..Len(ivFile) : ivFile[i] \in Nat  BY <1>1, <1>2 DEF FileHolds
    <2> QED  BY <1>1, <1>2, <2>1, IsASeq DEF FileHolds
  <1> QED  BY <1>1, <1>2, <1>3 DEF Holds, FileHolds

\* A line more: of an instant that was not on record, or cut.
LEMMA OneLineMore ==
    ASSUME NEW file, NEW record \in SUBSET Nat, FileHolds(file, record), NEW line \in (Nat \ record) \cup {Torn}
    PROVE  FileHolds(Append(file, line), IF line = Torn THEN record ELSE record \cup {line})
  <1> DEFINE more == Append(file, line)
             N == Len(file)
             then == IF line = Torn THEN record ELSE record \cup {line}
  <1>1. file \in Seq(Nat \cup {Torn}) /\ N \in Nat  BY DEF FileHolds
  <1>2. /\ more \in Seq(Nat \cup {Torn}) /\ Len(more) = N + 1 /\ more[N + 1] = line
        /\ \A i \in 1..N : more[i] = file[i]
    BY <1>1, AppendProperties
  <1>3. \A i \in 1..(N + 1) : i # N + 1 => i \in 1..N  BY <1>1
  <1>4. \A i \in 1..N : i \in 1..(N + 1) /\ i # N + 1 /\ N + 1 \in 1..(N + 1)  BY <1>1
  <1>5. Torn \notin Nat /\ Torn \notin record  BY DEF Torn
  <1> HIDE DEF more, N
  <1>6. /\ \A i, j \in 1..N : file[i] = file[j] => i = j \/ file[i] = Torn
        /\ \A i \in 1..N : file[i] # Torn => file[i] \in record
        /\ \A u \in record : \E i \in 1..N : file[i] = u
    BY DEF FileHolds, N
  <1>7. \A i \in 1..(N + 1) : more[i] # Torn => more[i] \in then
    BY <1>2, <1>3, <1>6
  <1>8. \A u \in then : \E i \in 1..(N + 1) : more[i] = u
    <2> SUFFICES ASSUME NEW u \in then PROVE \E i \in 1..(N + 1) : more[i] = u  OBVIOUS
    <2>1. CASE u \in record  BY <1>2, <1>4, <1>6, <2>1
    <2>2. CASE u \notin record
      <3>1. u = line  BY <2>2
      <3>2. N + 1 \in 1..(N + 1)  BY <1>1 DEF N
      <3> QED  BY <1>2, <3>1, <3>2
    <2> QED  BY <2>1, <2>2
  <1>9. \A i, j \in 1..(N + 1) : more[i] = more[j] => i = j \/ more[i] = Torn
    <2> SUFFICES ASSUME NEW i \in 1..(N + 1), NEW j \in 1..(N + 1), more[i] = more[j], i # j
                 PROVE  more[i] = Torn
      OBVIOUS
    <2>1. CASE i = N + 1
      <3>1. j \in 1..N /\ more[j] = file[j] /\ more[i] = line  BY <1>2, <1>3, <2>1
      <3> QED  BY <1>6, <3>1
    <2>2. CASE j = N + 1
      <3>1. i \in 1..N /\ more[i] = file[i] /\ more[j] = line  BY <1>2, <1>3, <2>2
      <3> QED  BY <1>6, <3>1
    <2>3. CASE i # N + 1 /\ j # N + 1
      <3>1. i \in 1..N /\ j \in 1..N /\ more[i] = file[i] /\ more[j] = file[j]  BY <1>2, <1>3, <2>3
      <3> QED  BY <1>6, <3>1
    <2> QED  BY <2>1, <2>2, <2>3
  <1>10. FileHolds(more, then)  BY <1>2, <1>7, <1>8, <1>9 DEF FileHolds
  <1> QED  BY <1>10 DEF more

\* What is not in memory is not on record.
LEMMA NotYetOnRecord ==
    ASSUME FiltersInv, filterStage = "valued", ~OnRecord(evaluatedAt)
    PROVE  evaluatedAt \in Nat \ onRecord /\ onRecord \in SUBSET Nat
  <1>1. Evaluating /\ evaluatedAt \in Nat /\ onRecord \in SUBSET Nat  BY DEF FiltersInv, Evaluating
  <1>2. Holds(ivHistory, onRecord)  BY <1>1, HistoryHolds
  <1>3. DOMAIN ivHistory = 1..Len(ivHistory)  BY <1>2 DEF Holds
  <1>4. evaluatedAt \notin onRecord  BY <1>2, <1>3 DEF Holds, OnRecord, Contains
  <1> QED  BY <1>1, <1>4

\* The evaluation ends with what is on record.
LEMMA LeaveIs ==
    ASSUME FiltersInv, NEW next, Leave(next),
           \A u \in onRecord' : u \in DOMAIN candidates
    PROVE  /\ filterStage' = next
           /\ candidates' \in [DOMAIN candidates' -> Candidates]
           /\ DOMAIN candidates' \subseteq DOMAIN candidates
           /\ onRecord' \subseteq DOMAIN candidates'
  <1>1. filterStage' = next /\ candidates' = [u \in DOMAIN candidates \cap onRecord' |-> candidates[u]]
    BY DEF Leave
  <1>2. candidates \in [DOMAIN candidates -> Candidates]  BY DEF FiltersInv
  <1> QED  BY <1>1, <1>2

\* The process goes down and the file is as it was, or has a line more.
LEMMA DownKeeps ==
    ASSUME FiltersInv, NEW saved \in Nat \cup {-1}, Down(saved), UNCHANGED switches,
           \/ UNCHANGED <<ivFile, onRecord>>
           \/ ivFile' = Append(ivFile, Torn) /\ UNCHANGED onRecord
           \/ /\ filterStage = "valued" /\ ~OnRecord(evaluatedAt)
              /\ ivFile' = Append(ivFile, evaluatedAt) /\ onRecord' = onRecord \cup {evaluatedAt}
    PROVE  FiltersInv'
  <1>1. Leave("down") /\ snapshotAt' = saved /\ evaluatedAt' = saved  BY DEF Down
  <1>2. FileHolds(ivFile, onRecord) /\ onRecord \in SUBSET Nat  BY DEF FiltersInv
  <1>3. \A u \in onRecord' : u \in DOMAIN candidates  BY DEF FiltersInv, Valued
  <1>4. /\ filterStage' = "down"
        /\ candidates' \in [DOMAIN candidates' -> Candidates]
        /\ DOMAIN candidates' \subseteq DOMAIN candidates
        /\ onRecord' \subseteq DOMAIN candidates'
    BY <1>1, <1>3, LeaveIs
  <1>5. FileHolds(ivFile', onRecord')
    <2>1. CASE UNCHANGED <<ivFile, onRecord>>  BY <1>2, <2>1
    <2>2. CASE ivFile' = Append(ivFile, Torn) /\ UNCHANGED onRecord
      <3>1. FileHolds(Append(ivFile, Torn), onRecord)  BY <1>2, OneLineMore
      <3> QED  BY <2>2, <3>1
    <2>3. CASE /\ filterStage = "valued" /\ ~OnRecord(evaluatedAt)
               /\ ivFile' = Append(ivFile, evaluatedAt) /\ onRecord' = onRecord \cup {evaluatedAt}
      <3>1. evaluatedAt \in Nat \ onRecord /\ evaluatedAt # Torn  BY <2>3, NotYetOnRecord DEF Torn
      <3>2. FileHolds(Append(ivFile, evaluatedAt), onRecord \cup {evaluatedAt})  BY <1>2, <3>1, OneLineMore
      <3> QED  BY <2>3, <3>2
    <2> QED  BY <2>1, <2>2, <2>3
  <1>6. ~switches'.analytics => DOMAIN candidates' = {}  BY <1>4 DEF FiltersInv
  <1>7. DOMAIN candidates' \subseteq Nat  BY <1>4 DEF FiltersInv
  <1> QED  BY <1>1, <1>4, <1>5, <1>6, <1>7 DEF FiltersInv, Evaluating, JudgedRight

-----------------------------------------------------------------------------
(* The steps                                                               *)

\* A step between evaluations leaves the record and the market as they are.
LEMMA BetweenKeeps ==
    ASSUME FiltersInv, DropUnvalued \/ SkipAnalytics \/ SaveEvaluation
    PROVE  FiltersInv'
  <1>1. /\ UNCHANGED <<candidates, switches, ivHistory, ivFile, onRecord>>
        /\ evaluatedAt' \in {evaluatedAt} \cup Evaluations /\ snapshotAt' \in {evaluatedAt, snapshotAt}
    BY DEF DropUnvalued, SkipAnalytics, SaveEvaluation
  <1>2. Evaluating /\ Evaluating' /\ filterStage' \in {"idle", "recorded"}
    BY DEF DropUnvalued, SkipAnalytics, SaveEvaluation, Evaluating
  <1>3. filterStage' = "recorded" => evaluatedAt' \in Evaluations /\ ~switches.analytics
    BY DEF DropUnvalued, SkipAnalytics, SaveEvaluation
  <1>4. evaluatedAt' \in Nat \cup {-1} /\ snapshotAt' \in Nat \cup {-1}
    BY <1>1, FilterConstants DEF FiltersInv
  <1>5. JudgedRight'  BY <1>1, <1>2, <1>3 DEF FiltersInv, JudgedRight, Valued
  <1>6. FileHolds(ivFile, onRecord)'  BY <1>1 DEF FiltersInv, FileHolds
  <1>7. filterStage' = "recorded" => evaluatedAt' \in Nat  BY <1>3, FilterConstants
  <1> QED  BY <1>1, <1>2, <1>4, <1>5, <1>6, <1>7 DEF FiltersInv

LEMMA ValueKeeps == ASSUME FiltersInv, ValueSeries PROVE FiltersInv'
  <1>1. PICK t \in Evaluations, c \in Candidates :
            /\ evaluatedAt' = t /\ candidates' = Shown(t, c)
            /\ IF Shown(t, c)[t].iv # NoVolatility
               THEN filterStage' = "valued" /\ verdict' = PointInTimeRank(Shown(t, c), ivHistory, t)
               ELSE filterStage' = "recorded" /\ UNCHANGED verdict
    BY DEF ValueSeries
  <1>2. /\ filterStage = "idle" /\ switches.analytics /\ t \in Nat
        /\ UNCHANGED <<switches, snapshotAt, ivHistory, ivFile, onRecord>>
    BY FilterConstants DEF ValueSeries
  <1>3. /\ candidates' \in [DOMAIN candidates' -> Candidates]
        /\ DOMAIN candidates' = DOMAIN candidates \cup {t}
    <2>1. candidates \in [DOMAIN candidates -> Candidates]  BY DEF FiltersInv
    <2> QED  BY <1>1, <2>1 DEF Shown
  <1>4. Evaluating /\ Evaluating'  BY <1>1, <1>2 DEF Evaluating
  <1>5. JudgedRight'
    <2>1. CASE Shown(t, c)[t].iv # NoVolatility
      <3>1. PointInTimeRank(Shown(t, c), ivHistory, t) = RightVerdict(Shown(t, c), onRecord, t)
        BY <1>4, HistoryHolds, RankIsRight
      <3> QED  BY <1>1, <1>2, <2>1, <3>1 DEF JudgedRight
    <2>2. CASE ~(Shown(t, c)[t].iv # NoVolatility)
      <3>1. ~Valued(evaluatedAt)'  BY <1>1, <2>2 DEF Valued
      <3> QED  BY <3>1 DEF JudgedRight
    <2> QED  BY <2>1, <2>2
  <1>6. filterStage' \in {"valued", "recorded"} /\ (filterStage' = "valued" => Valued(evaluatedAt)')
    BY <1>1, <1>3 DEF Valued
  <1>7. FileHolds(ivFile, onRecord)'  BY <1>2 DEF FiltersInv, FileHolds
  <1> QED  BY <1>1, <1>2, <1>3, <1>4, <1>5, <1>6, <1>7 DEF FiltersInv

\* What comes on record at the instant itself changes nothing of its rank.
LEMMA OwnRecordIsNotEarlier ==
    ASSUME NEW shown, NEW record, NEW t \in Nat
    PROVE  RightVerdict(shown, record \cup {t}, t) = RightVerdict(shown, record, t)
  <1>1. Earlier(shown, record \cup {t}, t) = Earlier(shown, record, t)
    <2>1. ~(t < t)  OBVIOUS
    <2> QED  BY <2>1 DEF Earlier
  <1> QED  BY <1>1 DEF RightVerdict

LEMMA RecordKeeps == ASSUME FiltersInv, RecordVolatility PROVE FiltersInv'
  <1>1. /\ filterStage = "valued" /\ filterStage' = "recorded"
        /\ UNCHANGED <<candidates, switches, evaluatedAt, snapshotAt, verdict>>
    BY DEF RecordVolatility
  <1>2. Evaluating /\ Evaluating' /\ evaluatedAt \in Nat /\ Valued(evaluatedAt)
    BY <1>1 DEF Evaluating, FiltersInv
  <1>3. verdict = RightVerdict(candidates, onRecord, evaluatedAt)  BY <1>1, <1>2 DEF FiltersInv, JudgedRight
  <1>4. ivHistory = ivFile /\ FileHolds(ivFile, onRecord) /\ \A i \in 1..Len(ivFile) : ivFile[i] # Torn
    BY <1>2 DEF FiltersInv
  <1>5. CASE OnRecord(evaluatedAt)
    <2>1. UNCHANGED <<ivFile, ivHistory, onRecord>>  BY <1>5 DEF RecordVolatility
    <2>2. JudgedRight'  BY <1>1, <1>3, <2>1 DEF JudgedRight
    <2> QED  BY <1>1, <1>2, <1>4, <2>1, <2>2 DEF FiltersInv
  <1>6. CASE ~OnRecord(evaluatedAt)
    <2>1. /\ ivFile' = Append(ivFile, evaluatedAt) /\ ivHistory' = Append(ivHistory, evaluatedAt)
          /\ onRecord' = onRecord \cup {evaluatedAt}
      BY <1>6 DEF RecordVolatility
    <2>2. evaluatedAt \in Nat \ onRecord /\ evaluatedAt # Torn /\ onRecord \in SUBSET Nat
      BY <1>1, <1>6, NotYetOnRecord DEF Torn
    <2>3. FileHolds(ivFile', onRecord')
      <3>1. FileHolds(Append(ivFile, evaluatedAt), onRecord \cup {evaluatedAt})  BY <1>4, <2>2, OneLineMore
      <3> QED  BY <2>1, <3>1
    <2>4. \A i \in 1..Len(ivFile') : ivFile'[i] # Torn
      <3>1. ivFile \in Seq(Nat \cup {Torn}) /\ evaluatedAt \in Nat \cup {Torn}  BY <1>2, <1>4 DEF FileHolds
      <3>2. /\ Len(ivFile') = Len(ivFile) + 1 /\ ivFile'[Len(ivFile) + 1] = evaluatedAt
            /\ \A i \in 1..Len(ivFile) : ivFile'[i] = ivFile[i]
        BY <2>1, <3>1, AppendProperties
      <3>3. \A i \in 1..(Len(ivFile) + 1) : i \in 1..Len(ivFile) \/ i = Len(ivFile) + 1  BY <3>1
      <3> QED  BY <1>4, <2>2, <3>2, <3>3
    <2>5. JudgedRight'  BY <1>1, <1>2, <1>3, <2>1, OwnRecordIsNotEarlier DEF JudgedRight
    <2>6. onRecord' \subseteq DOMAIN candidates'  BY <1>1, <1>2, <2>1 DEF FiltersInv, Valued
    <2>7. Valued(evaluatedAt)' = Valued(evaluatedAt)  BY <1>1 DEF Valued
    <2> QED  BY <1>1, <1>2, <1>4, <2>1, <2>3, <2>4, <2>5, <2>6, <2>7 DEF FiltersInv
  <1> QED  BY <1>5, <1>6

\* The entry is dropped or passed on.
LEMMA LeavingKeeps == ASSUME FiltersInv, DropByRank \/ DropByLimits \/ PassOn PROVE FiltersInv'
  <1>1. /\ filterStage = "recorded"
        /\ UNCHANGED <<switches, evaluatedAt, snapshotAt, ivHistory, ivFile, onRecord>>
        /\ Leave("idle") \/ Leave("entering")
    BY DEF DropByRank, DropByLimits, PassOn
  <1>2. \A u \in onRecord' : u \in DOMAIN candidates  BY <1>1 DEF FiltersInv
  <1>3. /\ filterStage' \in {"idle", "entering"}
        /\ candidates' \in [DOMAIN candidates' -> Candidates]
        /\ DOMAIN candidates' \subseteq DOMAIN candidates
        /\ onRecord' \subseteq DOMAIN candidates'
    BY <1>1, <1>2, LeaveIs
  <1>4. Evaluating /\ Evaluating'  BY <1>1, <1>3 DEF Evaluating
  <1>5. JudgedRight'  BY <1>3 DEF JudgedRight
  <1>6. FileHolds(ivFile, onRecord)'  BY <1>1 DEF FiltersInv, FileHolds
  <1> QED  BY <1>1, <1>3, <1>4, <1>5, <1>6 DEF FiltersInv

LEMMA GoingDownKeeps == ASSUME FiltersInv, RecordIsCut \/ DiesAfterRecord \/ EvaluationEnds PROVE FiltersInv'
  <1>1. snapshotAt \in Nat \cup {-1} /\ evaluatedAt \in Nat \cup {-1}  BY DEF FiltersInv
  <1>2. UNCHANGED switches  BY DEF RecordIsCut, DiesAfterRecord, EvaluationEnds
  <1>3. PICK saved \in Nat \cup {-1} : Down(saved)
    BY <1>1 DEF RecordIsCut, DiesAfterRecord, EvaluationEnds, GoDown
  <1>4. \/ UNCHANGED <<ivFile, onRecord>>
        \/ ivFile' = Append(ivFile, Torn) /\ UNCHANGED onRecord
        \/ /\ filterStage = "valued" /\ ~OnRecord(evaluatedAt)
           /\ ivFile' = Append(ivFile, evaluatedAt) /\ onRecord' = onRecord \cup {evaluatedAt}
    BY DEF RecordIsCut, DiesAfterRecord, EvaluationEnds
  <1> QED  BY <1>2, <1>3, <1>4, DownKeeps

LEMMA StartKeeps == ASSUME FiltersInv, StartFilters PROVE FiltersInv'
  <1>1. /\ filterStage = "down"
        /\ UNCHANGED <<candidates, switches, evaluatedAt, snapshotAt, ivFile, verdict, onRecord>>
        /\ \/ Contains(ivFile, Torn) /\ filterStage' = "refused"
           \/ ~Contains(ivFile, Torn) /\ filterStage' = "idle" /\ ivHistory' = ivFile
    BY DEF StartFilters
  <1>2. Evaluating' => ivHistory' = ivFile' /\ \A i \in 1..Len(ivFile') : ivFile'[i] # Torn
    BY <1>1 DEF Evaluating, Contains
  <1>3. JudgedRight'  BY <1>1 DEF JudgedRight
  <1>4. FileHolds(ivFile, onRecord)'  BY <1>1 DEF FiltersInv, FileHolds
  <1> QED  BY <1>1, <1>2, <1>3, <1>4 DEF FiltersInv

LEMMA FiltersSameKeeps == ASSUME FiltersInv, UNCHANGED filters PROVE FiltersInv'
  <1>1. UNCHANGED <<candidates, switches, filterStage, evaluatedAt, snapshotAt, ivHistory, ivFile, verdict, onRecord>>
    BY DEF filters
  <1>2. FileHolds(ivFile, onRecord)' /\ Evaluating' = Evaluating
    BY <1>1 DEF FiltersInv, FileHolds, Evaluating
  <1>3. JudgedRight'  BY <1>1 DEF FiltersInv, JudgedRight, Valued
  <1>4. filterStage' = "valued" => Valued(evaluatedAt)'  BY <1>1 DEF FiltersInv, Valued
  <1> QED  BY <1>1, <1>2, <1>3, <1>4 DEF FiltersInv

\* An entry is ranked among the comparable volatilities on record before it, of
\* the last sessions of the window (point_in_time_rank), whatever was evaluated
\* again after a crash.
THEOREM RankIsOfItsInstant == FiltersSpec => []RankIsPointInTime
  <1>1. FiltersInv /\ [FiltersNext]_filters => FiltersInv'
    <2> SUFFICES ASSUME FiltersInv, [FiltersNext]_filters PROVE FiltersInv'  OBVIOUS
    <2> QED  BY BetweenKeeps, ValueKeeps, RecordKeeps, LeavingKeeps, GoingDownKeeps, StartKeeps, FiltersSameKeeps
             DEF FiltersNext
  <1>2. FiltersInv => RankIsPointInTime
    <2> SUFFICES ASSUME FiltersInv, filterStage \in {"valued", "recorded"}, Valued(evaluatedAt)
                 PROVE  RankIsPointInTime
      BY DEF RankIsPointInTime
    <2>1. verdict = RightVerdict(candidates, onRecord, evaluatedAt)  BY DEF FiltersInv, JudgedRight
    <2> QED  BY <2>1 DEF RankIsPointInTime, RightVerdict, Earlier, SessionsIn, SessionsAfter, InWindow, NotAbove
  <1> QED  BY <1>1, <1>2, FiltersStart, PTL DEF FiltersSpec
================================================================================
