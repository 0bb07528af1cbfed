-------------------------- MODULE MarketInputsProofs --------------------------
(***************************************************************************)
(* What a purchase relies on, for any calendar, policy, hours of the       *)
(* program and size of the window: the calendar as it really is, whatever  *)
(* the feed answered, and a signal sampled since the last interruption.    *)
(***************************************************************************)
EXTENDS MarketInputsProperties, FoldFacts, TLAPS

-----------------------------------------------------------------------------
(* The least and the greatest of a set of numbers                          *)

LEMMA MaxOfTwo == ASSUME NEW a \in Nat, NEW b \in Nat PROVE Max({a, b}) \in Nat /\ a <= Max({a, b}) /\ b <= Max({a, b})
  <1>1. \E m \in {a, b} : \A k \in {a, b} : m >= k  OBVIOUS
  <1> QED  BY <1>1 DEF Max

LEMMA MinOfTwo == ASSUME NEW a \in Nat, NEW b \in Nat PROVE Min({a, b}) \in Nat /\ Min({a, b}) <= a /\ Min({a, b}) <= b
  <1>1. {a, b} \in SUBSET Nat /\ {a, b} # {}  OBVIOUS
  <1> QED  BY <1>1, MinIn

-----------------------------------------------------------------------------
(* What an answer of the calendar says of the calendar as it is            *)

Answers == [open : BOOLEAN, entries : BOOLEAN, forceExit : BOOLEAN, expiryExit : BOOLEAN,
            days : Int, lunch : BOOLEAN, reconfirming : BOOLEAN]

LEMMA RegularIs ==
    ASSUME NEW d, NEW m
    PROVE  LET s == Regular(d, m) IN
           /\ s \in Answers
           /\ s.entries => s.open
           /\ s.open => /\ ~(Weekend(d) /\ ~Explicit(d))
                        /\ ~(m < Hours(d)[1]) /\ ~(m >= Hours(d)[2])
           /\ s.entries => m >= Hours(d)[1] + EntryDelay
  <1>1. Closed \in Answers /\ ~Closed.open /\ ~Closed.entries  BY DEF Closed, Answers
  <1> DEFINE delayed == m >= Hours(d)[1] + EntryDelay
             s == [Open EXCEPT !.entries = delayed]
  <1>2. Open \in Answers /\ Open.open
    <2> DEFINE opened == [Closed EXCEPT !.open = TRUE]
               entering == [opened EXCEPT !.entries = TRUE]
    <2>1. opened \in Answers /\ opened.open  BY <1>1 DEF Answers
    <2>2. Open = [entering EXCEPT !.days = 1]  BY DEF Open
    <2> HIDE DEF opened
    <2>3. entering \in Answers /\ entering.open  BY <2>1 DEF Answers
    <2> HIDE DEF entering
    <2> QED  BY <2>2, <2>3 DEF Answers
  <1>3. s \in Answers /\ s.open /\ (s.entries <=> delayed)
    <2>1. delayed \in BOOLEAN  OBVIOUS
    <2> HIDE DEF delayed
    <2> QED  BY <1>2, <2>1 DEF Answers
  <1> HIDE DEF s
  <1> QED  BY <1>1, <1>3 DEF Regular, s

LEMMA RiskPolicyIs ==
    ASSUME NEW s \in Answers, NEW m, NEW days \in Int
    PROVE  LET r == WithRiskPolicy(s, m, days) IN
           /\ r \in Answers
           /\ r.open = s.open /\ r.days = days /\ r.lunch = s.lunch
           /\ r.entries => s.entries /\ (days > 1 => m < LastEntry)
  <1> DEFINE expiry == m >= ExpiryExit
             force == days > 1 /\ m >= ForceExit
             early == days > 1 => m < LastEntry /\ m < ForceExit
  <1>1. expiry \in BOOLEAN /\ force \in BOOLEAN /\ early \in BOOLEAN  OBVIOUS
  <1>2. early => (days > 1 => m < LastEntry)  OBVIOUS
  <1>3. WithRiskPolicy(s, m, days) = [s EXCEPT !.days = days, !.expiryExit = expiry,
                                               !.forceExit = force, !.entries = s.entries /\ early]
    BY DEF WithRiskPolicy, Answers
  <1> HIDE DEF expiry, force, early
  <1> QED  BY <1>1, <1>2, <1>3 DEF Answers

LEMMA LunchPolicyIs ==
    ASSUME NEW s \in Answers, NEW m
    PROVE  LET r == WithLunchPolicy(s, m) IN
           /\ r \in Answers
           /\ r.open = s.open /\ r.days = s.days
           /\ r.entries => s.entries /\ (plan.lunch => ~(m >= LunchEnd /\ m < LunchEnd + Confirmation))
  <1> DEFINE lunch == m >= LunchStart /\ m < LunchEnd
             again == m >= LunchEnd /\ m < LunchEnd + Confirmation
  <1>1. lunch \in BOOLEAN /\ again \in BOOLEAN  OBVIOUS
  <1>2. WithLunchPolicy(s, m) = IF ~plan.lunch THEN s
                                ELSE [s EXCEPT !.lunch = lunch, !.reconfirming = again, !.entries = s.entries /\ ~again]
    BY DEF WithLunchPolicy, Answers
  <1>3. (plan.lunch => ~(m >= LunchEnd /\ m < LunchEnd + Confirmation)) <=> (plan.lunch => ~again)  OBVIOUS
  <1> HIDE DEF lunch, again
  <1>4. CASE plan.lunch  BY <1>1, <1>2, <1>3, <1>4 DEF Answers
  <1>5. CASE ~plan.lunch  BY <1>2, <1>3, <1>5
  <1> QED  BY <1>4, <1>5

\* A day the search ends at is a session, and no year it could not check hid one
\* before.
FirstSession(d, n) == SessionOn(d + n) /\ \A k \in 1..(n - 1) : ~SessionOn(d + k)

LEMMA SearchFindsTheFirst ==
    ASSUME NEW d \in Int, NEW available, DaysUntilNextSession(d, available) # Unknown
    PROVE  /\ DaysUntilNextSession(d, available) \in 1..SearchDays
           /\ FirstSession(d, DaysUntilNextSession(d, available))
  <1> DEFINE found == StopsAt(d, available)
             n == Min(found)
  <1>1. found # {} /\ DaysUntilNextSession(d, available) = n
        /\ ~Uncovered(d + n) /\ Year(d + n) \in available
    BY DEF DaysUntilNextSession
  <1>2. found \in SUBSET (1..SearchDays) /\ found \in SUBSET Nat
    BY DEF StopsAt, SearchDays
  <1>3. n \in found /\ \A k \in found : n <= k  BY <1>1, <1>2, MinIn
  <1> HIDE DEF n
  <1>4. n \in 1..SearchDays /\ n \in Nat /\ Stops(d + n, available)  BY <1>2, <1>3 DEF StopsAt
  <1>5. SessionOn(d + n)  BY <1>1, <1>4 DEF Stops, MayTrade, SessionOn
  <1>6. \A k \in 1..(n - 1) : ~SessionOn(d + k)
    <2> SUFFICES ASSUME NEW k \in 1..(n - 1) PROVE ~SessionOn(d + k)  OBVIOUS
    <2>1. k \in 1..SearchDays /\ k \notin found
      <3>1. k \in Nat /\ k < n /\ k \in 1..SearchDays  BY <1>4 DEF SearchDays
      <3> HIDE DEF found
      <3> QED  BY <1>3, <1>4, <3>1
    <2>2. ~Stops(d + k, available)  BY <2>1 DEF StopsAt
    <2> QED  BY <2>2 DEF Stops, MayTrade, SessionOn
  <1> QED  BY <1>1, <1>4, <1>5, <1>6 DEF FirstSession

\* There is one next session.
LEMMA FirstIsNext ==
    ASSUME NEW d \in Int, NEW n \in 1..SearchDays, FirstSession(d, n)
    PROVE  NextSession(d) = n
  <1>1. \A m \in 1..SearchDays : FirstSession(d, m) => m = n
    <2> SUFFICES ASSUME NEW m \in 1..SearchDays, FirstSession(d, m) PROVE m = n  OBVIOUS
    <2>1. m \in Nat /\ n \in Nat /\ 1 <= m /\ 1 <= n  BY DEF SearchDays
    <2>2. ~(m < n)
      <3> SUFFICES ASSUME m < n PROVE FALSE  OBVIOUS
      <3>1. m \in 1..(n - 1)  BY <2>1
      <3> QED  BY <3>1 DEF FirstSession
    <2>3. ~(n < m)
      <3> SUFFICES ASSUME n < m PROVE FALSE  OBVIOUS
      <3>1. n \in 1..(m - 1)  BY <2>1
      <3> QED  BY <3>1 DEF FirstSession
    <2> QED  BY <2>1, <2>2, <2>3
  <1> QED  BY <1>1, Zenon DEF NextSession, FirstSession

\* What an answer that lets enter says of the day, the hour and, if it looks at
\* breaks, the next session.
IsTrue(s, t) ==
    s.entries =>
    /\ InSession(t)
    /\ Minute(t) >= Hours(Day(t))[1] + EntryDelay
    /\ plan.lunch => Minute(t) \notin LunchEnd..(LunchEnd + Confirmation - 1)
    /\ plan.weekendRisk => /\ s.days \in 1..SearchDays /\ FirstSession(Day(t), s.days)
                           /\ BreakFollows(Day(t)) => Minute(t) < LastEntry

LEMMA AnswerIsTrue == ASSUME NEW t \in Nat, NEW available PROVE IsTrue(Status(t, available), t)
  <1> SUFFICES ASSUME Status(t, available).entries PROVE IsTrue(Status(t, available), t)
    BY DEF IsTrue
  <1> DEFINE d == Day(t)
             m == Minute(t)
             days == DaysUntilNextSession(d, available)
             regular == Regular(d, m)
             risky == IF plan.weekendRisk THEN WithRiskPolicy(regular, m, days) ELSE regular
  <1>1. d \in Int /\ m \in Nat /\ days \in Int
    <2>1. d \in Int /\ m \in Nat  BY DEF Day, Minute
    <2>2. CASE days # Unknown  BY <2>1, <2>2, SearchFindsTheFirst DEF SearchDays
    <2>3. CASE days = Unknown  BY <2>1, <2>3 DEF Unknown
    <2> HIDE DEF d, m, days
    <2> QED  BY <2>2, <2>3
  <1>2. ~Closed.entries  BY DEF Closed
  <1>3. /\ OpenBefore(t) /\ Known(available, d) /\ (plan.weekendRisk => days # Unknown)
        /\ Status(t, available) = WithLunchPolicy(risky, m)
    BY <1>2 DEF Status
  <1>4. /\ regular \in Answers
        /\ regular.open => ~(Weekend(d) /\ ~Explicit(d)) /\ ~(m < Hours(d)[1]) /\ ~(m >= Hours(d)[2])
        /\ regular.entries => regular.open
        /\ regular.entries => m >= Hours(d)[1] + EntryDelay
    BY RegularIs
  <1>5. ~Uncovered(d) /\ Session(d) # "Closed"  BY <1>3 DEF OpenBefore
  <1> HIDE DEF d, m, days, regular
  <1>6. /\ risky \in Answers /\ (risky.entries => regular.entries)
        /\ plan.weekendRisk => risky.days = days /\ (risky.entries => (days > 1 => m < LastEntry))
    <2>1. CASE plan.weekendRisk  BY <1>1, <1>4, <2>1, RiskPolicyIs
    <2>2. CASE ~plan.weekendRisk  BY <1>4, <2>2
    <2> QED  BY <2>1, <2>2
  <1> HIDE DEF risky
  <1>7. /\ Status(t, available).days = risky.days /\ risky.entries
        /\ plan.lunch => ~(m >= LunchEnd /\ m < LunchEnd + Confirmation)
    BY <1>3, <1>6, LunchPolicyIs
  <1>8. /\ ~(Weekend(d) /\ ~Explicit(d)) /\ ~(m < Hours(d)[1]) /\ ~(m >= Hours(d)[2])
        /\ m >= Hours(d)[1] + EntryDelay
    BY <1>4, <1>6, <1>7
  <1>9. SessionOn(d)  BY <1>3, <1>5, <1>8 DEF Known, SessionOn
  <1>10. Hours(d)[1] \in Nat /\ Hours(d)[2] \in Nat
    BY DEF Hours, SpecialHours, MarketOpen, MarketClose
  <1>11. InSession(t)
    <2>1. Hours(d)[1] <= m /\ m < Hours(d)[2]  BY <1>1, <1>8, <1>10
    <2> QED  BY <1>9, <2>1 DEF InSession, d, m
  <1>12. plan.lunch => m \notin LunchEnd..(LunchEnd + Confirmation - 1)
    BY <1>1, <1>7, CalendarAssumption
  <1>13. plan.weekendRisk => /\ risky.days \in 1..SearchDays /\ FirstSession(d, risky.days)
                             /\ BreakFollows(d) => m < LastEntry
    <2> SUFFICES ASSUME plan.weekendRisk
                 PROVE  /\ risky.days \in 1..SearchDays /\ FirstSession(d, risky.days)
                        /\ BreakFollows(d) => m < LastEntry
      OBVIOUS
    <2>1. days # Unknown /\ risky.days = days /\ (days > 1 => m < LastEntry)  BY <1>3, <1>6, <1>7
    <2>2. days \in 1..SearchDays /\ FirstSession(d, days)
      BY <1>1, <2>1, SearchFindsTheFirst DEF days
    <2>3. BreakFollows(d) => days # 1  BY <2>2 DEF FirstSession, BreakFollows
    <2>4. days \in Nat /\ 1 <= days  BY <2>2 DEF SearchDays
    <2> QED  BY <2>1, <2>2, <2>3, <2>4
  <1> QED  BY <1>7, <1>8, <1>11, <1>12, <1>13 DEF d, m, IsTrue

\* What is true of an answer stays true while the calendar does not change.
LEMMA TruthStays ==
    ASSUME IsTrue(schedule', now), plan' = plan, now' = now
    PROVE  IsTrue(schedule, now)'
  <1>1. \A d : SessionOn(d)' <=> SessionOn(d)
    BY DEF SessionOn, Explicit, Session, Weekend
  <1>2. \A d, n : FirstSession(d, n)' <=> FirstSession(d, n)  BY <1>1 DEF FirstSession
  <1>3. \A d : Hours(d)' = Hours(d)  BY DEF Hours, Session
  <1>4. /\ Day(now)' = Day(now) /\ Minute(now)' = Minute(now)  BY DEF Day, Minute
  <1>5. InSession(now)' <=> InSession(now)  BY <1>1, <1>3, <1>4 DEF InSession
  <1>6. \A d : BreakFollows(d)' <=> BreakFollows(d)  BY <1>1 DEF BreakFollows
  <1> QED  BY <1>2, <1>3, <1>4, <1>5, <1>6 DEF IsTrue

-----------------------------------------------------------------------------
(* What a step relies on                                                   *)

InStep == {"frame", "exit", "entry"}
Detectors == [samples : Seq(Nat), direction : Directions \cup {"Neutral"}, count : Nat]

\* The samples from one on are no older than what was seen.
Since(samples, first, seen) == \A i \in first..Len(samples) : samples[i] >= seen

InputsTypes ==
    /\ now \in Nat /\ closedSeen \in Nat /\ lunchSeen \in Int
    /\ closedSeen <= now /\ lunchSeen <= now
    /\ detector \in Detectors

\* The confirmation counts samples of the window.
WindowHolds(d) == Len(d.samples) <= Capacity /\ d.count <= MinSamples /\ d.count <= Len(d.samples)

\* Within a step the schedule is the answer for the hour it is, and the market
\* and lunch are remembered as it says.
StepFollows ==
    pc \in InStep => IsTrue(schedule, now) /\ lastOpen = "Open" /\ lastLunch = schedule.lunch

WindowIsFresh == lastOpen = "Open" => Since(detector.samples, 1, closedSeen)

\* The samples of the confirmation are its last ones.
Confirming(d) == Len(d.samples) - d.count + 1
ConfirmationIsFresh ==
    lastOpen = "Open" /\ ~lastLunch => Since(detector.samples, Confirming(detector), lunchSeen)

\* A trend confirmed in this step stays what the window showed, though an exit
\* starts the confirmation again.
SignalIsFresh ==
    pc \in {"exit", "entry"} /\ trend.confirmed =>
    /\ Len(detector.samples) = Capacity
    /\ ~lastLunch => Since(detector.samples, Capacity - MinSamples + 1, lunchSeen)

InputsInv ==
    /\ InputsTypes /\ WindowHolds(detector)
    /\ StepFollows /\ WindowIsFresh /\ ConfirmationIsFresh /\ SignalIsFresh

LEMMA NewIs ==
    /\ NewDetector \in Detectors /\ NewDetector.samples = <<>> /\ NewDetector.count = 0
    /\ WindowHolds(NewDetector)
    /\ \A from \in Nat, seen \in Int : Since(NewDetector.samples, from + 1, seen)
  <1>1. NewDetector.samples = <<>> /\ NewDetector.count = 0  BY DEF NewDetector
  <1>2. NewDetector \in Detectors  BY DEF NewDetector, Detectors
  <1>3. WindowHolds(NewDetector)  BY <1>1, SignalAssumption DEF WindowHolds
  <1>4. \A from \in Nat, seen \in Int : Since(<<>>, from + 1, seen)  BY DEF Since
  <1> QED  BY <1>1, <1>2, <1>3, <1>4

LEMMA ResetIs ==
    ASSUME NEW d \in Detectors, WindowHolds(d)
    PROVE  LET r == ResetConfirmation(d) IN
           /\ r \in Detectors /\ r.samples = d.samples /\ WindowHolds(r)
           /\ \A seen \in Int : Since(r.samples, Confirming(r), seen)
  <1> DEFINE r == ResetConfirmation(d)
  <1>1. r \in Detectors /\ r.samples = d.samples /\ r.count = 0  BY DEF ResetConfirmation, Detectors
  <1> HIDE DEF r
  <1>2. Len(d.samples) \in Nat  BY DEF Detectors
  <1>3. WindowHolds(r)  BY <1>1, <1>2, SignalAssumption DEF WindowHolds
  <1>4. Confirming(r) = Len(r.samples) + 1 /\ Len(r.samples) \in Nat  BY <1>1, <1>2 DEF Confirming
  <1>5. \A seen \in Int : Since(r.samples, Confirming(r), seen)  BY <1>4 DEF Since
  <1> QED  BY <1>1, <1>3, <1>5 DEF r

LEMMA AppendIs ==
    ASSUME NEW k \in Seq(Nat), NEW x \in Nat
    PROVE  /\ Append(k, x) \in Seq(Nat) /\ Len(k) \in Nat /\ Len(Append(k, x)) = Len(k) + 1
           /\ Append(k, x)[Len(k) + 1] = x
           /\ \A i \in 1..Len(k) : Append(k, x)[i] = k[i]
  OBVIOUS

\* A pushed sample is the last, and the rest keep their order.
LEMMA PushIs ==
    ASSUME NEW d \in Detectors, WindowHolds(d), NEW direction \in Directions \cup {"Neutral"}, now \in Nat
    PROVE  LET p == Push(d, direction) IN
           /\ p \in Detectors /\ WindowHolds(p)
           /\ \A seen \in Int : now >= seen =>
                /\ Since(d.samples, 1, seen) => Since(p.samples, 1, seen)
                /\ Since(d.samples, Confirming(d), seen) => Since(p.samples, Confirming(p), seen)
  <1> DEFINE kept == IF Len(d.samples) = Capacity THEN Tail(d.samples) ELSE d.samples
             gone == IF Len(d.samples) = Capacity THEN 1 ELSE 0
             counted == IF direction = d.direction THEN d.count + 1 ELSE 1
             count == IF direction = "Neutral" THEN 0 ELSE Min({counted, MinSamples})
             p == Push(d, direction)
  <1>1. /\ d.samples \in Seq(Nat) /\ d.count \in Nat /\ Len(d.samples) \in Nat
        /\ Len(d.samples) <= Capacity /\ d.count <= MinSamples /\ d.count <= Len(d.samples)
    BY DEF Detectors, WindowHolds
  <1>2. Capacity \in Nat /\ MinSamples \in Nat /\ 1 <= MinSamples /\ MinSamples <= Capacity
    BY SignalAssumption
  <1>3. /\ kept \in Seq(Nat) /\ gone \in Nat /\ Len(kept) = Len(d.samples) - gone
        /\ Len(kept) < Capacity /\ \A i \in 1..Len(kept) : kept[i] = d.samples[i + gone]
    <2>1. CASE Len(d.samples) = Capacity
      <3>1. d.samples # <<>>  BY <1>2, <2>1
      <3> QED  BY <1>1, <1>2, <2>1, <3>1
    <2>2. CASE Len(d.samples) # Capacity  BY <1>1, <1>2, <2>2
    <2> QED  BY <2>1, <2>2
  <1>4. counted \in Nat /\ counted <= d.count + 1  BY <1>1
  <1>5. count \in Nat /\ count <= MinSamples /\ count <= d.count + 1
    <2> HIDE DEF counted
    <2>1. Min({counted, MinSamples}) \in Nat /\ Min({counted, MinSamples}) <= counted
          /\ Min({counted, MinSamples}) <= MinSamples
      BY <1>2, <1>4, MinOfTwo
    <2> QED  BY <1>1, <1>2, <1>4, <2>1
  <1>6. count <= Len(kept) + 1
    <2> HIDE DEF count, kept
    <2>1. CASE Len(d.samples) = Capacity  BY <1>1, <1>2, <1>3, <1>5, <2>1
    <2>2. CASE Len(d.samples) # Capacity  BY <1>1, <1>2, <1>3, <1>5, <2>2
    <2> QED  BY <2>1, <2>2
  <1>7. p = [samples |-> Append(kept, now), direction |-> direction, count |-> count]
    BY DEF Push
  <1> HIDE DEF kept, counted, count, p
  <1>8. p.samples = Append(kept, now) /\ p.count = count /\ p.direction = direction  BY <1>7
  <1>9. /\ p.samples \in Seq(Nat) /\ Len(kept) \in Nat /\ Len(p.samples) = Len(kept) + 1
        /\ p.samples[Len(kept) + 1] = now
        /\ \A i \in 1..Len(kept) : p.samples[i] = kept[i]
    <2> DEFINE k == kept
               a == Append(k, now)
    <2>1. k \in Seq(Nat)  BY <1>3
    <2>2. p.samples = a  BY <1>8
    <2> HIDE DEF k
    <2>3. /\ a \in Seq(Nat) /\ Len(k) \in Nat /\ Len(a) = Len(k) + 1 /\ a[Len(k) + 1] = now
          /\ \A i \in 1..Len(k) : a[i] = k[i]
      BY <2>1, AppendIs
    <2> HIDE DEF a
    <2>4. /\ p.samples \in Seq(Nat) /\ Len(k) \in Nat /\ Len(p.samples) = Len(k) + 1
          /\ p.samples[Len(k) + 1] = now /\ \A i \in 1..Len(k) : p.samples[i] = k[i]
      BY <2>2, <2>3
    <2> QED  BY <2>4 DEF k
  <1>10. p \in Detectors  BY <1>5, <1>7, <1>8, <1>9 DEF Detectors
  <1>11. WindowHolds(p)
    <2>1. Len(p.samples) <= Capacity
      <3>1. Len(kept) < Capacity  BY <1>3
      <3>2. Len(p.samples) = Len(kept) + 1 /\ Len(kept) \in Nat  BY <1>9
      <3> QED  BY <1>2, <3>1, <3>2
    <2>2. p.count <= MinSamples /\ p.count <= Len(p.samples)  BY <1>5, <1>6, <1>8, <1>9
    <2> QED  BY <2>1, <2>2 DEF WindowHolds
  <1>12. ASSUME NEW seen \in Int, now >= seen, NEW from \in Nat \ {0}, NEW to \in Nat \ {0},
                Since(d.samples, from, seen), to + gone >= from
         PROVE  Since(p.samples, to, seen)
    <2> SUFFICES ASSUME NEW i \in to..Len(p.samples) PROVE p.samples[i] >= seen  BY DEF Since
    <2>1. CASE i = Len(kept) + 1  BY <1>9, <1>12, <2>1
    <2>2. CASE i # Len(kept) + 1
      <3>1. i \in 1..Len(kept) /\ i + gone \in from..Len(d.samples)
        BY <1>1, <1>3, <1>9, <1>12, <2>2
      <3>2. p.samples[i] = d.samples[i + gone]  BY <1>3, <1>9, <3>1
      <3>3. d.samples[i + gone] >= seen  BY <1>12, <3>1 DEF Since
      <3> QED  BY <3>2, <3>3
    <2> QED  BY <2>1, <2>2
  <1>13. ASSUME NEW seen \in Int, now >= seen, Since(d.samples, 1, seen) PROVE Since(p.samples, 1, seen)
    <2>1. 1 \in Nat \ {0} /\ 1 + gone >= 1  BY <1>3
    <2> QED  BY <1>12, <1>13, <2>1
  <1>14. ASSUME NEW seen \in Int, now >= seen, Since(d.samples, Confirming(d), seen)
         PROVE  Since(p.samples, Confirming(p), seen)
    <2>1. /\ Confirming(d) \in Nat \ {0} /\ Confirming(p) \in Nat \ {0}
          /\ Confirming(p) + gone >= Confirming(d)
      <3> DEFINE l == Len(d.samples)
                 k == Len(kept)
                 e == d.count
      <3>1. /\ l \in Nat /\ k \in Nat /\ gone \in Nat /\ count \in Nat /\ e \in Nat
            /\ k = l - gone /\ e <= l /\ count <= k + 1 /\ count <= e + 1
        BY <1>1, <1>3, <1>5, <1>6, <1>9
      <3>2. Confirming(p) = (k + 1) - count + 1 /\ Confirming(d) = l - e + 1
        BY <1>8, <1>9 DEF Confirming
      <3> HIDE DEF l, k, e, gone
      <3> QED  BY <3>1, <3>2
    <2> QED  BY <1>12, <1>14, <2>1
  <1> QED  BY <1>10, <1>11, <1>13, <1>14 DEF p

-----------------------------------------------------------------------------
(* The steps                                                               *)

\* Instants are numbers, and time goes on.
LEMMA TimeGoesOn == ASSUME now \in Nat, NextInstant # {} PROVE Min(NextInstant) \in Nat /\ Min(NextInstant) > now
  <1>1. \A d \in Int, i \in Instants : d * 1440 + i \in Int  BY SignalAssumption
  <1>2. NextInstant \in SUBSET Nat /\ \A t \in NextInstant : t > now
    <2> SUFFICES ASSUME NEW t \in NextInstant PROVE t \in Nat /\ t > now  OBVIOUS
    <2>1. PICK d \in Day(now)..LastDay, i \in Instants : t = d * 1440 + i /\ t > now
      BY DEF NextInstant
    <2>2. t \in Int  BY <1>1, <2>1
    <2> QED  BY <2>1, <2>2
  <1> QED  BY <1>2, MinIn

LEMMA InputsInit == Init => InputsInv
  <1> SUFFICES ASSUME Init PROVE InputsInv  OBVIOUS
  <1>1. now \in Nat
    <2>1. Instants \in SUBSET Nat /\ Instants # {}  BY SignalAssumption
    <2> QED  BY <2>1, MinIn DEF Init
  <1>2. detector \in Detectors /\ WindowHolds(detector)  BY NewIs DEF Init
  <1>3. InputsTypes  BY <1>1, <1>2 DEF Init, InputsTypes
  <1>4. pc = "idle" /\ lastOpen = "Unknown"  BY DEF Init
  <1> QED
    BY <1>2, <1>3, <1>4 DEF InputsInv, StepFollows, InStep, WindowIsFresh, ConfirmationIsFresh, SignalIsFresh

\* The beginning of a step: an opening forgets the window, the end of lunch the
\* confirmation, and a closed market ends the step.
LEMMA BeginKeeps == ASSUME InputsInv, BeginStep PROVE InputsInv'
  <1>1. PICK available : schedule' = Status(now, available)  BY DEF BeginStep, AskStatus
  <1>2. plan' = plan /\ now' = now /\ ApplySchedule(schedule')  BY DEF BeginStep, AskStatus
  <1>3. IsTrue(schedule, now)'
    <2>1. IsTrue(Status(now, available), now)  BY AnswerIsTrue DEF InputsInv, InputsTypes
    <2> QED  BY <1>1, <1>2, <2>1, TruthStays
  <1> DEFINE s == schedule'
  <1>4. /\ lastOpen' = IF s.open THEN "Open" ELSE "Closed"
        /\ lastLunch' = s.lunch
        /\ pc' = IF s.open THEN "frame" ELSE "stepped"
        /\ closedSeen' = IF s.open THEN closedSeen ELSE now
        /\ lunchSeen' = IF s.lunch THEN now ELSE lunchSeen
    BY <1>2 DEF ApplySchedule
  <1>5. \/ OpeningTransition(s) /\ detector' = NewDetector
        \/ ~OpeningTransition(s) /\ LunchEnded(s) /\ detector' = ResetConfirmation(detector)
        \/ ~OpeningTransition(s) /\ ~LunchEnded(s) /\ detector' = detector
    BY <1>2 DEF ApplySchedule
  <1> HIDE DEF s
  <1>6. detector \in Detectors /\ WindowHolds(detector)  BY DEF InputsInv, InputsTypes
  <1>7. detector' \in Detectors /\ WindowHolds(detector')  BY <1>5, <1>6, NewIs, ResetIs
  <1>8. now \in Nat /\ closedSeen \in Nat /\ lunchSeen \in Int /\ closedSeen <= now /\ lunchSeen <= now
    BY DEF InputsInv, InputsTypes
  <1>9. InputsTypes'  BY <1>2, <1>4, <1>7, <1>8 DEF InputsTypes
  <1>10. WindowHolds(detector)'  BY <1>7 DEF WindowHolds
  <1>11. StepFollows'
    <2>1. pc' \in InStep => lastOpen' = "Open"  BY <1>4 DEF InStep
    <2> QED  BY <1>3, <1>4, <2>1 DEF StepFollows, s
  <1>12. WindowIsFresh'
    <2> SUFFICES ASSUME s.open PROVE Since(detector'.samples, 1, closedSeen')
      BY <1>4 DEF WindowIsFresh, Since
    <2>1. closedSeen' = closedSeen  BY <1>4
    <2>2. CASE OpeningTransition(s)
      <3>1. detector' = NewDetector  BY <1>5, <2>2
      <3>2. Since(<<>>, 1, closedSeen)  BY DEF Since
      <3> QED  BY <2>1, <3>1, <3>2, NewIs
    <2>3. CASE ~OpeningTransition(s)
      <3>1. Since(detector.samples, 1, closedSeen)
        BY <2>3 DEF OpeningTransition, InputsInv, WindowIsFresh
      <3>2. detector'.samples = detector.samples  BY <1>5, <1>6, <2>3, ResetIs
      <3> QED  BY <2>1, <3>1, <3>2
    <2> QED  BY <2>2, <2>3
  <1>13. ConfirmationIsFresh'
    <2> SUFFICES ASSUME s.open, ~s.lunch PROVE Since(detector'.samples, Confirming(detector'), lunchSeen')
      BY <1>4 DEF ConfirmationIsFresh, Since, Confirming
    <2>1. lunchSeen' = lunchSeen /\ lunchSeen \in Int  BY <1>4, <1>8
    <2>2. CASE OpeningTransition(s)
      <3>1. detector' = NewDetector  BY <1>5, <2>2
      <3>2. Confirming(NewDetector) = 1  BY NewIs DEF Confirming
      <3>3. Since(<<>>, 1, lunchSeen)  BY DEF Since
      <3> QED  BY <2>1, <3>1, <3>2, <3>3, NewIs
    <2>3. CASE ~OpeningTransition(s) /\ LunchEnded(s)
      <3>1. detector' = ResetConfirmation(detector)  BY <1>5, <2>3
      <3> QED  BY <1>6, <2>1, <3>1, ResetIs
    <2>4. CASE ~OpeningTransition(s) /\ ~LunchEnded(s)
      <3>1. detector' = detector  BY <1>5, <2>4
      <3>2. Since(detector.samples, Confirming(detector), lunchSeen)
        BY <2>4 DEF OpeningTransition, LunchEnded, InputsInv, ConfirmationIsFresh
      <3> QED  BY <2>1, <3>1, <3>2
    <2> QED  BY <2>2, <2>3, <2>4
  <1>14. SignalIsFresh'  BY <1>4 DEF SignalIsFresh
  <1> QED  BY <1>9, <1>10, <1>11, <1>12, <1>13, <1>14 DEF InputsInv

\* A frame adds a sample, and a confirmed trend has the whole window behind it.
LEMMA ReceiveKeeps == ASSUME InputsInv, ReceiveFrame PROVE InputsInv'
  <1>1. pc = "frame" /\ lastOpen = "Open"  BY DEF ReceiveFrame, InputsInv, StepFollows, InStep
  <1>2. /\ plan' = plan /\ schedule' = schedule /\ now' = now
        /\ closedSeen' = closedSeen /\ lunchSeen' = lunchSeen
        /\ lastOpen' = lastOpen /\ lastLunch' = lastLunch
    BY DEF ReceiveFrame, hour, calendar
  <1>3. PICK direction \in Directions \cup {"Neutral"} : detector' = Push(detector, direction)
    BY DEF ReceiveFrame
  <1>4. /\ detector \in Detectors /\ WindowHolds(detector)
        /\ now \in Nat /\ closedSeen \in Nat /\ lunchSeen \in Int /\ closedSeen <= now /\ lunchSeen <= now
    BY DEF InputsInv, InputsTypes
  <1>5. /\ detector' \in Detectors /\ WindowHolds(detector')
        /\ Since(detector.samples, 1, closedSeen) => Since(detector'.samples, 1, closedSeen)
        /\ Since(detector.samples, Confirming(detector), lunchSeen)
           => Since(detector'.samples, Confirming(detector'), lunchSeen)
    <2>1. now >= closedSeen /\ now >= lunchSeen /\ closedSeen \in Int  BY <1>4
    <2> QED  BY <1>3, <1>4, <2>1, PushIs
  <1>6. InputsTypes'  BY <1>2, <1>4, <1>5 DEF InputsTypes
  <1>7. WindowHolds(detector)'  BY <1>5 DEF WindowHolds
  <1>8. IsTrue(schedule, now)' /\ lastLunch = schedule.lunch
    <2>1. IsTrue(schedule, now) /\ lastLunch = schedule.lunch  BY <1>1 DEF InputsInv, StepFollows, InStep
    <2>2. IsTrue(schedule', now)  BY <1>2, <2>1
    <2> QED  BY <1>2, <2>1, <2>2, TruthStays
  <1>9. StepFollows'  BY <1>1, <1>2, <1>8 DEF StepFollows
  <1>10. WindowIsFresh'
    <2>1. Since(detector'.samples, 1, closedSeen)  BY <1>1, <1>5 DEF InputsInv, WindowIsFresh
    <2> QED  BY <1>2, <2>1 DEF WindowIsFresh, Since
  <1>11. ~lastLunch => Since(detector'.samples, Confirming(detector'), lunchSeen)
    BY <1>1, <1>5 DEF InputsInv, ConfirmationIsFresh
  <1>12. ConfirmationIsFresh'  BY <1>2, <1>11 DEF ConfirmationIsFresh, Since, Confirming
  <1>13. SignalIsFresh'
    <2> SUFFICES ASSUME trend'.confirmed
                 PROVE  /\ Len(detector'.samples) = Capacity
                        /\ ~lastLunch' => Since(detector'.samples, Capacity - MinSamples + 1, lunchSeen')
      BY DEF SignalIsFresh, Since
    <2>1. Warm(detector'.samples) /\ detector'.count >= MinSamples  BY DEF ReceiveFrame
    <2> DEFINE l == Len(detector'.samples)
               c == detector'.count
    <2>2. l \in Nat /\ c \in Nat /\ l >= Capacity /\ l <= Capacity /\ c >= MinSamples /\ c <= MinSamples
      BY <1>5, <2>1 DEF Detectors, WindowHolds, Warm
    <2>3. Confirming(detector') = l - c + 1  BY DEF Confirming
    <2> HIDE DEF l, c
    <2>4. l = Capacity /\ c = MinSamples  BY <2>2, SignalAssumption
    <2> QED  BY <1>2, <1>11, <2>3, <2>4 DEF l
  <1> QED  BY <1>6, <1>7, <1>9, <1>10, <1>12, <1>13 DEF InputsInv

\* What comes after the frame leaves the window, and at most starts the
\* confirmation again.
LEMMA RestOfStepKeeps ==
    ASSUME InputsInv, pc \in InStep, UNCHANGED <<hour, now, lastOpen, lastLunch>>,
           detector' \in {detector, ResetConfirmation(detector)},
           pc' = "stepped" \/ (pc = "exit" /\ pc' = "entry" /\ trend' = trend)
    PROVE  InputsInv'
  <1>1. /\ plan' = plan /\ schedule' = schedule /\ now' = now
        /\ closedSeen' = closedSeen /\ lunchSeen' = lunchSeen
        /\ lastOpen' = lastOpen /\ lastLunch' = lastLunch
    BY DEF hour, calendar
  <1>2. /\ detector \in Detectors /\ WindowHolds(detector) /\ lunchSeen \in Int
    BY DEF InputsInv, InputsTypes
  <1>3. /\ detector' \in Detectors /\ WindowHolds(detector') /\ detector'.samples = detector.samples
        /\ detector' = detector \/ Since(detector'.samples, Confirming(detector'), lunchSeen)
    BY <1>2, ResetIs
  <1>4. InputsTypes'  BY <1>1, <1>3 DEF InputsInv, InputsTypes
  <1>5. WindowHolds(detector)'  BY <1>3 DEF WindowHolds
  <1>6. StepFollows'
    <2>1. IsTrue(schedule, now) /\ lastLunch = schedule.lunch /\ lastOpen = "Open"
      BY DEF InputsInv, StepFollows
    <2>2. IsTrue(schedule', now)  BY <1>1, <2>1
    <2>3. IsTrue(schedule, now)'  BY <1>1, <2>2, TruthStays
    <2> QED  BY <1>1, <2>1, <2>3 DEF StepFollows
  <1>7. WindowIsFresh'  BY <1>1, <1>3 DEF InputsInv, WindowIsFresh, Since
  <1>8. ConfirmationIsFresh'
    <2>1. lastOpen = "Open" /\ ~lastLunch => Since(detector'.samples, Confirming(detector'), lunchSeen)
      BY <1>3 DEF InputsInv, ConfirmationIsFresh
    <2> QED  BY <1>1, <2>1 DEF ConfirmationIsFresh, Since, Confirming
  <1>9. SignalIsFresh'  BY <1>1, <1>3 DEF InputsInv, SignalIsFresh, Since
  <1> QED  BY <1>4, <1>5, <1>6, <1>7, <1>8, <1>9 DEF InputsInv

\* Between steps nothing is relied on but what the program remembers.
LEMMA BetweenKeeps ==
    ASSUME InputsInv, pc' \notin InStep, detector' = detector,
           now' \in Nat, now' >= now, lunchSeen' = lunchSeen,
           \/ UNCHANGED <<closedSeen, lastOpen, lastLunch>>
           \/ closedSeen' = now /\ lastOpen' = "Unknown"
    PROVE  InputsInv'
  <1>1. /\ now \in Nat /\ closedSeen \in Nat /\ closedSeen <= now /\ lunchSeen \in Int /\ lunchSeen <= now
        /\ detector \in Detectors /\ WindowHolds(detector)
    BY DEF InputsInv, InputsTypes
  <1>2. InputsTypes'  BY <1>1 DEF InputsTypes
  <1>3. WindowHolds(detector)'  BY <1>1 DEF WindowHolds
  <1>4. StepFollows' /\ SignalIsFresh'  BY DEF StepFollows, SignalIsFresh, InStep
  <1>5. WindowIsFresh' /\ ConfirmationIsFresh'
    BY DEF InputsInv, WindowIsFresh, ConfirmationIsFresh, Since, Confirming
  <1> QED  BY <1>2, <1>3, <1>4, <1>5 DEF InputsInv

LEMMA InputsStep == ASSUME InputsInv, [Next]_vars PROVE InputsInv'
  <1>0. now \in Nat  BY DEF InputsInv, InputsTypes
  <1>1. CASE BeginStep  BY <1>1, BeginKeeps
  <1>2. CASE ReceiveFrame  BY <1>2, ReceiveKeeps
  <1>3. CASE FrameFails \/ FrameIsStale
    <2>1. UNCHANGED <<hour, now, lastOpen, lastLunch>> /\ detector' = detector
          /\ pc \in InStep /\ pc' = "stepped"
      BY <1>3 DEF FrameFails, FrameIsStale, app, InStep
    <2> QED  BY <2>1, RestOfStepKeeps
  <1>4. CASE SeriesMissing \/ QuoteStale \/ NoBid \/ Hold \/ Sell
    <2>1. /\ UNCHANGED <<hour, now, lastOpen, lastLunch>> /\ pc = "exit" /\ pc \in InStep
          /\ detector' \in {detector, ResetConfirmation(detector)}
          /\ pc' = "stepped" \/ (pc' = "entry" /\ trend' = trend)
      BY <1>4 DEF SeriesMissing, QuoteStale, NoBid, Hold, Sell, ExitLeaves, StepEnds, InStep
    <2> QED  BY <2>1, RestOfStepKeeps
  <1>5. CASE Buy \/ RejectSignal \/ EndStep
    <2>1. /\ UNCHANGED <<hour, now, lastOpen, lastLunch>> /\ pc \in InStep
          /\ detector' = detector /\ pc' = "stepped"
      BY <1>5 DEF Buy, RejectSignal, EndStep, StepEnds, InStep
    <2> QED  BY <2>1, RestOfStepKeeps
  <1>6. CASE Resume \/ Stop
    <2>1. /\ now' = now /\ detector' = detector /\ pc' \notin InStep
          /\ UNCHANGED <<closedSeen, lastOpen, lastLunch, lunchSeen>>
      BY <1>6 DEF Resume, Stop, hour, app, InStep
    <2> QED  BY <1>0, <2>1, BetweenKeeps
  <1>7. CASE Start
    <2>1. /\ now' = now /\ detector' = detector /\ pc' \notin InStep /\ lunchSeen' = lunchSeen
          /\ closedSeen' = now /\ lastOpen' = "Unknown"
      BY <1>7 DEF Start, InStep
    <2> QED  BY <1>0, <2>1, BetweenKeeps
  <1>8. CASE Tick
    <2>1. /\ now' = Min(NextInstant) /\ NextInstant # {} /\ detector' = detector /\ pc' \notin InStep
          /\ UNCHANGED <<closedSeen, lastOpen, lastLunch, lunchSeen>>
      BY <1>8 DEF Tick, app, InStep
    <2>2. now' \in Nat /\ now' >= now  BY <1>0, <2>1, TimeGoesOn
    <2> QED  BY <2>1, <2>2, BetweenKeeps
  <1>9. CASE UNCHANGED vars
    <2>1. /\ plan' = plan /\ schedule' = schedule /\ now' = now /\ pc' = pc
          /\ closedSeen' = closedSeen /\ lunchSeen' = lunchSeen /\ trend' = trend
          /\ lastOpen' = lastOpen /\ lastLunch' = lastLunch /\ detector' = detector
      BY <1>9 DEF vars, hour, app, calendar
    <2>2. pc \in InStep => IsTrue(schedule', now)  BY <2>1 DEF InputsInv, StepFollows
    <2>3. pc \in InStep => IsTrue(schedule, now)'  BY <2>1, <2>2, TruthStays
    <2>4. StepFollows'  BY <2>1, <2>3 DEF InputsInv, StepFollows
    <2>5. InputsTypes' /\ WindowHolds(detector)'  BY <2>1 DEF InputsInv, InputsTypes, WindowHolds
    <2>6. WindowIsFresh' /\ ConfirmationIsFresh' /\ SignalIsFresh'
      BY <2>1 DEF InputsInv, WindowIsFresh, ConfirmationIsFresh, SignalIsFresh, Since, Confirming
    <2> QED  BY <2>4, <2>5, <2>6 DEF InputsInv
  <1> QED  BY <1>1, <1>2, <1>3, <1>4, <1>5, <1>6, <1>7, <1>8, <1>9 DEF Next

\* What holds of the hour and the signal in every state of a run, for the
\* theorems about purchases (step, apply_market_schedule, TrendDetector::push).
LEMMA InputsHold == Spec => []InputsInv
  <1>1. Init => InputsInv  BY InputsInit
  <1>2. InputsInv /\ [Next]_vars => InputsInv'  BY InputsStep
  <1> QED  BY <1>1, <1>2, PTL DEF Spec

\* Only evaluate_entry opens a position.
Purchase == position = NoPosition /\ position' # NoPosition

LEMMA OnlyBuys ==
    ASSUME [Next]_vars, Purchase
    PROVE  /\ Buy
           /\ pc = "entry" /\ trend.confirmed /\ schedule.entries
           /\ position' = [expiry |-> Day(now) + MinExpiryDays, entryDays |-> MinExpiryDays]
  <1>1. Buy
    BY DEF Purchase, Next, vars, app, BeginStep, ApplySchedule, FrameFails, FrameIsStale, ReceiveFrame,
           SeriesMissing, QuoteStale, NoBid, Hold, Sell, RejectSignal, EndStep, Resume, Stop, Start, Tick
  <1> QED  BY <1>1 DEF Buy, MayBuy

\* A purchase is in a real session and after its delay, not while the signal is
\* confirmed again, and not late or in a series too short before a real break,
\* whatever the feed answered, the cache held or the retry window hid
\* (MarketCalendar::status, evaluate_entry).
THEOREM BuysFollowTheCalendar == Spec => BuysByTheCalendar
  <1>1. ASSUME InputsInv, [Next]_vars, Purchase
        PROVE  /\ InSession(now)
               /\ Minute(now) >= Hours(Day(now))[1] + EntryDelay
               /\ plan.lunch => Minute(now) \notin LunchEnd..(LunchEnd + Confirmation - 1)
               /\ plan.weekendRisk =>
                    /\ BreakFollows(Day(now)) => Minute(now) < LastEntry
                    /\ position'.expiry >= Day(now) + NextSession(Day(now))
    <2>1. /\ pc = "entry" /\ schedule.entries
          /\ position' = [expiry |-> Day(now) + MinExpiryDays, entryDays |-> MinExpiryDays]
      BY <1>1, OnlyBuys
    <2>2. IsTrue(schedule, now) /\ now \in Nat
      BY <1>1, <2>1 DEF InputsInv, InputsTypes, StepFollows, InStep
    <2>3. Day(now) \in Int  BY <2>2 DEF Day
    <2>4. position'.expiry = Day(now) + MinExpiryDays  BY <2>1
    <2>5. plan.weekendRisk => position'.expiry >= Day(now) + NextSession(Day(now))
      <3> SUFFICES ASSUME plan.weekendRisk PROVE position'.expiry >= Day(now) + NextSession(Day(now))
        OBVIOUS
      <3>1. schedule.days \in 1..SearchDays /\ FirstSession(Day(now), schedule.days)
        BY <2>1, <2>2 DEF IsTrue
      <3>2. NextSession(Day(now)) = schedule.days  BY <2>3, <3>1, FirstIsNext
      <3>3. schedule.days \in Nat  BY <3>1 DEF SearchDays
      <3> DEFINE least == Max({MinExpiry, schedule.days})
                 day == Day(now)
                 days == schedule.days
      <3>4. least \in Nat /\ days <= least  BY <3>3, SignalAssumption, MaxOfTwo
      <3>5. MinExpiryDays = least  BY DEF MinExpiryDays
      <3>6. day \in Int /\ days \in Nat /\ position'.expiry = day + least /\ NextSession(day) = days
        BY <2>3, <2>4, <3>2, <3>3, <3>5
      <3> HIDE DEF least, day, days
      <3>7. position'.expiry >= day + NextSession(day)  BY <3>4, <3>6
      <3> QED  BY <3>7 DEF day
    <2> QED  BY <2>1, <2>2, <2>5 DEF IsTrue
  <1>2. InputsInv /\ [Next]_vars =>
          [Purchase => /\ InSession(now)
                       /\ Minute(now) >= Hours(Day(now))[1] + EntryDelay
                       /\ plan.lunch => Minute(now) \notin LunchEnd..(LunchEnd + Confirmation - 1)
                       /\ plan.weekendRisk =>
                            /\ BreakFollows(Day(now)) => Minute(now) < LastEntry
                            /\ position'.expiry >= Day(now) + NextSession(Day(now))]_vars
    BY <1>1
  <1> QED  BY <1>2, InputsHold, PTL DEF Spec, BuysByTheCalendar, Purchase

\* The window behind a purchase was sampled since the market was last seen
\* closed and the last start, its confirmation since lunch was last seen
\* (apply_market_schedule, TrendDetector::push).
THEOREM BuysHaveAFreshSignal == Spec => BuysOnAFreshSignal
  <1>1. ASSUME InputsInv, [Next]_vars, Purchase
        PROVE  /\ \A i \in 1..Capacity : detector.samples[i] >= closedSeen
               /\ ~schedule.lunch =>
                    \A i \in (Capacity - MinSamples + 1)..Capacity : detector.samples[i] >= lunchSeen
    <2>1. pc = "entry" /\ trend.confirmed  BY <1>1, OnlyBuys
    <2>2. lastOpen = "Open" /\ lastLunch = schedule.lunch
      BY <1>1, <2>1 DEF InputsInv, StepFollows, InStep
    <2>3. /\ Len(detector.samples) = Capacity
          /\ ~schedule.lunch => Since(detector.samples, Capacity - MinSamples + 1, lunchSeen)
      BY <1>1, <2>1, <2>2 DEF InputsInv, SignalIsFresh
    <2>4. Since(detector.samples, 1, closedSeen)  BY <1>1, <2>2 DEF InputsInv, WindowIsFresh
    <2> QED  BY <2>3, <2>4 DEF Since
  <1>2. InputsInv /\ [Next]_vars =>
          [Purchase => /\ \A i \in 1..Capacity : detector.samples[i] >= closedSeen
                       /\ ~schedule.lunch =>
                            \A i \in (Capacity - MinSamples + 1)..Capacity : detector.samples[i] >= lunchSeen]_vars
    BY <1>1
  <1> QED  BY <1>2, InputsHold, PTL DEF Spec, BuysOnAFreshSignal, Purchase
=============================================================================
