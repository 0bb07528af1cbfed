----------------------------- MODULE MarketInputs -----------------------------
(***************************************************************************)
(* What a step of a live source decides from the hour: it asks the         *)
(* calendar, feeds the trend detector, closes the position if it must and  *)
(* buys if it may (src/src/app.rs, step and what it calls; pattern.rs).    *)
(* Prices are left out: the direction of a full window is a choice; so is   *)
(* the clock reference, without which EndStep is all an entry comes to.     *)
(*                                                                         *)
(* Steps are seconds apart and the instants below are minutes, so while    *)
(* the program runs each instant sees a whole step, and one of the many it *)
(* really sees is enough: Instants is what bounds the samples of a day.    *)
(***************************************************************************)
EXTENDS MarketCalendar, SequencesExt

CONSTANTS
    Instants,       \* bound: the minutes of the day that matter
    LastDay,        \* bound: the days
    Directions,     \* Up and Down
    Capacity, MinSamples, MinExpiry,
    Faults          \* bound: whether frames and sales fail and the program stops

ASSUME SignalAssumption ==
    /\ Instants # {} /\ Instants \subseteq 0..1439
    /\ Capacity \in Nat /\ MinSamples \in 1..Capacity /\ MinExpiry \in Nat
    /\ Faults \in BOOLEAN

VARIABLES
    pc,             \* where the step is: "idle", "stepped", "frame", "exit", "entry" or "down"
    lastOpen, lastLunch,
    detector,       \* [samples: times, direction, count]
    trend,          \* [direction, confirmed] of this step, forgotten with it
    lastTraded,
    position,       \* [expiry: day, entryDays] or NoPosition
    halted,
    closedSeen,     \* history: when the program last knew the market closed, or knew nothing
    lunchSeen       \* history: when it last knew of lunch

app == <<lastOpen, lastLunch, detector, trend, lastTraded, position, halted>>
hour == <<calendar, closedSeen, lunchSeen>>
vars == <<hour, now, pc, app>>

NoPosition == [expiry |-> -1, entryDays |-> -1]
NoTrend == [direction |-> "Neutral", confirmed |-> FALSE]
NewDetector == [samples |-> <<>>, direction |-> "Neutral", count |-> 0]
ResetConfirmation(d) == [d EXCEPT !.direction = "Neutral", !.count = 0]

Init ==
    /\ CalendarInit
    /\ now = Min(Instants)
    /\ pc = "idle"
    /\ lastOpen = "Unknown" /\ lastLunch = FALSE
    /\ detector = NewDetector /\ trend = NoTrend /\ lastTraded = "None"
    /\ position = NoPosition /\ halted = FALSE
    /\ closedSeen = now /\ lunchSeen = -1

-----------------------------------------------------------------------------
(* The beginning of a step                                                 *)

\* Mutant: a start in the middle of a session trusts the detector of the snapshot.
OpeningTransitionSeen(s) == s.open /\ lastOpen = "Closed"

OpeningTransition(s) == s.open /\ lastOpen # "Open"

\* Mutant: the end of lunch is missed when nobody asked in its last minute.
LunchEndedOnTime(s) == lastLunch /\ Minute(now) = LunchEnd

LunchEnded(s) == lastLunch /\ ~s.lunch

\* apply_market_schedule
ApplySchedule(s) ==
    /\ lastOpen' = IF s.open THEN "Open" ELSE "Closed"
    /\ lastLunch' = s.lunch
    /\ detector' = CASE OpeningTransition(s) -> NewDetector
                     [] ~OpeningTransition(s) /\ LunchEnded(s) -> ResetConfirmation(detector)
                     [] OTHER -> detector
    /\ lastTraded' = IF OpeningTransition(s) \/ LunchEnded(s) THEN "None" ELSE lastTraded
    /\ UNCHANGED trend
    /\ pc' = IF s.open THEN "frame" ELSE "stepped"
    /\ closedSeen' = IF s.open THEN closedSeen ELSE now
    /\ lunchSeen' = IF s.lunch THEN now ELSE lunchSeen

\* refresh_market_schedule
BeginStep ==
    /\ pc = "idle"
    /\ AskStatus
    /\ ApplySchedule(schedule')
    /\ UNCHANGED <<now, position, halted>>

StepEnds == pc' = "stepped" /\ trend' = NoTrend

\* next_frame fails, or the frame is not valid.
FrameFails ==
    /\ pc = "frame" /\ Faults
    /\ pc' = "stepped"
    /\ UNCHANGED <<hour, now, app>>

\* The frame is older than max_market_data_age_secs.
FrameIsStale ==
    /\ pc = "frame" /\ Faults
    /\ pc' = "stepped" /\ halted' = TRUE
    /\ UNCHANGED <<hour, now, lastOpen, lastLunch, detector, trend, lastTraded, position>>

Warm(samples) == Len(samples) >= Capacity

\* TrendDetector::push
Push(d, direction) ==
    LET samples == Append(IF Len(d.samples) = Capacity THEN Tail(d.samples) ELSE d.samples, now)
        counted == IF direction = d.direction THEN d.count + 1 ELSE 1
    IN  [samples |-> samples, direction |-> direction,
         count |-> IF direction = "Neutral" THEN 0 ELSE Min({counted, MinSamples})]

ReceiveFrame ==
    /\ pc = "frame"
    /\ \E direction \in Directions \cup {"Neutral"} :
        /\ direction # "Neutral" => Len(detector.samples) + 1 >= Capacity
        /\ detector' = Push(detector, direction)
    /\ trend' = [direction |-> detector'.direction,
                 confirmed |-> detector'.direction # "Neutral" /\ Warm(detector'.samples)
                               /\ detector'.count >= MinSamples]
    /\ lastTraded' = IF trend'.confirmed THEN lastTraded ELSE "None"
    /\ pc' = IF position = NoPosition THEN "entry" ELSE "exit"
    /\ UNCHANGED <<hour, now, lastOpen, lastLunch, position, halted>>

-----------------------------------------------------------------------------
(* evaluate_exit                                                           *)

MustClose == schedule.forceExit \/ (schedule.expiryExit /\ position.expiry = Day(now))

ExitLeaves == UNCHANGED <<hour, now, lastOpen, lastLunch, lastTraded>>

\* The chain has no quote for the series.
SeriesMissing ==
    /\ pc = "exit"
    /\ halted' = (halted \/ schedule.forceExit \/ (schedule.expiryExit /\ position.entryDays = 0))
    /\ pc' = "entry"
    /\ UNCHANGED <<detector, position, trend>> /\ ExitLeaves

QuoteStale ==
    /\ pc = "exit" /\ Faults
    /\ halted' = TRUE /\ pc' = "entry"
    /\ UNCHANGED <<detector, position, trend>> /\ ExitLeaves

\* Without a bid an exit that must be halts, any other ends the step with an error.
NoBid ==
    /\ pc = "exit"
    /\ halted' = (halted \/ MustClose)
    /\ IF MustClose THEN pc' = "entry" /\ UNCHANGED trend ELSE StepEnds
    /\ UNCHANGED <<detector, position>> /\ ExitLeaves

Hold ==
    /\ pc = "exit" /\ ~MustClose
    /\ pc' = "entry"
    /\ UNCHANGED <<detector, position, halted, trend>> /\ ExitLeaves

\* close_position, because it must or for a reason of should_exit; a reversal
\* starts the confirmation again, sold or not.
Sell ==
    /\ pc = "exit"
    /\ \E sold \in IF Faults THEN BOOLEAN ELSE {TRUE}, reversal \in BOOLEAN :
        /\ position' = IF sold THEN NoPosition ELSE position
        /\ reversal => ~MustClose
        /\ detector' = IF reversal THEN ResetConfirmation(detector) ELSE detector
    /\ pc' = "entry"
    /\ UNCHANGED <<halted, trend>> /\ ExitLeaves

-----------------------------------------------------------------------------
(* The entry, and what happens between steps                               *)

MayBuy ==
    /\ position = NoPosition /\ trend.confirmed /\ schedule.entries /\ ~halted
    /\ lastTraded # trend.direction

\* select_option_with_criteria: the nearest expiry that outlasts the break is
\* the one with the least room.
MinExpiryDays == IF plan.weekendRisk THEN Max({MinExpiry, schedule.days}) ELSE MinExpiry

\* evaluate_entry ends in a purchase,
Buy ==
    /\ pc = "entry" /\ MayBuy
    /\ position' = [expiry |-> Day(now) + MinExpiryDays, entryDays |-> MinExpiryDays]
    /\ lastTraded' = trend.direction
    /\ StepEnds
    /\ UNCHANGED <<hour, now, lastOpen, lastLunch, detector, halted>>

\* in a rejection by the meta filter, which uses up the signal,
RejectSignal ==
    /\ pc = "entry" /\ MayBuy
    /\ lastTraded' = trend.direction
    /\ StepEnds
    /\ UNCHANGED <<hour, now, lastOpen, lastLunch, detector, position, halted>>

\* or in nothing: no option is good enough, or there was nothing to do.
EndStep ==
    /\ pc = "entry"
    /\ StepEnds
    /\ UNCHANGED <<hour, now, lastOpen, lastLunch, detector, lastTraded, position, halted>>

\* The operator releases the halt.
Resume ==
    /\ pc = "stepped" /\ halted /\ Faults
    /\ halted' = FALSE
    /\ UNCHANGED <<hour, now, pc, lastOpen, lastLunch, detector, trend, lastTraded, position>>

\* A stop between steps.
Stop ==
    /\ pc = "stepped" /\ Faults
    /\ pc' = "down"
    /\ UNCHANGED <<hour, now, app>>

\* The snapshot keeps the detector, the signal and the position.
Start ==
    /\ pc = "down"
    /\ RestartCalendar
    /\ lastOpen' = "Unknown" /\ lastLunch' = FALSE /\ trend' = NoTrend
    /\ pc' = "idle"
    /\ closedSeen' = now
    /\ UNCHANGED <<now, lunchSeen, detector, lastTraded, position, halted>>

\* Time goes on, once the instant has seen its step; a retry window that is
\* over is as good as none.
NextInstant ==
    LET later == {d * 1440 + i : d \in Day(now)..LastDay, i \in Instants}
    IN  {t \in later : t > now}

Tick ==
    /\ pc \in {"stepped", "down"}
    /\ NextInstant # {}
    /\ now' = Min(NextInstant)
    /\ pc' = IF pc = "down" THEN pc ELSE "idle"
    /\ retryAfter' = [y \in Years |-> IF retryAfter[y] > now' THEN retryAfter[y] ELSE 0]
    /\ UNCHANGED <<plan, holidays, file, schedule, closedSeen, lunchSeen, app>>

Next ==
    \/ BeginStep \/ FrameFails \/ FrameIsStale \/ ReceiveFrame
    \/ SeriesMissing \/ QuoteStale \/ NoBid \/ Hold \/ Sell
    \/ Buy \/ RejectSignal \/ EndStep
    \/ Resume \/ Stop \/ Start \/ Tick

Spec == Init /\ [][Next]_vars
=============================================================================
