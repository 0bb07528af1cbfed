------------------------ MODULE MarketInputsProperties ------------------------
(***************************************************************************)
(* What MarketInputs must keep, against the calendar as it really is.      *)
(***************************************************************************)
EXTENDS MarketInputs

-----------------------------------------------------------------------------
(* The calendar as it is, whatever the program could find out about it.    *)

SessionOn(d) ==
    /\ Session(d) # "Closed"
    /\ Explicit(d) \/ (~Weekend(d) /\ d \notin plan.holidays)
InSession(t) ==
    /\ SessionOn(Day(t))
    /\ Hours(Day(t))[1] <= Minute(t) /\ Minute(t) < Hours(Day(t))[2]
NextSession(d) == CHOOSE n \in 1..SearchDays : SessionOn(d + n) /\ \A k \in 1..(n - 1) : ~SessionOn(d + k)
BreakFollows(d) == ~SessionOn(d + 1)

\* A purchase happens inside a real session, after its entry delay, not while
\* the signal is confirmed again after lunch, and before a real break neither
\* late nor in a series that expires first: whatever the feed answered, the
\* cache held or the retry window hid (MarketCalendar::status fails closed).
BuysByTheCalendar ==
    [][(position = NoPosition /\ position' # NoPosition) =>
        /\ InSession(now)
        /\ Minute(now) >= Hours(Day(now))[1] + EntryDelay
        /\ plan.lunch => Minute(now) \notin LunchEnd..(LunchEnd + Confirmation - 1)
        /\ plan.weekendRisk =>
            /\ BreakFollows(Day(now)) => Minute(now) < LastEntry
            /\ position'.expiry >= Day(now) + NextSession(Day(now))]_vars

\* The window behind a purchase was sampled since the market was last seen
\* closed and since the last start, and its confirmation since lunch was last
\* seen (apply_market_schedule resets the detector, or its confirmation).
BuysOnAFreshSignal ==
    [][(position = NoPosition /\ position' # NoPosition) =>
        /\ \A i \in 1..Capacity : detector.samples[i] >= closedSeen
        /\ ~schedule.lunch =>
            \A i \in (Capacity - MinSamples + 1)..Capacity : detector.samples[i] >= lunchSeen
      ]_vars

-----------------------------------------------------------------------------
(* What the documents promise and the code does not keep.                  *)

\* README.md:213: a series that expires today is closed from
\* EXPIRY_DAY_FORCE_EXIT_TIME on, and if the series is missing an operational
\* block is on.  evaluate_exit looks at the days to expiry the position had
\* when it was bought.
ExpiringPositionIsClosedOrBlocked ==
    pc = "stepped" /\ schedule.expiryExit /\ position.expiry = Day(now) => halted
=============================================================================
