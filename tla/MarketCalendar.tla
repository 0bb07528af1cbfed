---------------------------- MODULE MarketCalendar ----------------------------
(***************************************************************************)
(* When the market is open, and what the hour allows, for a live source    *)
(* (src/src/market_calendar.rs): the BYMA manifest, the civil holidays of  *)
(* each year with their memory, cache file and retry window, the search    *)
(* for the next session, the break, expiry and lunch policies.             *)
(*                                                                         *)
(* Time is minutes since the start of day 0.  A call of status is one      *)
(* action: it awaits the feed at most once for each year, and its timeout  *)
(* (10 s) is short against the retry window.                               *)
(***************************************************************************)
EXTENDS Integers, FiniteSets, FiniteSetsExt

CONSTANTS
    Plans,          \* what the calendars say and the policy is: see Plan below
    FirstDayOfYear2,
    EntryDelay, LastEntry, ForceExit, ExpiryExit,
    LunchStart, LunchEnd, Confirmation,
    FeedMayFail     \* bound: whether the holiday service may fail

MarketOpen == 630
MarketClose == 1020

\* Config::validate
TimesAreValid ==
    /\ MarketOpen <= LastEntry /\ LastEntry < ForceExit /\ ForceExit < MarketClose
    /\ MarketOpen <= ExpiryExit /\ ExpiryExit < 930
    /\ MarketOpen <= LunchStart /\ LunchStart < LunchEnd /\ LunchEnd + Confirmation <= MarketClose
    /\ EntryDelay <= 390

ASSUME CalendarAssumption ==
    /\ {FirstDayOfYear2, EntryDelay, LastEntry, ForceExit, ExpiryExit, LunchStart, LunchEnd,
        Confirmation} \subseteq Nat
    /\ TimesAreValid
    /\ FeedMayFail \in BOOLEAN

VARIABLES
    plan,           \* [weekday: of day 0, holidays: set of days, sessions: day -> kind,
                    \*  validUntil, required, weekendRisk, lunch]
    now,
    holidays,       \* years in memory
    file,           \* whether the cache file of each year is there and valid
    retryAfter,
    schedule        \* the last status

calendar == <<plan, holidays, file, retryAfter, schedule>>

Years == {1, 2}
SpecialHours == <<630, 780>>    \* of a manifest: any open < close is admitted
RetryDelay == 5
SearchDays == 14

Day(t) == t \div 1440
Minute(t) == t % 1440
Year(d) == IF d < FirstDayOfYear2 THEN 1 ELSE 2
Weekend(d) == (plan.weekday + d) % 7 >= 5

\* exchange_session, and what its kind means
Session(d) == IF d \in DOMAIN plan.sessions THEN plan.sessions[d] ELSE "None"
Explicit(d) == Session(d) \in {"Open", "SpecialHours", "TradingWithoutSettlement"}
\* exchange_calendar_covers
Covered(d) == d <= plan.validUntil
\* exchange_session_minutes
Hours(d) == IF Session(d) = "SpecialHours" THEN SpecialHours ELSE <<MarketOpen, MarketClose>>

Closed == [open |-> FALSE, entries |-> FALSE, forceExit |-> FALSE, expiryExit |-> FALSE,
           days |-> 0, lunch |-> FALSE, reconfirming |-> FALSE]
Open == [Closed EXCEPT !.open = TRUE, !.entries = TRUE, !.days = 1]

\* schedule_for_moment_with_hours: open, or observing before the entry delay
Regular(d, m) ==
    IF \/ Weekend(d) /\ ~Explicit(d)
       \/ m < Hours(d)[1] \/ m >= Hours(d)[2]
    THEN Closed
    ELSE [Open EXCEPT !.entries = m >= Hours(d)[1] + EntryDelay]

\* Mutant: the last entry is not held back before a break.
WithRiskPolicyLate(s, m, days) ==
    [s EXCEPT !.days = days, !.expiryExit = m >= ExpiryExit,
              !.forceExit = days > 1 /\ m >= ForceExit,
              !.entries = @ /\ (days > 1 => m < ForceExit)]

\* apply_risk_policy
WithRiskPolicy(s, m, days) ==
    [s EXCEPT !.days = days, !.expiryExit = m >= ExpiryExit,
              !.forceExit = days > 1 /\ m >= ForceExit,
              !.entries = @ /\ (days > 1 => m < LastEntry /\ m < ForceExit)]

\* apply_lunch_policy
WithLunchPolicy(s, m) ==
    IF ~plan.lunch THEN s
    ELSE [s EXCEPT !.lunch = m >= LunchStart /\ m < LunchEnd,
                   !.reconfirming = m >= LunchEnd /\ m < LunchEnd + Confirmation,
                   !.entries = @ /\ ~(m >= LunchEnd /\ m < LunchEnd + Confirmation)]

-----------------------------------------------------------------------------
(* The search for the next session: days_until_next_session.               *)

Unknown == 0

\* Where the search stops, if the holidays of the years in `available` are known.
Uncovered(d) == plan.required /\ ~Covered(d)
MayTrade(d) == Session(d) # "Closed" /\ (Weekend(d) => Explicit(d))
Stops(d, available) ==
    \/ Uncovered(d)
    \/ MayTrade(d) /\ (Year(d) \in available => (Explicit(d) \/ d \notin plan.holidays))
StopsAt(d, available) == {n \in 1..SearchDays : Stops(d + n, available)}

\* Mutant: the search trusts a year it could not check.
DaysUntilNextSessionTrusting(d, available) ==
    LET found == StopsAt(d, available) IN
    IF found = {} \/ Uncovered(d + Min(found)) THEN Unknown ELSE Min(found)

DaysUntilNextSession(d, available) ==
    LET found == StopsAt(d, available) IN
    IF found = {} \/ Uncovered(d + Min(found)) \/ Year(d + Min(found)) \notin available
    THEN Unknown ELSE Min(found)

\* The years the search asks ensure_year for.
SearchedYears(d, available) ==
    LET found == StopsAt(d, available)
        last == IF found = {} THEN SearchDays ELSE Min(found)
    IN  {Year(d + n) : n \in {k \in 1..last : MayTrade(d + k) /\ ~Uncovered(d + k)}}

-----------------------------------------------------------------------------
(* status                                                                  *)

\* Years ensure_year finds without the feed, and those it may ask for.
Kept == holidays \cup {y \in Years : file[y]}
MayFetch(y) == y \notin Kept /\ now >= retryAfter[y]

\* What status answers when the feed answers for the years `answered`.
OpenBefore(t) == ~Uncovered(Day(t)) /\ Session(Day(t)) # "Closed" /\ Regular(Day(t), Minute(t)).open
Known(available, d) == Explicit(d) \/ (Year(d) \in available /\ d \notin plan.holidays)

Status(t, available) ==
    LET d == Day(t)
        days == DaysUntilNextSession(d, available)
    IN  IF ~OpenBefore(t) \/ ~Known(available, d) \/ (plan.weekendRisk /\ days = Unknown)
        THEN Closed
        ELSE WithLunchPolicy(
                IF plan.weekendRisk THEN WithRiskPolicy(Regular(d, Minute(t)), Minute(t), days)
                ELSE Regular(d, Minute(t)),
                Minute(t))

AskedYears(t, available) ==
    LET d == Day(t) IN
    IF ~OpenBefore(t) THEN {}
    ELSE (IF Explicit(d) THEN {} ELSE {Year(d)})
         \cup (IF plan.weekendRisk /\ Known(available, d) THEN SearchedYears(d, available) ELSE {})

\* ensure_year: memory, a valid cache file, the retry window, the feed, which is
\* then cached if the disk allows it.
AskStatus ==
    \E answered \in IF FeedMayFail THEN SUBSET Years ELSE {Years}, cached \in BOOLEAN :
        LET available == Kept \cup {y \in answered : MayFetch(y)}
            asked == AskedYears(now, available)
            fetched == {y \in asked \ Kept : y \in available}
        IN  /\ schedule' = Status(now, available)
            /\ holidays' = holidays \cup (asked \cap available)
            /\ file' = [y \in Years |-> file[y] \/ (y \in fetched /\ cached)]
            /\ retryAfter' = [y \in Years |->
                    CASE y \in fetched -> 0
                      [] y \in asked \ available /\ MayFetch(y) -> now + RetryDelay
                      [] OTHER -> retryAfter[y]]
            /\ UNCHANGED plan

CalendarInit ==
    /\ plan \in Plans
    /\ holidays = {} /\ retryAfter = [y \in Years |-> 0]
    /\ file \in [Years -> BOOLEAN]
    /\ schedule = Closed

\* new: a restart forgets memory and retry windows; the file stays, or is no
\* longer what holidays_are_valid accepts.
RestartCalendar ==
    /\ holidays' = {} /\ retryAfter' = [y \in Years |-> 0]
    /\ file' \in {file, [y \in Years |-> FALSE]}
    /\ schedule' = Closed
    /\ UNCHANGED plan
=============================================================================
