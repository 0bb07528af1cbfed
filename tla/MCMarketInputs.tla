---------------------------- MODULE MCMarketInputs ----------------------------
(* Calendars in which the interesting days fall on days 0 and 1. *)
EXTENDS MarketInputsProperties

NoSessions == [d \in {} |-> "Open"]
Regular1 == [weekday |-> 0, holidays |-> {}, sessions |-> NoSessions, validUntil |-> -1,
             required |-> FALSE, weekendRisk |-> TRUE, lunch |-> TRUE]

MCPlans == {
    \* A new year's holiday in the year nobody has asked for yet.
    [Regular1 EXCEPT !.holidays = {2}],
    \* A holiday tomorrow that only the feed knows.
    [Regular1 EXCEPT !.weekday = 3, !.holidays = {1}, !.lunch = FALSE],
    \* A manifest: special hours today before a long weekend, with cover.
    [Regular1 EXCEPT !.weekday = 3, !.holidays = {0, 1}, !.sessions = (0 :> "SpecialHours" @@ 4 :> "Closed"),
                     !.validUntil = 9, !.required = TRUE],
    \* A manifest whose cover ends, with a Saturday session.
    [Regular1 EXCEPT !.weekday = 4, !.sessions = (1 :> "Open"), !.validUntil = 2, !.required = TRUE],
    \* No protection against breaks.
    [Regular1 EXCEPT !.weekday = 4, !.weekendRisk = FALSE]}

MCInstants == {640, 700, 760, 842, 846, 1000, 1030}
BothWays == Permutations(Directions)
=============================================================================
