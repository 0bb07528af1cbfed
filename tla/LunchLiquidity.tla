---------------------------- MODULE LunchLiquidity ----------------------------
(***************************************************************************)
(* How often the quote of an option changed in the last minutes, which an  *)
(* entry at lunch asks for (LunchLiquidityMonitor in src/src/app.rs).      *)
(* Frames come at any later time and may leave the option out.             *)
(***************************************************************************)
EXTENDS Integers, FiniteSets, SequencesExt

CONSTANTS
    LunchWindow,
    Quotes,         \* bound: the states of a quote
    LunchTimes,     \* bound: the times of frames
    MaxQuotes       \* bound: the frames with the option

ASSUME LunchAssumption == LunchWindow \in Nat \ {0} /\ LunchTimes \subseteq Nat /\ MaxQuotes \in Nat

VARIABLES
    frameAt,        \* the time of the last frame
    activity,       \* [first, last, state, updates] or Unseen
    seen            \* history: [at, state] of every quote

lunch == <<frameAt, activity, seen>>

Unseen == [first |-> -1, last |-> -1, state |-> "none", updates |-> <<>>]

LunchInit == frameAt = -1 /\ activity = Unseen /\ seen = <<>>

Cutoff(t) == t - LunchWindow
RecentOnes(updates, t) == {i \in DOMAIN updates : updates[i] >= Cutoff(t)}
\* The old ones leave at the front until one is recent.
Recent(updates, t) ==
    LET recent == RecentOnes(updates, t)
    IN  IF recent = {} THEN <<>> ELSE SubSeq(updates, Min(recent), Len(updates))

\* Mutant: after a gap the first quote is still the old one.
AfterGapContinued(q, t) == [activity EXCEPT !.state = q, !.last = t, !.updates = <<>>]
AfterGap(q, t) == [first |-> t, last |-> t, state |-> q, updates |-> <<>>]

\* observe: the entry, then the old updates and the old symbols leave.
Seen(q, t) ==
    LET changed == IF activity.state = q THEN activity.updates ELSE Append(activity.updates, t)
        entry == CASE activity = Unseen -> AfterGap(q, t)
                   [] activity # Unseen /\ t - activity.last > LunchWindow -> AfterGap(q, t)
                   [] OTHER -> [activity EXCEPT !.last = t, !.state = q, !.updates = changed]
    IN  [entry EXCEPT !.updates = Recent(@, t)]

ObserveQuote ==
    \E t \in {u \in LunchTimes : u >= frameAt}, q \in Quotes :
        /\ Len(seen) < MaxQuotes
        /\ frameAt' = t
        /\ activity' = Seen(q, t)
        /\ seen' = Append(seen, [at |-> t, state |-> q])

ObserveWithout ==
    \E t \in {u \in LunchTimes : u > frameAt} :
        /\ frameAt' = t
        /\ activity' = IF activity.last >= Cutoff(t) THEN activity ELSE Unseen
        /\ UNCHANGED seen

LunchNext == ObserveQuote \/ ObserveWithout

NoCount == -1
\* update_count, at the time of the last frame
UpdateCount ==
    IF activity = Unseen \/ frameAt - activity.first < LunchWindow THEN NoCount
    ELSE Cardinality(RecentOnes(activity.updates, frameAt))

-----------------------------------------------------------------------------

\* The quotes since the last time the option was missing for longer than the window.
Run == {i \in DOMAIN seen :
            /\ frameAt - seen[Len(seen)].at <= LunchWindow
            /\ \A k \in (i + 1)..Len(seen) : seen[k].at - seen[k - 1].at <= LunchWindow}
Changes == {i \in Run : i - 1 \in Run /\ seen[i].state # seen[i - 1].state /\ seen[i].at >= Cutoff(frameAt)}

\* What an entry at lunch is judged by is what the frames really showed: there
\* is a count only when the option was watched for the whole window without a
\* gap longer than it, and it counts the changes in the window and nothing from
\* before a gap.
CountIsWhatWasSeen ==
    UpdateCount =
        IF Run = {} \/ (\A i \in Run : frameAt - seen[i].at < LunchWindow) THEN NoCount
        ELSE Cardinality(Changes)
=============================================================================
