---------------------------- MODULE ReferenceFeeds ----------------------------
(***************************************************************************)
(* The two readings a step takes besides IOL: whether the local clock is   *)
(* right (src/src/time_reference.rs) and the VIX (src/src/vix.rs, and      *)
(* VixObservation in market.rs); and how a step of the loop, in live mode, *)
(* gets from them to an entry.  Both keep what they read for a while.  A   *)
(* step waits for answers between what it reads and what it does with it:  *)
(* meanwhile time passes, and the clock may be set.                        *)
(***************************************************************************)
EXTENDS Integers

CONSTANTS
    ClockRefresh, MaxSkew,
    ReferenceTimeout,   \* of the request for the time, from its start to its end
    VixRefresh, VixMaxAge, PreviousMaxAge, MaxFuture,
    MaxDataAge,
    Offsets,            \* bound: how far off the local clock may be
    Delays,             \* bound: how old what the exchange and the VIX service say may be
    FirstTime, LastTime \* bounds

ASSUME FeedsAssumption ==
    /\ {ClockRefresh, MaxSkew, ReferenceTimeout, MaxDataAge} \subseteq Nat
    /\ {VixRefresh, VixMaxAge, PreviousMaxAge, MaxFuture} \subseteq Nat
    /\ Offsets \subseteq Int
    /\ FirstTime \in Nat \ {0} /\ Delays \subseteq 0..(FirstTime - 1)

VARIABLES
    instant,        \* the time it is, which Instant and the exchange follow
    offset,         \* of the local clock
    reference,      \* [date, verifiedAt, next] of the last verification
    synchronized,   \* clock_synchronized
    cached,         \* [stamp, previous, kind, fetchedAt], the VIX observation kept
    quote, vix,     \* of this step
    cycle           \* [stage, startedAt, localRead] of this step;
                    \* history: clockSet, whether the clock was set since it began

feeds == <<instant, offset, reference, synchronized, cached, quote, vix, cycle>>

Missing == -1
NoReference == [date |-> Missing, verifiedAt |-> 0, next |-> 0]
NoQuote == [stamp |-> Missing, source |-> "received"]
NoVix == [stamp |-> Missing, previous |-> Missing, kind |-> "current", fetchedAt |-> 0]
NoStep == [stage |-> "idle", startedAt |-> 0, localRead |-> 0, clockSet |-> FALSE]
Distance(a, b) == IF a < b THEN b - a ELSE a - b
\* unix_now
Local == instant + offset

FeedsInit ==
    /\ instant = FirstTime /\ offset \in Offsets
    /\ reference = NoReference /\ synchronized = FALSE
    /\ cached = NoVix /\ quote = NoQuote /\ vix = NoVix /\ cycle = NoStep

-----------------------------------------------------------------------------
(* refresh_clock_reference and ClockReferenceClient::verify                *)

\* cache_window_open; the window of an observation that was dropped is over.
CacheWindowOpen == reference.date # Missing /\ instant < reference.next
ExpectedReference == reference.date + (instant - reference.verifiedAt)
SkewIsAcceptable(skew) == skew <= MaxSkew

\* Mutant: what was right when it was read is right until the next refresh.
VerifyCachedTrusting == synchronized' = TRUE /\ UNCHANGED reference

\* Within the window the reading is projected and compared again.
VerifyCached ==
    IF SkewIsAcceptable(Distance(ExpectedReference, Local))
    THEN synchronized' = TRUE /\ UNCHANGED reference
    ELSE synchronized' = FALSE /\ reference' = [NoReference EXCEPT !.next = instant]

\* A step begins; both clocks are read before the request, if there is one.
BeginStep ==
    /\ cycle.stage = "idle"
    /\ IF CacheWindowOpen THEN VerifyCached ELSE UNCHANGED <<reference, synchronized>>
    /\ cycle' = [stage |-> IF CacheWindowOpen THEN "verified" ELSE "verifying",
                startedAt |-> instant, localRead |-> Local, clockSet |-> FALSE]
    /\ UNCHANGED <<instant, offset, cached, quote, vix>>

\* A Date header, of some time during the request, is compared with the clock
\* as it was read before, and kept only if that was right.
VerifyFetched ==
    /\ instant <= cycle.startedAt + ReferenceTimeout
    /\ \E date \in cycle.startedAt..instant :
        IF SkewIsAcceptable(Distance(date, cycle.localRead))
        THEN /\ synchronized' = TRUE
             /\ reference' = [date |-> date, verifiedAt |-> cycle.startedAt,
                              next |-> cycle.startedAt + ClockRefresh]
        ELSE synchronized' = FALSE /\ reference' = [NoReference EXCEPT !.next = cycle.startedAt]

\* No answer or no Date: the window stays over, and an older reading with it.
VerifyFails == synchronized' = FALSE /\ UNCHANGED reference

AnswerClock ==
    /\ cycle.stage = "verifying"
    /\ VerifyFetched \/ VerifyFails
    /\ cycle' = [cycle EXCEPT !.stage = "verified"]
    /\ UNCHANGED <<instant, offset, cached, quote, vix>>

-----------------------------------------------------------------------------
(* The quote, VixClient::observation and enrich_vix                        *)

\* A quote has the time of the exchange, or that of its receipt.  That the two
\* have to be within five minutes (QuoteTimestamps) refuses some of these.
TakeQuote ==
    /\ cycle.stage = "verified"
    /\ quote' \in [stamp : {instant - d : d \in Delays}, source : {"exchange"}]
                    \cup [stamp : {Local}, source : {"received"}]
    /\ cycle' = [cycle EXCEPT !.stage = "quoted"]
    /\ UNCHANGED <<instant, offset, reference, synchronized, cached, vix>>

\* validate, validate_previous_close and freshness_state, at a time of judgement
WithinAge(stamp, maxAge, now) == stamp <= now + MaxFuture /\ now - stamp <= maxAge
PreviousCloseIsValid(v, now) ==
    v.previous # Missing => v.previous < v.stamp /\ WithinAge(v.previous, PreviousMaxAge, now)
Stale(v, now) == ~WithinAge(v.stamp, IF v.kind = "current" THEN VixMaxAge ELSE PreviousMaxAge, now)

CacheIsUsable(v) ==
    v.stamp # Missing /\ instant - v.fetchedAt < VixRefresh /\ ~Stale(v, quote.stamp)

\* What the service says: any stamps, of either kind.
VixResponses ==
    [stamp : {instant - d : d \in Delays}, previous : {FirstTime - 1, instant}, kind : {"current"},
     fetchedAt : {instant}]
        \cup [stamp : {instant}, previous : {FirstTime - 1}, kind : {"previous_close"},
              fetchedAt : {instant}]

\* A stale answer is an error, a previous close that is no good is left out.
Accepted(v) == [v EXCEPT !.previous = IF PreviousCloseIsValid(v, quote.stamp) THEN @ ELSE Missing]

\* The frame's own time is the one its VIX is judged at.
EnrichVix ==
    /\ cycle.stage = "quoted"
    /\ \/ CacheIsUsable(cached) /\ vix' = cached /\ UNCHANGED cached
       \/ /\ ~CacheIsUsable(cached)
          /\ \E v \in VixResponses :
              /\ ~Stale(v, quote.stamp)
              /\ vix' = Accepted(v) /\ cached' = Accepted(v)
       \/ ~CacheIsUsable(cached) /\ vix' = NoVix /\ UNCHANGED cached
    /\ cycle' = [cycle EXCEPT !.stage = "enriched"]
    /\ UNCHANGED <<instant, offset, reference, synchronized, quote>>

-----------------------------------------------------------------------------
(* The rest of the cycle                                                   *)

\* Mutant: the frame was just read, so it is not asked how old it is.
QuoteIsFreshAlways == TRUE
\* validate_freshness, by the clock as it is now
QuoteIsFresh == quote.stamp <= Local + MaxDataAge /\ Local - quote.stamp <= MaxDataAge

\* A frame that is not fresh halts and ends the step; EngineControl has the
\* halt.  The time of the quote is not asked for after this.
CheckFreshness ==
    /\ cycle.stage = "enriched"
    /\ IF QuoteIsFresh
       THEN cycle' = [cycle EXCEPT !.stage = "checked"] /\ UNCHANGED vix
       ELSE cycle' = NoStep /\ vix' = NoVix
    /\ quote' = NoQuote
    /\ UNCHANGED <<instant, offset, reference, synchronized, cached>>

\* Mutant: the VIX is judged when it is read, and not again when it is used.
VixMayJudgeAsRead == vix.stamp # Missing /\ vix.kind = "current" /\ vix.previous # Missing

\* Only a level of now, with a change since a close that is valid, judges a purchase.
VixMayJudge ==
    /\ vix.stamp # Missing /\ vix.kind = "current" /\ ~Stale(vix, Local)
    /\ vix.previous # Missing /\ PreviousCloseIsValid(vix, Local)

\* evaluate_entry.  Whether the model in use needs a VIX is a choice.
Enter(usesVix) ==
    /\ cycle.stage = "checked" /\ synchronized
    /\ usesVix => VixMayJudge
    /\ cycle' = NoStep /\ quote' = NoQuote /\ vix' = NoVix
    /\ UNCHANGED <<instant, offset, reference, synchronized, cached>>

\* Any other end: the next step reads a frame and a VIX of its own.
EndStep ==
    /\ cycle.stage \notin {"idle", "verifying"}
    /\ cycle' = NoStep /\ quote' = NoQuote /\ vix' = NoVix
    /\ UNCHANGED <<instant, offset, reference, synchronized, cached>>

-----------------------------------------------------------------------------

FeedTimePasses ==
    /\ instant < LastTime /\ instant' = instant + 1
    /\ UNCHANGED <<offset, reference, synchronized, cached, quote, vix, cycle>>

\* The clock is set, or jumps: the program sees nothing of it.
ClockJumps ==
    /\ offset' \in Offsets \ {offset}
    /\ cycle' = [cycle EXCEPT !.clockSet = cycle.stage # "idle"]
    /\ UNCHANGED <<instant, reference, synchronized, cached, quote, vix>>

FeedsNext ==
    \/ BeginStep \/ AnswerClock \/ TakeQuote \/ EnrichVix \/ CheckFreshness
    \/ \E usesVix \in BOOLEAN : Enter(usesVix)
    \/ EndStep \/ FeedTimePasses \/ ClockJumps

Slack == MaxSkew + ReferenceTimeout

\* An entry is made by readings that are right in the time it is, however the
\* clock was set between steps and whatever is kept of earlier ones: the clock
\* the step began with was no further off than its limit and the time an answer
\* may take (so a wrong clock enters at most in the step it was set in); and,
\* unless it was set during this very step, the quote of the exchange, when it
\* is checked, and the VIX and its previous close, when they judge the purchase
\* after every wait, are older than their own limits by no more than that.
EntriesUseRightReadings ==
    [][/\ /\ CheckFreshness /\ cycle'.stage = "checked"
          /\ synchronized /\ ~cycle.clockSet /\ quote.source = "exchange"
          => instant - quote.stamp <= MaxDataAge + Slack
       /\ \A usesVix \in BOOLEAN : Enter(usesVix) =>
            /\ Distance(cycle.startedAt, cycle.localRead) <= Slack
            /\ usesVix /\ ~cycle.clockSet =>
                /\ instant - vix.stamp <= VixMaxAge + Slack
                /\ instant - vix.previous <= PreviousMaxAge + Slack]_feeds
=============================================================================
