----------------------------- MODULE FrameAssembly -----------------------------
(***************************************************************************)
(* How the answers of IOL become the frame of a step, and a frame the      *)
(* series an entry buys (src/src/iol_client.rs, parse_market_frame;        *)
(* src/src/market.rs; the beginning of evaluate_entry in src/src/app.rs).  *)
(* Times are ages: 0 is when the answer came, as unix_now() sees it.       *)
(* A catalogue names a series once, and quotes_by_symbol keeps the last    *)
(* row of a symbol: the only one here.                                     *)
(***************************************************************************)
EXTENDS Integers, FiniteSets, FiniteSetsExt

CONSTANTS
    SourceSkew, MaxLag, QuoteMaxAge,
    Series,                 \* bound: [side, days], what a catalogue may list
    Ages,                   \* bound: how old an exchange stamp may be (below 0: ahead)
    Waits,                  \* bound: how long the step takes to decide
    MinTenor, MaxTenor, ChainPercentage, ChainPerSide

ASSUME FrameAssumption ==
    /\ {SourceSkew, MaxLag, QuoteMaxAge, ChainPerSide} \subseteq Nat /\ ChainPercentage \in 0..100
    /\ {MinTenor, MaxTenor} \subseteq Int /\ MinTenor <= MaxTenor
    /\ Series \subseteq [side : {"call", "put"}, days : Int] /\ IsFiniteSet(Series)
    /\ Ages \subseteq Int /\ Waits \subseteq Int

Unstamped == {}
OptionalStamps == {Unstamped} \cup {{a} : a \in Ages}   \* an exchange stamp is optional
\* What a quote row says: no last price or bid above ask; a book that is one
\* sided, wide or thin, or too far from the money; or one that may be bought.
Books == {"invalid", "poor", "tight"}

VARIABLES
    answer,     \* [catalogue, quotes, stamp, since]: what IOL sent and the last frame's time
    frame,      \* [status: "none", "refused" or "valid", age, options, quality, byExpiry]
    choice      \* [result: "none", "blocked", "noOption" or "chosen", series, wait]

assembly == <<answer, frame, choice>>

Rows == [book : Books, stamp : {Unstamped}] \cup [book : {"tight"}, stamp : OptionalStamps]
NoAnswer == [catalogue |-> {}, quotes |-> <<>>, stamp |-> Unstamped, since |-> 0]
AssemblyInit == answer = NoAnswer /\ frame = [status |-> "none"] /\ choice = [result |-> "none"]

\* The three answers: the underlying, the catalogue and the quotes of all options.
Answers ==
    /\ answer = NoAnswer
    /\ \E catalogue \in SUBSET Series \ {{}}, stamp \in OptionalStamps, since \in {0, 1} :
        \E quoted \in SUBSET catalogue : \E rows \in [quoted -> Rows] :
            answer' = [catalogue |-> catalogue, quotes |-> rows, stamp |-> stamp, since |-> since]
    /\ UNCHANGED <<frame, choice>>

-----------------------------------------------------------------------------
(* parse_market_frame                                                      *)

Age(stamp) == IF stamp = Unstamped THEN 0 ELSE CHOOSE a \in stamp : TRUE

\* validate_quote_timestamp_provenance: received now, as every row is
TimesAgree(stamp) == Age(stamp) \in -SourceSkew..SourceSkew

Acceptable(row) == row.book # "invalid" /\ TimesAgree(row.stamp)

Quoted == DOMAIN answer.quotes
OptionsOf(s) == {c \in s \cap Quoted : Acceptable(answer.quotes[c])}

OfSide(s, side) == {c \in s : c.side = side}
\* Mutant: only the series with a quote are counted.
QualityOfQuoted(s) ==
    LET accepted == OptionsOf(s)
    IN  [catalog |-> Cardinality(s \cap Quoted), accepted |-> Cardinality(accepted),
         missing |-> 0, invalid |-> Cardinality((s \cap Quoted) \ accepted),
         calls |-> Cardinality(OfSide(accepted, "call")), puts |-> Cardinality(OfSide(accepted, "put"))]

\* The counters of a part of the catalogue
Quality(s) ==
    LET accepted == OptionsOf(s)
    IN  [catalog |-> Cardinality(s), accepted |-> Cardinality(accepted),
         missing |-> Cardinality(s \ Quoted), invalid |-> Cardinality((s \cap Quoted) \ accepted),
         calls |-> Cardinality(OfSide(accepted, "call")), puts |-> Cardinality(OfSide(accepted, "put"))]

Expiries(s) == {c.days : c \in s}
QualityByExpiry(s) == [d \in Expiries(s) |-> Quality({c \in s : c.days = d})]

Assembled ==
    [status |-> "valid", age |-> Age(answer.stamp), options |-> OptionsOf(answer.catalogue),
     quality |-> Quality(answer.catalogue), byExpiry |-> QualityByExpiry(answer.catalogue)]

-----------------------------------------------------------------------------
(* MarketFrame::validate                                                   *)

Balanced(q) == q.accepted + q.missing + q.invalid = q.catalog /\ q.calls + q.puts = q.accepted
Reconciles(f) ==
    /\ f.quality.accepted = Cardinality(f.options) /\ Balanced(f.quality)
    /\ \A d \in DOMAIN f.byExpiry : Balanced(f.byExpiry[d])
    /\ \A count \in DOMAIN f.quality :
        f.quality[count] = MapThenSumSet(LAMBDA d : f.byExpiry[d][count], DOMAIN f.byExpiry)

\* Mutant: the lag is never looked at.
NoLag(f) == TRUE

\* No option is far behind the underlying, whoever stamped them.
InStep(f) == \A c \in f.options : Age(answer.quotes[c].stamp) <= f.age + MaxLag

\* since: how long ago the last frame's time was
Valid(f) ==
    /\ f.age <= answer.since /\ TimesAgree(answer.stamp)
    /\ Reconciles(f) /\ InStep(f)

\* What is refused ends the step with an error; so does an underlying without
\* a price or with a crossed book.
ReceiveAnswer ==
    /\ frame.status = "none" /\ answer # NoAnswer
    /\ \E priced \in BOOLEAN :
        frame' = IF priced /\ OptionsOf(answer.catalogue) # {} /\ Valid(Assembled)
                 THEN Assembled ELSE [status |-> "refused"]
    /\ UNCHANGED <<answer, choice>>

-----------------------------------------------------------------------------
(* evaluate_entry                                                          *)

\* Mutant: any expiry fills the counts.
AnyTenor(days) == TRUE
InTenor(days) == days \in MinTenor..MaxTenor

\* tenor_totals
Total(count) == MapThenSumSet(LAMBDA d : frame.byExpiry[d][count], {d \in DOMAIN frame.byExpiry : InTenor(d)})

AllowsEntryForTenor ==
    /\ Total("catalog") > 0
    /\ 100 * Total("accepted") >= ChainPercentage * Total("catalog")
    /\ Total("calls") >= ChainPerSide /\ Total("puts") >= ChainPerSide

\* validate_freshness, wait after the answer
Fresh(row, wait) == Age(row.stamp) + wait \in -QuoteMaxAge..QuoteMaxAge

\* select_option_with_criteria: the tight books have the least friction.
Eligible(side, minDays, wait) ==
    {c \in OfSide(frame.options, side) :
        /\ c.days >= minDays /\ c.days <= MaxTenor
        /\ answer.quotes[c].book = "tight" /\ Fresh(answer.quotes[c], wait)}

\* The days a series must last are those of the next session if that is later.
\* A stale underlying has halted the step before.
ChooseSeries ==
    /\ frame.status = "valid" /\ choice.result = "none"
    /\ frame.age \in -QuoteMaxAge..QuoteMaxAge
    /\ \E side \in {"call", "put"}, nextSession \in {1, MaxTenor}, wait \in Waits :
        LET eligible == Eligible(side, IF nextSession > MinTenor THEN nextSession ELSE MinTenor, wait)
        IN  choice' \in
                IF ~AllowsEntryForTenor THEN {[result |-> "blocked"]}
                ELSE IF eligible = {} THEN {[result |-> "noOption"]}
                ELSE {[result |-> "chosen", series |-> c, wait |-> wait] : c \in eligible}
    /\ UNCHANGED <<answer, frame>>

AssemblyNext == Answers \/ ReceiveAnswer \/ ChooseSeries

-----------------------------------------------------------------------------

\* A live quote of the answer: priced, not crossed, stamped about when it came
\* and not far behind the underlying.
Live(c) ==
    /\ c \in Quoted /\ answer.quotes[c].book # "invalid"
    /\ Age(answer.quotes[c].stamp) \in -SourceSkew..SourceSkew
    /\ Age(answer.quotes[c].stamp) - Age(answer.stamp) <= MaxLag
Tradable == {c \in answer.catalogue : MinTenor <= c.days /\ c.days <= MaxTenor}

\* A series is bought only out of a chain that really is there: of all that the
\* catalogue lists in the days the strategy trades, enough have a live quote in
\* the answer, on both sides, whatever the other expiries show; and the quote of
\* the series itself is two sided and no older than it may be when the step
\* decides (docs/ALGORITMO.md:173: liquid series of other expiries do not make
\* up for them).
EntryHasARealChain ==
    choice.result = "chosen" =>
        LET live == {c \in Tradable : Live(c)}
            row == answer.quotes[choice.series]
        IN  /\ 100 * Cardinality(live) >= ChainPercentage * Cardinality(Tradable)
            /\ \A side \in {"call", "put"} : Cardinality({c \in live : c.side = side}) >= ChainPerSide
            /\ choice.series \in live
            /\ row.book = "tight" /\ Age(row.stamp) + choice.wait <= QuoteMaxAge
=============================================================================
