------------------------------ MODULE EntryFilters ------------------------------
(***************************************************************************)
(* What stands between a confirmed signal and an order: the series is      *)
(* valued, its implied volatility ranked among those of earlier sessions,  *)
(* onRecord, and the entry dropped or passed on (evaluate_entry in         *)
(* src/src/app.rs; src/src/iv_rank.rs).  The record is a file that a start *)
(* reads; after a crash the steps since the last snapshot may come again.  *)
(***************************************************************************)
EXTENDS Integers, FiniteSets, SequencesExt

CONSTANTS
    Evaluations,    \* bound: the instants of confirmed signals
    SessionLength,  \* instants of a session
    Candidates,     \* bound: [side, iv], what the market may show
    WindowSessions, MinSessions, MinRank, MaxRank

ASSUME FilterAssumption ==
    /\ Evaluations \subseteq Nat /\ SessionLength \in Nat \ {0}
    /\ Candidates \subseteq [side : {"call", "put"}, iv : Nat]
    /\ WindowSessions \in Nat /\ MinSessions \in 2..WindowSessions /\ MinRank \in 0..MaxRank /\ MaxRank \in 0..100

VARIABLES
    candidates,     \* [side, iv] of the series, at the instants on record and the one evaluated
    switches,       \* [analytics, rankFilter]: what the configuration turned on
    filterStage,    \* "idle", "valued", "recorded", "entering", "down" or "refused"
    evaluatedAt,    \* the instant of the evaluation
    snapshotAt,     \* the last instant whose step was saved
    ivHistory,      \* iv_history in memory: instants
    ivFile,         \* analytics/iv_history.jsonl: instants, and Torn
    verdict,        \* of the evaluation: how many of the earlier volatilities are not above
    onRecord        \* history: the instants whose volatility is on record

filters == <<candidates, switches, filterStage, evaluatedAt, snapshotAt, ivHistory, ivFile, verdict, onRecord>>

Torn == -1
NoVolatility == 0
NoRank == [below |-> 0, total |-> 0]

FiltersInit ==
    /\ candidates = <<>>
    /\ switches \in [analytics : BOOLEAN, rankFilter : BOOLEAN]
    /\ filterStage = "idle" /\ evaluatedAt = -1 /\ snapshotAt = -1
    /\ ivHistory = <<>> /\ ivFile = <<>>
    /\ verdict = NoRank /\ onRecord = {}

-----------------------------------------------------------------------------
(* point_in_time_iv_rank                                                   *)

SessionOf(t) == t \div SessionLength
Comparable(shown, u, t) == shown[u].side = shown[t].side

Valued(t) == t \in DOMAIN candidates /\ candidates[t].iv # NoVolatility

\* The places in the history of what is comparable and earlier.
\* Mutant: later records of a run that started again count as earlier ones.
AllBut(shown, h, t) == {i \in DOMAIN h : h[i] # t /\ Comparable(shown, h[i], t)}

Prior(shown, h, t) == {i \in DOMAIN h : h[i] < t /\ Comparable(shown, h[i], t)}

LatestSessions(all) == {d \in all : Cardinality({e \in all : e >= d}) <= WindowSessions}

PointInTimeRank(shown, h, t) ==
    LET prior == Prior(shown, h, t)
        sessions == LatestSessions({SessionOf(h[i]) : i \in prior})
        kept == {i \in prior : SessionOf(h[i]) \in sessions}
    IN  IF Cardinality(sessions) < MinSessions THEN NoRank
        ELSE [below |-> Cardinality({i \in kept : shown[h[i]].iv <= shown[t].iv}),
              total |-> Cardinality(kept)]

\* IvRankResult::allows
Allows(rank) ==
    /\ rank # NoRank
    /\ MinRank * rank.total <= 100 * rank.below /\ 100 * rank.below <= MaxRank * rank.total

-----------------------------------------------------------------------------
(* evaluate_entry, between the choice of a series and the order            *)

\* The evaluation is over; what it did not put on record is forgotten.
Leave(next) ==
    /\ filterStage' = next /\ verdict' = NoRank
    /\ candidates' = [u \in DOMAIN candidates \cap onRecord' |-> candidates[u]]

\* The run ends or dies: memory is lost. saved: the last step that was saved.
Down(saved) ==
    /\ Leave("down")
    /\ snapshotAt' = saved /\ evaluatedAt' = saved /\ ivHistory' = <<>>
\* After an error, not after a crash, a snapshot is saved.
GoDown == \E saved \in {snapshotAt, evaluatedAt} : Down(saved)

\* There is no candidate, or the rates its value needs are not valid; neither
\* leaves a volatility behind.
DropUnvalued ==
    /\ filterStage = "idle"
    /\ \E t \in Evaluations : t > evaluatedAt /\ evaluatedAt' = t
    /\ UNCHANGED <<candidates, switches, filterStage, snapshotAt, ivHistory, ivFile, verdict, onRecord>>

\* A step that comes again sees the market it saw.
Shown(t, c) ==
    [u \in DOMAIN candidates \cup {t} |-> IF u \in DOMAIN candidates THEN candidates[u] ELSE c]

\* Without analytics nothing is valued.
SkipAnalytics ==
    /\ filterStage = "idle" /\ ~switches.analytics
    /\ \E t \in Evaluations : t > evaluatedAt /\ evaluatedAt' = t
    /\ filterStage' = "recorded"
    /\ UNCHANGED <<candidates, switches, snapshotAt, ivHistory, ivFile, verdict, onRecord>>

\* The series is valued, and ranked if that gave a volatility.
ValueSeries ==
    /\ filterStage = "idle" /\ switches.analytics
    /\ \E t \in Evaluations, c \in Candidates :
        LET shown == Shown(t, c) IN
            /\ t > evaluatedAt /\ evaluatedAt' = t
            /\ candidates' = shown
            /\ IF shown[t].iv # NoVolatility
               THEN filterStage' = "valued" /\ verdict' = PointInTimeRank(shown, ivHistory, t)
               ELSE filterStage' = "recorded" /\ UNCHANGED verdict
    /\ UNCHANGED <<switches, snapshotAt, ivHistory, ivFile, onRecord>>

\* Mutant: an instant that comes again is recorded again.
NeverOnRecord(t) == FALSE
OnRecord(t) == Contains(ivHistory, t)

\* The volatility goes to the file and then to memory, once.
RecordVolatility ==
    /\ filterStage = "valued"
    /\ IF OnRecord(evaluatedAt) THEN UNCHANGED <<ivFile, ivHistory, onRecord>>
       ELSE /\ ivFile' = Append(ivFile, evaluatedAt)
            /\ ivHistory' = Append(ivHistory, evaluatedAt)
            /\ onRecord' = onRecord \cup {evaluatedAt}
    /\ filterStage' = "recorded"
    /\ UNCHANGED <<candidates, switches, evaluatedAt, snapshotAt, verdict>>

\* Its write is cut, by an error or a crash, and the line does not parse.
RecordIsCut ==
    /\ filterStage = "valued" /\ ~OnRecord(evaluatedAt)
    /\ ivFile' = Append(ivFile, Torn)
    /\ UNCHANGED <<switches, onRecord>>
    /\ GoDown

\* The process dies once the file has it.
DiesAfterRecord ==
    /\ filterStage = "valued" /\ ~OnRecord(evaluatedAt)
    /\ ivFile' = Append(ivFile, evaluatedAt) /\ onRecord' = onRecord \cup {evaluatedAt}
    /\ UNCHANGED switches
    /\ Down(snapshotAt)

\* iv_rank_filter_enabled
DropByRank ==
    /\ filterStage = "recorded" /\ switches.rankFilter /\ ~Allows(verdict)
    /\ UNCHANGED <<switches, evaluatedAt, snapshotAt, ivHistory, ivFile, onRecord>>
    /\ Leave("idle")

\* The limits on volatility, delta, extrinsic value and friction, the liquidity
\* at lunch or the meta filter drop the entry, or none does and it goes on.
DropByLimits ==
    /\ filterStage = "recorded" /\ (switches.rankFilter => Allows(verdict))
    /\ UNCHANGED <<switches, evaluatedAt, snapshotAt, ivHistory, ivFile, onRecord>>
    /\ Leave("idle")

PassOn ==
    /\ filterStage = "recorded" /\ (switches.rankFilter => Allows(verdict))
    /\ switches.analytics => Valued(evaluatedAt)
    /\ UNCHANGED <<switches, evaluatedAt, snapshotAt, ivHistory, ivFile, onRecord>>
    /\ Leave("entering")

-----------------------------------------------------------------------------
(* The steps around it                                                     *)

\* The step ends; another signal is evaluated when no position is open.
SaveEvaluation ==
    /\ filterStage \in {"idle", "entering"}
    /\ filterStage' = "idle" /\ snapshotAt' = evaluatedAt
    /\ UNCHANGED <<candidates, switches, evaluatedAt, ivHistory, ivFile, verdict, onRecord>>

\* An append to the telemetry fails, or the process dies.
EvaluationEnds ==
    /\ filterStage \notin {"down", "refused"}
    /\ UNCHANGED <<switches, ivFile, onRecord>>
    /\ GoDown

\* load_history; the frames after the snapshot come again.
StartFilters ==
    /\ filterStage = "down"
    /\ IF Contains(ivFile, Torn)
       THEN filterStage' = "refused" /\ UNCHANGED ivHistory
       ELSE filterStage' = "idle" /\ ivHistory' = ivFile
    /\ UNCHANGED <<candidates, switches, evaluatedAt, snapshotAt, ivFile, verdict, onRecord>>

FiltersNext ==
    \/ DropUnvalued \/ SkipAnalytics \/ ValueSeries \/ RecordVolatility \/ RecordIsCut \/ DiesAfterRecord
    \/ DropByRank \/ DropByLimits \/ PassOn
    \/ SaveEvaluation \/ EvaluationEnds \/ StartFilters

-----------------------------------------------------------------------------

\* The percentile an entry is judged by is of its instant: it counts every
\* volatility of the same side on record from before it once, in the last
\* sessions that had any, and nothing from its own time or later, whatever
\* steps came twice and whatever a crash left in the file; with too few
\* sessions there is none (ALGORITMO.md:214).
RankIsPointInTime ==
    LET before == {u \in onRecord : u < evaluatedAt /\ Comparable(candidates, u, evaluatedAt)}
        sessions == {SessionOf(u) : u \in before}
        window == {u \in before :
                    Cardinality({d \in sessions : d > SessionOf(u)}) < WindowSessions}
    IN  filterStage \in {"valued", "recorded"} /\ Valued(evaluatedAt) =>
            verdict =
                IF Cardinality(sessions) < MinSessions THEN NoRank
                ELSE [below |-> Cardinality({u \in window : candidates[u].iv <= candidates[evaluatedAt].iv}),
                      total |-> Cardinality(window)]
=============================================================================
