------------------------------ MODULE EvidenceGate ------------------------------
(***************************************************************************)
(* What closes have to show before real money, and what takes it away:     *)
(* the report of Learning, the gate of Canary and the regression test      *)
(* (src/src/learning.rs; record_stage_trade, canary_eligible and           *)
(* apply_pending_learning_return in src/src/app.rs).  Results are whole    *)
(* numbers.  All positions risk the same, so the bounds of the multiples   *)
(* of risk have the sign of those of the results.  Readiness, grants and   *)
(* the account, which a promotion also needs, are LiveStage's.             *)
(***************************************************************************)
EXTENDS Integers, Sequences, SequencesExt, FiniteSetsExt, Functions

CONSTANTS
    Results,                    \* bound: the net results of closes
    LastSession,                \* bound: sessions are 1..LastSession
    MaxShadow, MaxReal,         \* bounds: closes in Learning, and after it
    Stress,                     \* what stressed_net_pnl takes off a result
    MinCloses, MinPerSide, MinDays, MinFactor,    \* the gate; the factor in percent
    MaxDailyLoss,
    Window, MaxLossRun,          \* the regression test
    CanaryMinimum, CanaryPerSide, CanaryDays

ASSUME GateAssumption ==
    /\ Results \subseteq Int
    /\ {LastSession, MaxShadow, MaxReal, Stress, MinPerSide, CanaryPerSide, MaxDailyLoss} \subseteq Nat
    /\ {MinCloses, MinDays, MinFactor, Window, MaxLossRun, CanaryMinimum, CanaryDays} \subseteq Nat \ {0}

VARIABLES
    gateStage,      \* live_stage; Eligible and Armed are "Armed" here
    shadow,         \* learning_state.trades: [side, session, result, source]
    approved,       \* learning_state.approved
    performance,    \* trading_performance
    returning,      \* return_to_learning_pending
    earned          \* history: the closes of Canary since it began

evidence == <<gateStage, shadow, approved, performance, returning, earned>>

GateInit ==
    /\ gateStage = "Learning" /\ shadow = <<>> /\ approved = FALSE
    /\ performance = <<>> /\ returning = FALSE /\ earned = <<>>

-----------------------------------------------------------------------------
(* Sums of closes                                                          *)

OnSide(s, side) == SelectSeq(s, LAMBDA c : c.side = side)
InSession(s, day) == SelectSeq(s, LAMBDA c : c.session = day)
Days(s) == {c.session : c \in ToSet(s)}

SumOver(s, value(_)) == FoldLeft(LAMBDA sum, c : sum + value(c), 0, s)
Net(s) == SumOver(s, LAMBDA c : c.result)
Stressed(s) == SumOver(s, LAMBDA c : c.result - Stress)
Gain(s) == SumOver(s, LAMBDA c : IF c.result > 0 THEN c.result ELSE 0)

\* profit_factor; without losses it is as large as may be
FactorReaches(s, percent) ==
    LET loss == Gain(s) - Net(s)
    IN  IF loss = 0 THEN Gain(s) > 0 ELSE 100 * Gain(s) >= percent * loss

\* max_drawdown
Drawdown(s) ==
    LET AddClose(d, c) ==
            LET equity == d.equity + c.result
                peak == Max({d.peak, equity})
            IN  [equity |-> equity, peak |-> peak, worst |-> Max({d.worst, peak - equity})]
    IN  FoldLeft(AddClose, [equity |-> 0, peak |-> 0, worst |-> 0], s).worst
DailyDrawdown(s) == Max({0} \cup {Drawdown(InSession(s, day)) : day \in Days(s)})

-----------------------------------------------------------------------------
(* block_bootstrap_lower_95: 1000 times as many sessions as there are are  *)
(* drawn, with a generator of 64 bits (8 bytes, the lowest first)          *)

Multiplier == <<45, 127, 149, 76, 45, 244, 81, 88>>
\* 21 XOR n, for less than 256 sessions: the bits both have are taken off twice.
Seed(n) ==
    LET both == (n % 2) + 4 * ((n \div 4) % 2) + 16 * ((n \div 16) % 2)
    IN  <<21 + n - 2 * both, 124, 74, 127, 185, 121, 55, 158>>
\* wrapping_mul and wrapping_add(1)
NextState(s) ==
    LET Column(k) == MapThenSumSet(LAMBDA i : Multiplier[i] * s[k + 1 - i], 1..k)
        total[k \in 1..8] == Column(k) + (IF k = 1 THEN 1 ELSE total[k - 1] \div 256)
    IN  [k \in 1..8 |-> total[k] % 256]
Remainder(s, n) ==
    LET high[i \in 0..8] == IF i = 0 THEN 0 ELSE (256 * high[i - 1] + s[9 - i]) % n
    IN  high[8]

Iterate(op(_), times, first) ==
    LET after[i \in 0..times] ==
            IF i = 0 THEN first ELSE CHOOSE next \in {op(from) : from \in {after[i - 1]}} : TRUE
    IN  after[times]

Draw(d) ==
    LET state == NextState(d.state)
        block == 1 + Remainder(state, Len(d.drawn))
    IN  [state |-> state, drawn |-> [d.drawn EXCEPT ![block] = @ + 1]]
Resample(r) ==
    LET d == Iterate(Draw, r.n, [state |-> r.state, drawn |-> [block \in 1..r.n |-> 0]])
        before == IF d.drawn \in DOMAIN r.tally THEN r.tally[d.drawn] ELSE 0
        after == [drawn \in DOMAIN r.tally \cup {d.drawn} |->
                    IF drawn = d.drawn THEN before + 1 ELSE r.tally[drawn]]
    IN  [r EXCEPT !.state = d.state, !.tally = after]
\* 1000 times, in two levels: each is one recursion.
ResampleSome(r) == Iterate(Resample, 25, r)
Tally(n) == Iterate(ResampleSome, 40, [n |-> n, state |-> Seed(n), tally |-> <<>>]).tally

\* How often each session was drawn, and how many of the 1000 resamples drew so.
Tallies == [n \in 2..LastSession |-> Tally(n)]

\* What each session made, the first one first.
Blocks(s) ==
    FoldLeft(LAMBDA blocks, day : Append(blocks, Net(InSession(s, day))), <<>>,
             SetToSortSeq(Days(s), LAMBDA d, e : d < e))
\* The mean of a resample is its total over how many closes it has.
SumOf(s) == FoldLeft(+, 0, s)
TotalOf(blocks, drawn) == SumOf([i \in DOMAIN blocks |-> drawn[i] * blocks[i]])

\* How many of the 1000 resamples lose.
Losses(blocks) ==
    LET tally == Tallies[Len(blocks)]
        lost == {drawn \in DOMAIN tally : TotalOf(blocks, drawn) <= 0}
    IN  MapThenSumSet(LAMBDA drawn : tally[drawn], lost)

\* means[24] > 0: fewer than 25 of the resamples lose.
LowerBoundIsPositive(s) == Len(Blocks(s)) >= 2 /\ Losses(Blocks(s)) < 25

-----------------------------------------------------------------------------
(* The gates                                                               *)

Sides == {"call", "put"}

\* LearningReport::eligible
EvidenceSuffices(s) ==
    /\ Len(s) >= MinCloses /\ Cardinality(Days(s)) >= MinDays
    /\ \A side \in Sides : Len(OnSide(s, side)) >= MinPerSide
    /\ Net(s) > 0 /\ Stressed(s) > 0 /\ FactorReaches(s, MinFactor)
    /\ Drawdown(s) <= 2 * MaxDailyLoss /\ DailyDrawdown(s) <= MaxDailyLoss
    /\ \A side \in Sides :
        LET closes == OnSide(s, side)
        IN  /\ Net(closes) > 0 /\ Stressed(closes) > 0 /\ FactorReaches(closes, MinFactor)
            /\ LowerBoundIsPositive(closes)

\* trading_regressed
Regressed(s) ==
    LET recent == SubSeq(s, Len(s) - Window + 1, Len(s))
        run == {n \in 1..Len(s) : \A i \in Len(s) - n + 1..Len(s) : s[i].result <= 0}
    IN  \/ Cardinality(run) >= MaxLossRun
        \/ /\ Len(s) >= Window
           /\ \/ Net(recent) <= 0
              \/ ~FactorReaches(recent, 100)
              \/ Drawdown(recent) > 2 * MaxDailyLoss

CanaryCloses(s) == SelectSeq(s, LAMBDA c : c.source = "Canary")

\* canary_eligible
CanaryEligible(s) ==
    /\ Len(s) >= CanaryMinimum /\ Cardinality(Days(s)) >= CanaryDays
    /\ Stressed(s) > 0
    /\ \A side \in Sides : Len(OnSide(s, side)) >= CanaryPerSide /\ Stressed(OnSide(s, side)) > 0
    /\ ~Regressed(s)

-----------------------------------------------------------------------------

\* A position closes; sessions do not go back.
Source == IF gateStage \in {"Learning", "Armed"} THEN "Shadow" ELSE gateStage
Close(s) ==
    {[side |-> side, session |-> day, result |-> result, source |-> Source] :
        side \in Sides, result \in Results,
        day \in IF s = <<>> THEN {1} ELSE {d \in 1..LastSession : d - Last(s).session \in {0, 1}}}

CloseInLearning ==
    /\ gateStage = "Learning" /\ Len(shadow) < MaxShadow
    /\ \E close \in Close(shadow) :
        /\ shadow' = Append(shadow, close)
        /\ approved' = EvidenceSuffices(shadow')
    /\ UNCHANGED <<gateStage, performance, returning, earned>>

\* The closes and the approval, which nothing here reads before they are reset,
\* are forgotten.
PromoteLearning ==
    /\ gateStage = "Learning" /\ approved
    /\ IF EvidenceSuffices(shadow) THEN gateStage' = "Armed" /\ shadow' = <<>>
       ELSE UNCHANGED <<gateStage, shadow>>
    /\ approved' = FALSE
    /\ UNCHANGED <<performance, returning, earned>>

\* A step goes back, when that is due, before it goes on.
StartCanary ==
    /\ gateStage = "Armed" /\ ~returning
    /\ gateStage' = "Canary" /\ earned' = <<>>
    /\ UNCHANGED <<shadow, approved, performance, returning>>

\* dayIsLost: with this close the day reaches the loss of its stage.
CloseInTrading ==
    /\ gateStage # "Learning" /\ Len(performance) < MaxReal
    /\ \E close \in Close(performance), dayIsLost \in BOOLEAN :
        /\ performance' = Append(performance, close)
        /\ returning' = (returning \/ dayIsLost \/ Regressed(performance'))
        /\ earned' = IF gateStage = "Canary" THEN Append(earned, close) ELSE earned
    /\ UNCHANGED <<gateStage, shadow, approved>>

PromoteCanary ==
    /\ gateStage = "Canary" /\ ~returning
    /\ CanaryEligible(CanaryCloses(performance))
    /\ gateStage' = "Live" /\ performance' = <<>>
    /\ UNCHANGED <<shadow, approved, returning, earned>>

ReturnToLearning ==
    /\ gateStage # "Learning" /\ returning
    /\ gateStage' = "Learning" /\ returning' = FALSE
    /\ shadow' = <<>> /\ approved' = FALSE /\ performance' = <<>> /\ earned' = <<>>

GateNext ==
    \/ CloseInLearning \/ PromoteLearning \/ StartCanary
    \/ CloseInTrading \/ PromoteCanary \/ ReturnToLearning

GateSpec == GateInit /\ [][GateNext]_evidence

-----------------------------------------------------------------------------


\* The lower limit is one of 95 % (ALGORITMO.md:393): what the closes of a side
\* promise does not hang on a few of its sessions, and of all ways to draw as many
\* sessions as there are, at most one in twenty loses.  It does not hold: the
\* lowest bit of the generator alternates, so with an even number of sessions
\* every resample draws half from each half of them, and with a power of two
\* each session once (learning.rs:571).
EvidenceIsBroad ==
    approved =>
        \A side \in Sides :
            LET blocks == Blocks(OnSide(shadow, side))
                n == Len(blocks)
                lost == {draw \in [1..n -> 1..n] : SumOf([i \in 1..n |-> blocks[draw[i]]]) <= 0}
            IN  20 * Cardinality(lost) <= n ^ n

=============================================================================
