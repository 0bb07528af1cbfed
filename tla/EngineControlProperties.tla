----------------------- MODULE EngineControlProperties -----------------------
(***************************************************************************)
(* What the trading loop promises (first part), and what the repository    *)
(* says of it that the code does not keep (second part).                   *)
(***************************************************************************)
EXTENDS EngineControl

\* A buy in flight is authorised by what holds now, not only by what held when
\* the step began: between the guard of step and the order lie the account
\* refresh and every filter (app.rs evaluate_entry, execute_order).
BuyInFlightIsAuthorised ==
    run = "Running" /\ pc = "buying" =>
        /\ Flat(engine) /\ engine.state = "Buying"
        /\ ~risk.kill /\ ~blocked /\ ~paused
        /\ ~LossReached(risk, Limits)
        /\ risk.trades < Limits.trades

\* Once the day's realised loss reaches the general limit the kill switch is on
\* and stays on that day, through stage changes (which change the limit) and
\* through the operator's key (risk.rs record_close, resume).  The trade a
\* failed Learning report loses is never counted, so it cannot break this.
DailyLossLatched == risk.realized <= -MaxDailyLoss => risk.kill

\* Trades and loss are counted at the close only, so a day may end past its
\* limit by the trade that crossed it, and by what the account itself added:
\* allow_entry is never asked about an adopted position.
DailyTradesBounded ==
    risk.trades <= MaxTradesPerDay + adopted - (IF Flat(engine) THEN 0 ELSE 1)
DailyLossBounded ==
    risk.realized > -MaxDailyLoss - WorstLoss * (adopted + (IF Flat(engine) THEN 1 ELSE 0))

\* A block that is not the calibration's comes with the operational halt, and
\* with an engine that is halted or holds a position it may not sell; keys,
\* account answers, rollover and exits change none of it (block_reconciliation).
Frozen ==
    risk.kill /\ risk.reason = "Operational" /\ (engine.state = "Halted" \/ ~Flat(engine))
BlockedIsFrozen == blocked /\ context # "Mismatch" /\ run # "Stopped" => Frozen

\* A block is never lifted while the program runs, and no order leaves under it.
BlockIsFinal ==
    [][blocked /\ run # "Stopped" =>
        blocked' /\ (pc' \in OrderPhases => pc' = pc)]_vars

\* An operational halt can only turn into a daily-loss halt, never into a
\* released switch or a manual halt (which the key could release), and not even
\* a restart lifts it.
OperationalHaltStays ==
    [][risk.kill /\ risk.reason = "Operational" =>
        risk'.kill /\ risk'.reason \in {"Operational", "DailyLoss"}]_vars

\* No handler leaves an engine able to consider entries while the kill switch is
\* on: whichever engages the switch or closes the position also halts.  Only a
\* start may inherit such an engine, from a close whose report failed.
KilledIdle == risk.kill /\ Flat(engine) /\ engine.state # "Halted"
KillHaltsTheFlatEngine ==
    [][run = "Running" /\ run' # "Stopped" /\ KilledIdle' => KilledIdle]_vars

\* A step that began ends, whatever IOL answers (HTTP calls have timeouts).
InStep == run = "Running" /\ pc \notin {"idle", "retry"}
StepEnds == InStep ~> ~InStep

-----------------------------------------------------------------------------
(* The inductive strengthening the proofs use.                             *)

\* What each part of a step may rely on from the parts before it.
PhaseInv ==
    run = "Running" =>
        /\ pc \in {"refresh", "fresh", "exit", "selling", "manual", "buying"} => ~blocked
        /\ pc \in {"return", "promote", "promoting", "entry", "select"} /\ blocked => Frozen
        /\ pc \in {"exit", "selling", "manual"} => ~Flat(engine)
        /\ pc = "select" => ~paused /\ ~KilledIdle

\* Nothing has been counted or adopted before the first frame.
BeforeFirstFrame ==
    risk.day = NoDay =>
        /\ risk.realized = 0 /\ risk.trades = 0 /\ adopted = 0 /\ Flat(engine)
        /\ run = "Running" => pc \in {"idle", "retry"}

ControlInv == PhaseInv /\ BuyInFlightIsAuthorised /\ BlockedIsFrozen
BudgetInv == BeforeFirstFrame /\ DailyLossLatched /\ DailyTradesBounded /\ DailyLossBounded
LoopInv == TypeOK /\ ControlInv /\ BudgetInv

-----------------------------------------------------------------------------
(* Statements of the repository the code does not keep.                    *)

\* docs/ALGORITMO.md:26: a daily-loss kill switch is released when a new day
\* begins; a manual or operational one requires intervention or reconciliation.
HaltNeedsIntervention == owed # {} => risk.kill
=============================================================================
