--------------------------- MODULE EngineControl ---------------------------
(***************************************************************************)
(* The control of the trading loop: TradingApp::step and the handlers it   *)
(* calls (src/src/app.rs), the keys of the TUI (src/src/tui.rs) and the    *)
(* shutdown (src/src/main.rs), over the risk manager and the engine.       *)
(*                                                                         *)
(* TradingApp runs on one task.  A step is cut at the points where it      *)
(* awaits the outside world or where the code reads again what an earlier  *)
(* part of the step decided; pc names the next part.  Market data, option  *)
(* selection and statistical gates are choices of the environment; guards, *)
(* early returns and error paths are those of the code.                    *)
(*                                                                         *)
(*   idle -> reconcile -> refresh -> fresh -> exit -> selling -> return    *)
(*                                -> promote -> promoting -> entry         *)
(*                                -> select -> buying -> idle              *)
(*                                                                         *)
(* "retry" is idle inside the TUI's reconnection loop and "manual" is the  *)
(* sale of the key c.                                                      *)
(***************************************************************************)
EXTENDS RiskManager, TradingEngine

CONSTANTS
    Configs,                \* the configurations considered: [live, tui]
    MaxDailyLoss, MaxTradesPerDay,              \* limits outside Canary
    CanaryMaxDailyLoss, CanaryMaxTradesPerDay,  \* limits in Canary
    PnLs,                   \* net results a closed trade may have
    WorstLoss,              \* no trade loses more than this
    Days,                   \* session days of the market frames
    MaxAdoptions            \* bound: positions the account may add per day

ASSUME ConfigAssumption == Configs \subseteq [live : BOOLEAN, tui : BOOLEAN]
\* Config::validate keeps every Canary limit within the general one.
ASSUME LimitAssumption ==
    /\ MaxDailyLoss \in Nat \ {0}
    /\ CanaryMaxDailyLoss \in 1..MaxDailyLoss
    /\ MaxTradesPerDay \in Nat \ {0}
    /\ CanaryMaxTradesPerDay \in 1..MaxTradesPerDay
ASSUME DomainAssumption ==
    /\ PnLs \subseteq Int
    /\ WorstLoss \in Nat
    /\ \A pnl \in PnLs : pnl >= -WorstLoss
    /\ Days \subseteq Nat \ {NoDay}
    /\ MaxAdoptions \in Nat

VARIABLES
    risk,           \* RiskManager.state
    engine,         \* TradingEngine
    stage,          \* live_stage
    returnPending,  \* return_to_learning_pending
    blocked,        \* reconciliation_blocked
    clear,          \* real_account_clear
    pending,        \* local_pending_orders is not empty
    reconciled,     \* startup_reconciled
    paused,
    config,         \* the configuration, fixed at start
    operational,    \* connection_operational
    context,        \* startup context: "Unloaded", "Loaded" or "Mismatch"
    run,            \* "Running", "Offline" (TUI gave up on IOL) or "Stopped"
    clean,          \* what Shutdown{clean} recorded
    pc,
    adopted,        \* history: positions adopted since the last rollover
    owed            \* history: manual/operational halts no operator released

control == <<stage, returnPending, blocked, clear, pending, reconciled>>
link == <<operational, context, config>>
session == <<paused, link, run, clean>>
history == <<adopted, owed>>
vars == <<risk, engine, control, session, pc, history>>

\* MODE=live with the IOL source (else readonly; a replay in MODE=live differs
\* from it only in the startup reconciliation and is left out), and driven by
\* tui::run (else run_headless).
Live == config.live
Tui == config.tui

LiveStage == {"Learning", "Eligible", "Armed", "Canary", "Live"}
Phases == {"idle", "retry", "reconcile", "refresh", "fresh", "exit", "selling",
           "manual", "return", "promote", "promoting", "entry", "select", "buying"}

\* An order's intent is journaled and its terminal state is not.
OrderPhases == {"selling", "manual", "buying"}

\* risk_limits_for_stage
LimitsFor(s) ==
    IF s = "Canary"
    THEN [loss |-> CanaryMaxDailyLoss, trades |-> CanaryMaxTradesPerDay]
    ELSE [loss |-> MaxDailyLoss, trades |-> MaxTradesPerDay]
Limits == LimitsFor(stage)

\* requires_real_order_route
RealRoute == Live /\ stage \in {"Canary", "Live"}

TypeOK ==
    /\ risk \in RiskStates(Days)
    /\ engine \in EngineStates
    /\ stage \in LiveStage
    /\ returnPending \in BOOLEAN
    /\ blocked \in BOOLEAN
    /\ clear \in BOOLEAN
    /\ pending \in BOOLEAN
    /\ reconciled \in BOOLEAN
    /\ paused \in BOOLEAN
    /\ config \in Configs
    /\ operational \in BOOLEAN
    /\ context \in {"Unloaded", "Loaded", "Mismatch"}
    /\ run \in {"Running", "Offline", "Stopped"}
    /\ clean \in BOOLEAN
    /\ pc \in Phases
    /\ adopted \in Nat
    /\ owed \subseteq {"Manual", "Operational"}

\* new_with_source without a snapshot: Learning, nothing open.  The unresolved
\* orders come from whatever journal there is.
Init ==
    /\ config \in Configs
    /\ risk = RiskDefault
    /\ engine = EngineNew
    /\ stage = "Learning"
    /\ pending \in BOOLEAN
    /\ returnPending = FALSE /\ blocked = FALSE /\ clear = FALSE /\ reconciled = FALSE
    /\ paused = FALSE /\ operational = FALSE /\ context = "Unloaded"
    /\ run = "Running" /\ clean = FALSE /\ pc = "idle"
    /\ adopted = 0 /\ owed = {}

At(phase) == run = "Running" /\ pc = phase
BetweenSteps == run = "Running" /\ pc \in {"idle", "retry"}
Loaded == context # "Unloaded"

-----------------------------------------------------------------------------
(* Pieces shared by the handlers.                                          *)

\* engage_operational_halt, with the history of the halts somebody must lift.
HaltRisk ==
    /\ risk' = EngageOperationalHalt(risk)
    /\ owed' = owed \cup {"Operational"}

\* engage_operational_halt together with engine.halt(), as
\* halt_for_market_risk and the storage check do.
HaltTrading == HaltRisk /\ engine' = Halt(engine)

\* Mutant: the block engages the kill switch and leaves the engine running.
BlockWithoutHalt == HaltRisk /\ blocked' = TRUE /\ UNCHANGED engine

\* block_reconciliation
BlockReconciliation == HaltTrading /\ blocked' = TRUE

\* The common end of every ambiguous real order: pending, blocked, not clear.
QuarantineOrder == BlockReconciliation /\ pending' = TRUE /\ clear' = FALSE

\* The early return of maybe_promote_live, and the guard of step before
\* evaluate_entry (its signal, market and cooldown tests are the environment's).
MayPromote == Flat(engine) /\ ~blocked /\ ~risk.kill
EntryGuard == ~paused /\ Flat(engine) /\ ~risk.kill

\* shutdown_with_status(requested): the cost refresh may still find a contract
\* multiplier that does not match, which blocks and reschedules Learning; it is
\* left out when the shutdown is unclean anyway, for the process ends here.
ShutdownWith(requested, isBlocked, isPending, isFlat, killed) ==
    \E mismatch \in BOOLEAN :
        /\ mismatch => Live /\ requested
        /\ run' = "Stopped"
        /\ blocked' = (isBlocked \/ mismatch)
        /\ returnPending' = IF mismatch THEN stage # "Learning" ELSE returnPending
        /\ clean' = /\ requested /\ operational /\ ~killed /\ isFlat
                    /\ ~blocked' /\ ~isPending

\* apply_pending_learning_return, given what return_to_learning_pending holds.
ApplyReturn(due) ==
    IF stage # "Learning" /\ due /\ Flat(engine)
    THEN stage' = "Learning" /\ returnPending' = FALSE
    ELSE stage' = stage /\ returnPending' = due

-----------------------------------------------------------------------------
(* The account: what apply_account_snapshot does with IOL's answer.        *)

\* Funds missing or invalid, orders pending, more than one option, a local
\* position IOL lacks or holds differently, or a remote one that cannot be
\* reconstructed.  Only Learning clears real_account_clear on this path.
AccountBlocks ==
    /\ BlockReconciliation
    /\ clear' \in IF stage = "Learning" THEN {clear, FALSE} ELSE {clear}
    /\ UNCHANGED adopted

\* No options and no orders: Learning ignores its own simulated position.
AccountClean ==
    /\ stage = "Learning" \/ Flat(engine)
    /\ clear' = TRUE
    /\ UNCHANGED <<risk, engine, blocked, adopted, owed>>

\* The remote position is the local one: the engine resumes, halted or not.
AccountMatches ==
    /\ stage # "Learning" /\ ~Flat(engine)
    /\ engine' = Resume(engine)
    /\ clear' = FALSE
    /\ UNCHANGED <<risk, blocked, adopted, owed>>

\* reconstruct_account_position: a position nobody here opened is adopted.
\* Unverified metadata or an exposure over budget engages the kill switch
\* without halting the engine.
AccountAdopts ==
    /\ stage # "Learning" /\ Flat(engine)
    /\ adopted < MaxAdoptions
    /\ \E origin \in {"Adopted", "Unverified"}, overBudget \in BOOLEAN :
        /\ engine' = OpenPosition(engine, origin)
        /\ IF origin = "Unverified" \/ overBudget THEN HaltRisk
           ELSE UNCHANGED <<risk, owed>>
    /\ adopted' = adopted + 1
    /\ UNCHANGED <<blocked, clear>>

ApplyAccount == AccountBlocks \/ AccountClean \/ AccountMatches \/ AccountAdopts

\* The query fails with a retryable error: Err(AppError::Connection).  The TUI
\* enters its reconnection loop; headless, the error ends the run.
AccountPhases == {"reconcile", "refresh", "promote", "entry"}
AccountUnreachable ==
    /\ run = "Running" /\ Live /\ pc \in AccountPhases
    /\ pc = "reconcile" => ~reconciled
    /\ pc = "promote" => MayPromote /\ stage \in {"Eligible", "Armed"}
    /\ pc = "entry" => EntryGuard /\ RealRoute
    /\ IF Tui
       THEN pc' = "retry" /\ UNCHANGED <<control, session>>
       ELSE /\ ShutdownWith(FALSE, blocked, pending, Flat(engine), risk.kill)
            /\ UNCHANGED <<stage, clear, pending, reconciled, paused, link, pc>>
    /\ UNCHANGED <<risk, engine, history>>

-----------------------------------------------------------------------------
(* The start of a step.                                                    *)

\* initialize_iol_context and apply_cost_calibration.  A multiplier that does
\* not match blocks without touching risk or engine, and overwrites a pending
\* return to Learning; changed costs schedule one.
LoadContext ==
    /\ BetweenSteps /\ ~Loaded
    /\ \E mismatch, costsChanged \in BOOLEAN :
        /\ mismatch => Live
        /\ context' = IF mismatch THEN "Mismatch" ELSE "Loaded"
        /\ blocked' = (blocked \/ mismatch)
        /\ returnPending' =
            IF mismatch \/ costsChanged
            THEN stage # "Learning" \/ (returnPending /\ ~mismatch)
            ELSE returnPending
    /\ operational' = TRUE
    /\ pc' = "idle"
    /\ UNCHANGED <<risk, engine, stage, clear, pending, reconciled, paused, config, run, clean, history>>

\* require_capacity refuses: the step ends before asking for a frame.
StorageExhausted ==
    /\ BetweenSteps /\ (Tui => Loaded)
    /\ HaltTrading
    /\ pc' = "idle"
    /\ UNCHANGED <<control, session, adopted>>

\* A frame arrives; its day is not earlier than the last one.  rollover.
ReceiveFrame(day) ==
    /\ BetweenSteps /\ Loaded
    /\ day >= risk.day
    /\ risk' = Rollover(risk, day)
    /\ adopted' = IF day = risk.day THEN adopted ELSE 0
    /\ pc' = "reconcile"
    /\ UNCHANGED <<engine, control, session, owed>>

\* next_frame fails: as AccountUnreachable, from the start of the step.
FrameUnreachable ==
    /\ BetweenSteps /\ Live
    /\ IF Tui
       THEN Loaded /\ pc' = "retry" /\ UNCHANGED <<control, session>>
       ELSE /\ ShutdownWith(FALSE, blocked, pending, Flat(engine), risk.kill)
            /\ UNCHANGED <<stage, clear, pending, reconciled, paused, link, pc>>
    /\ UNCHANGED <<risk, engine, history>>

\* The TUI's retries are exhausted: mark_connection_not_operational.
MarkNotOperational ==
    /\ Tui /\ At("retry")
    /\ HaltTrading
    /\ operational' = FALSE /\ paused' = TRUE /\ run' = "Offline" /\ pc' = "idle"
    /\ UNCHANGED <<control, context, config, clean, adopted>>

-----------------------------------------------------------------------------
(* Reconciliation, account refresh and stage degradation.                  *)

\* reconcile_startup has nothing left to do.
AlreadyReconciled ==
    /\ At("reconcile") /\ reconciled
    /\ pc' = IF blocked THEN "idle" ELSE "refresh"
    /\ UNCHANGED <<risk, engine, control, session, history>>

\* Readonly: unresolved local orders block, otherwise the state is accepted.
ReconcileReadonly ==
    /\ At("reconcile") /\ ~reconciled /\ ~Live
    /\ reconciled' = TRUE
    /\ IF pending THEN BlockReconciliation
       ELSE UNCHANGED <<risk, engine, blocked, owed>>
    /\ pc' = IF blocked' THEN "idle" ELSE "refresh"
    /\ UNCHANGED <<stage, returnPending, clear, pending, session, adopted>>

\* Live: IOL's account decides, whatever local_pending_orders says.  An adopted
\* position leaves last_account_reconciliation_secs alone: the refresh is due.
ReconcileAccount ==
    /\ At("reconcile") /\ ~reconciled /\ Live
    /\ ApplyAccount
    /\ reconciled' = TRUE
    /\ pc' = IF blocked' THEN "idle" ELSE IF adopted' = adopted THEN "fresh" ELSE "refresh"
    /\ UNCHANGED <<stage, returnPending, pending, session>>

\* The account is looked at again once a minute.
RefreshNotDue ==
    /\ At("refresh")
    /\ pc' = "fresh"
    /\ UNCHANGED <<risk, engine, control, session, history>>

RefreshAccount ==
    /\ At("refresh") /\ Live
    /\ ApplyAccount
    /\ pc' = IF blocked' THEN "idle" ELSE "fresh"
    /\ UNCHANGED <<stage, returnPending, pending, reconciled, session>>

\* The calibration expired, or Canary/Live lost its authorisation.
DegradeStage ==
    /\ At("fresh") /\ stage # "Learning" /\ ~returnPending
    /\ ApplyReturn(TRUE)
    /\ UNCHANGED <<risk, engine, blocked, clear, pending, reconciled, session, pc, history>>

\* The underlying is too old: halt_for_market_risk ends the step.
StaleUnderlying ==
    /\ At("fresh")
    /\ HaltTrading
    /\ pc' = "idle"
    /\ UNCHANGED <<control, session, adopted>>

FreshUnderlying ==
    /\ At("fresh")
    /\ pc' = IF Flat(engine) THEN "return" ELSE "exit"
    /\ UNCHANGED <<risk, engine, control, session, history>>

-----------------------------------------------------------------------------
(* Exits: evaluate_exit, close_position, execute_order for a sale.         *)

\* No price, or no reason to leave.
HoldPosition ==
    /\ At("exit")
    /\ pc' = "return"
    /\ UNCHANGED <<risk, engine, control, session, history>>

\* The position cannot be valued or a mandatory exit has no bid.
ExitImpossible ==
    /\ At("exit")
    /\ HaltTrading
    /\ pc' = "return"
    /\ UNCHANGED <<control, session, adopted>>

\* The sale's intent is journaled and the order goes out.
StartSale(next) ==
    /\ engine' = MarkSelling(engine)
    /\ pc' = next
    /\ UNCHANGED <<risk, control, session, history>>

\* A real sale whose multiplier is not verified never leaves: Err.
\* Frozen metadata verifies every position except an unverified one.
RefuseSale ==
    /\ RealRoute /\ engine.position \notin {"Bought", "Adopted"}
    /\ risk' = EngageOperationalHalt(risk)
    /\ owed' = owed \cup {"Operational"}
    /\ engine' = Halt(engine)
    /\ clear' = FALSE
    /\ ShutdownWith(FALSE, TRUE, pending, FALSE, TRUE)
    /\ UNCHANGED <<stage, pending, reconciled, paused, link, pc, adopted>>

ExitPosition == At("exit") /\ (StartSale("selling") \/ RefuseSale)

\* Mutant: the key c forgets the block.
ManualCloseAlways ==
    /\ Tui /\ At("idle") /\ Loaded /\ ~Flat(engine)
    /\ StartSale("manual") \/ RefuseSale

\* The key c, only between steps.  It is refused (Err) while blocked.
ManualClose ==
    /\ Tui /\ At("idle") /\ Loaded /\ ~blocked /\ ~Flat(engine)
    /\ StartSale("manual") \/ RefuseSale
ManualCloseBlocked ==
    /\ Tui /\ At("idle") /\ Loaded /\ blocked
    /\ ShutdownWith(FALSE, blocked, pending, Flat(engine), risk.kill)
    /\ UNCHANGED <<risk, engine, stage, clear, pending, reconciled, paused, link, pc, history>>

Selling == run = "Running" /\ pc \in {"selling", "manual"}
AfterSale == IF pc = "manual" THEN "idle" ELSE "return"

\* The sale is filled: PositionClosed is journaled, the engine goes flat,
\* record_stage_trade (a real regression schedules Learning), record_close_at,
\* and the engine halts again if the kill switch is on.
SaleFilled(pnl) ==
    /\ Selling
    /\ risk' = RecordCloseAt(risk, Limits, risk.day, pnl)
    /\ engine' = IF risk'.kill THEN Halt(Close(engine)) ELSE Close(engine)
    /\ returnPending' \in
        IF stage = "Learning" THEN {returnPending}
        ELSE IF risk.realized + pnl <= -Limits.loss THEN {TRUE}
        ELSE {returnPending, TRUE}
    /\ pc' = AfterSale
    /\ UNCHANGED <<stage, blocked, clear, pending, reconciled, session, history>>

\* Learning writes its report before the risk manager hears of the trade; the
\* write fails and the error ends the run.
LearningReportFails ==
    /\ Selling /\ stage = "Learning"
    /\ engine' = Close(engine)
    /\ ShutdownWith(FALSE, blocked, pending, TRUE, risk.kill)
    /\ pc' = "idle"
    /\ UNCHANGED <<risk, stage, clear, pending, reconciled, paused, link, history>>

\* handle_unfilled_order.  is_real_trading() is evaluated again here: for a
\* buy it needs the catalogue to be fresh still.
Unfilled(filledSome, stillVerified, next) ==
    /\ IF RealRoute /\ stillVerified /\ filledSome
       THEN QuarantineOrder
       ELSE /\ engine' = Resume(engine)
            /\ UNCHANGED <<risk, blocked, pending, clear, owed>>
    /\ pc' = next
    /\ UNCHANGED <<stage, returnPending, reconciled, session, adopted>>

SaleUnfilled ==
    /\ Selling
    /\ \E filledSome, stillVerified \in BOOLEAN :
        /\ engine.position \in {"Bought", "Adopted"} => stillVerified
        /\ Unfilled(filledSome, stillVerified, AfterSale)

\* record_unknown_order: submit or tracking failed, or an execution came back
\* without a broker id.  The error ends the run.
OrderUnknown ==
    /\ run = "Running" /\ pc \in OrderPhases /\ RealRoute
    /\ risk' = EngageOperationalHalt(risk)
    /\ owed' = owed \cup {"Operational"}
    /\ engine' = Halt(engine)
    /\ pending' = TRUE /\ clear' = FALSE
    /\ ShutdownWith(FALSE, TRUE, TRUE, Flat(engine), TRUE)
    /\ UNCHANGED <<stage, reconciled, paused, link, pc, adopted>>

-----------------------------------------------------------------------------
(* Stage changes when flat: apply_pending_learning_return, maybe_promote.  *)

ReturnToLearning ==
    /\ At("return")
    /\ ApplyReturn(returnPending)
    /\ pc' = "promote"
    /\ UNCHANGED <<risk, engine, blocked, clear, pending, reconciled, session, history>>

\* Nothing to promote, or a gate keeps the stage.
KeepStage ==
    /\ At("promote")
    /\ ~(Live /\ MayPromote /\ stage = "Armed")
    /\ pc' = "entry"
    /\ UNCHANGED <<risk, engine, control, session, history>>

\* Learning -> Eligible and Canary -> Live depend on statistics only.
PromoteOnEvidence ==
    /\ At("promote") /\ MayPromote
    /\ \/ stage = "Learning" /\ stage' = "Eligible"
       \/ stage = "Canary" /\ stage' = "Live"
    /\ pc' = "entry"
    /\ UNCHANGED <<risk, engine, returnPending, blocked, clear, pending, reconciled, session, history>>

\* Eligible and Armed refresh the account first; a recent clean answer is reused.
PreflightAccount ==
    /\ At("promote") /\ MayPromote /\ Live /\ stage \in {"Eligible", "Armed"}
    /\ \/ ApplyAccount
       \/ clear /\ UNCHANGED <<risk, engine, blocked, clear, adopted, owed>>
    /\ pc' = "promoting"
    /\ UNCHANGED <<stage, returnPending, pending, reconciled, session>>

\* Mutant: an account that is not clear gets no answer.
PromoteWhenClear ==
    /\ At("promoting") /\ clear
    /\ \/ stage = "Eligible" /\ stage' = "Armed"
       \/ stage = "Armed" /\ stage' = "Canary"
       \/ stage = "Eligible" /\ stage' = stage
    /\ pc' = "entry"
    /\ UNCHANGED <<risk, engine, returnPending, blocked, clear, pending, reconciled, session, history>>

\* real_account_clear is all that is read after the refresh.
PromoteOnPreflight ==
    /\ At("promoting")
    /\ \/ clear /\ stage = "Eligible" /\ stage' = "Armed"
       \/ clear /\ stage = "Armed" /\ stage' = "Canary"
       \/ (clear => stage = "Eligible") /\ stage' = stage
    /\ pc' = "entry"
    /\ UNCHANGED <<risk, engine, returnPending, blocked, clear, pending, reconciled, session, history>>

-----------------------------------------------------------------------------
(* Entries: the guard of step, evaluate_entry, execute_order for a buy.    *)

\* No confirmed signal, market gate closed, cooldown, or the guard says no.
SkipEntry ==
    /\ At("entry")
    /\ pc' = "idle"
    /\ UNCHANGED <<risk, engine, control, session, history>>

ConsiderSimulatedEntry ==
    /\ At("entry") /\ EntryGuard /\ ~RealRoute
    /\ pc' = "select"
    /\ UNCHANGED <<risk, engine, control, session, history>>

\* A real entry refreshes the account first and goes on if it is clear.
ConsiderRealEntry ==
    /\ At("entry") /\ EntryGuard /\ RealRoute
    /\ ApplyAccount
    /\ pc' = IF clear' THEN "select" ELSE "idle"
    /\ UNCHANGED <<stage, returnPending, pending, reconciled, session>>

\* consider_entry says no, or one of the filters rejects and resumes.
RejectEntry ==
    /\ At("select")
    /\ engine' = IF CanConsiderEntry(engine) THEN Resume(ConsiderEntry(engine)) ELSE engine
    /\ pc' = "idle"
    /\ UNCHANGED <<risk, control, session, history>>

\* Every filter passed and the risk manager allows it; the intent is durable
\* and the order goes out.
SubmitEntry ==
    /\ At("select") /\ CanConsiderEntry(engine)
    /\ AllowEntry(Rollover(risk, risk.day), Limits, TRUE)
    /\ engine' = MarkBuying(ConsiderEntry(engine))
    /\ pc' = "buying"
    /\ UNCHANGED <<risk, control, session, history>>

\* A real buy that lost its authorisation or its verified multiplier: Err.
RefuseBuy ==
    /\ At("select") /\ RealRoute /\ CanConsiderEntry(engine)
    /\ AllowEntry(Rollover(risk, risk.day), Limits, TRUE)
    /\ \/ /\ engine' = Halt(MarkBuying(ConsiderEntry(engine)))
          /\ risk' = EngageOperationalHalt(risk)
          /\ owed' = owed \cup {"Operational"}
          /\ clear' = FALSE /\ stage' = stage
          /\ ShutdownWith(FALSE, TRUE, pending, TRUE, TRUE)
       \/ /\ engine' = MarkBuying(ConsiderEntry(engine))
          /\ stage' = "Learning"
          /\ run' = "Stopped" /\ returnPending' = FALSE /\ clean' = FALSE
          /\ UNCHANGED <<risk, owed, clear, blocked>>
    /\ UNCHANGED <<pending, reconciled, paused, link, pc, adopted>>

BuyFilled ==
    /\ At("buying")
    /\ engine' = OpenPosition(engine, IF RealRoute THEN "Bought" ELSE "Paper")
    /\ pc' = "idle"
    /\ UNCHANGED <<risk, control, session, history>>

BuyUnfilled ==
    /\ At("buying")
    /\ \E filledSome, stillVerified \in BOOLEAN : Unfilled(filledSome, stillVerified, "idle")

-----------------------------------------------------------------------------
(* The operator and the end of the run.                                    *)

TogglePause ==
    /\ Tui /\ At("idle") /\ Loaded
    /\ paused' = ~paused
    /\ UNCHANGED <<risk, engine, control, link, run, clean, pc, history>>

\* Mutant: the halt and its condition are swapped.
EngageKeySwapped ==
    /\ Tui /\ At("idle") /\ Loaded /\ ~risk.kill
    /\ risk' = EngageKillSwitch(risk)
    /\ owed' = owed \cup {"Manual"}
    /\ engine' = IF Flat(engine) THEN engine ELSE Halt(engine)
    /\ UNCHANGED <<control, session, pc, adopted>>

\* toggle_kill_switch, switch off: engage; halt only when flat.
EngageKey ==
    /\ Tui /\ At("idle") /\ Loaded /\ ~risk.kill
    /\ risk' = EngageKillSwitch(risk)
    /\ owed' = owed \cup {"Manual"}
    /\ engine' = IF Flat(engine) THEN Halt(engine) ELSE engine
    /\ UNCHANGED <<control, session, pc, adopted>>

\* toggle_kill_switch, switch on: ignored while blocked, refused (Err, which
\* ends the run) if the risk manager may not resume.
ReleaseKey ==
    /\ Tui /\ At("idle") /\ Loaded /\ risk.kill /\ ~blocked
    /\ IF MayResume(risk, Limits)
       THEN /\ risk' = Release(risk)
            /\ owed' = {}
            /\ engine' = Resume(engine)
            /\ UNCHANGED <<control, session>>
       ELSE /\ ShutdownWith(FALSE, blocked, pending, Flat(engine), risk.kill)
            /\ UNCHANGED <<risk, engine, owed, stage, clear, pending, reconciled, paused,
                           link>>
    /\ UNCHANGED <<pc, adopted>>

\* The key q (also the only way out of "Offline"), or the end of a replay.
Quit ==
    /\ run = "Offline" \/ At("idle")
    /\ ShutdownWith(TRUE, blocked, pending, Flat(engine), risk.kill)
    /\ UNCHANGED <<risk, engine, stage, clear, pending, reconciled, paused, link, pc, history>>

\* Headless, Ctrl-C drops the step at an await and asks for a clean shutdown.
AwaitPhases == {"idle"} \cup (IF Live THEN AccountPhases ELSE {})
                \cup (IF RealRoute THEN {"selling", "buying"} ELSE {})
Interrupt ==
    /\ ~Tui /\ run = "Running" /\ pc \in AwaitPhases
    /\ ShutdownWith(TRUE, blocked, pending, Flat(engine), risk.kill)
    /\ UNCHANGED <<risk, engine, stage, clear, pending, reconciled, paused, link, pc, history>>

\* An I/O or data error (journal, snapshot, telemetry, missing bid) in a step.
\* It may come after the order's terminal state is journaled and before anything
\* is made of it.
StepFails ==
    /\ run = "Running"
    /\ ShutdownWith(FALSE, blocked, pending, Flat(engine), risk.kill)
    /\ pc' \in IF pc \in OrderPhases THEN {pc, "idle"} ELSE {pc}
    /\ UNCHANGED <<risk, engine, stage, clear, pending, reconciled, paused, link, history>>

\* new_with_source after a shutdown: the snapshot it saved brings back risk,
\* engine and stage as they were; an order whose terminal state was never
\* journaled is pending.  A changed strategy starts over in Learning.
Restart ==
    /\ run = "Stopped" /\ run' = "Running"
    /\ \/ UNCHANGED <<stage, returnPending>>
       \/ stage' = "Learning" /\ returnPending' = FALSE
    /\ pending' = (pending \/ pc \in OrderPhases)
    /\ pc' = "idle"
    /\ blocked' = FALSE /\ clear' = FALSE /\ reconciled' = FALSE
    /\ paused' = FALSE /\ operational' = FALSE /\ context' = "Unloaded" /\ clean' = FALSE
    /\ UNCHANGED <<risk, engine, config, history>>

-----------------------------------------------------------------------------
StartStep ==
    \/ LoadContext \/ StorageExhausted \/ FrameUnreachable \/ MarkNotOperational
    \/ \E day \in Days : ReceiveFrame(day)
Reconcile ==
    \/ AlreadyReconciled \/ ReconcileReadonly \/ ReconcileAccount
    \/ RefreshNotDue \/ RefreshAccount \/ AccountUnreachable
    \/ DegradeStage \/ StaleUnderlying \/ FreshUnderlying
Exit ==
    \/ HoldPosition \/ ExitImpossible \/ ExitPosition \/ SaleUnfilled
    \/ LearningReportFails \/ OrderUnknown
    \/ \E pnl \in PnLs : SaleFilled(pnl)
Promote ==
    ReturnToLearning \/ KeepStage \/ PromoteOnEvidence \/ PreflightAccount \/ PromoteOnPreflight
Enter ==
    \/ SkipEntry \/ ConsiderSimulatedEntry \/ ConsiderRealEntry \/ RejectEntry
    \/ SubmitEntry \/ RefuseBuy \/ BuyFilled \/ BuyUnfilled
Operator ==
    \/ TogglePause \/ EngageKey \/ ReleaseKey \/ ManualClose \/ ManualCloseBlocked
    \/ Quit \/ Interrupt \/ StepFails

Next == StartStep \/ Reconcile \/ Exit \/ Promote \/ Enter \/ Operator \/ Restart

Spec == Init /\ [][Next]_vars

\* The runtime keeps polling a step that began; keys, Ctrl-C and failures are
\* not fair.
FairSpec == Spec /\ WF_vars(Reconcile \/ Exit \/ Promote \/ Enter)
=============================================================================
