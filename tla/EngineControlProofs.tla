------------------------- MODULE EngineControlProofs -------------------------
(***************************************************************************)
(* Theorems about the trading loop, for every choice of limits, results,   *)
(* days and configurations: its types, then its safety.                    *)
(*                                                                         *)
(* LoopInv is inductive: ControlInv says what each part of a step may rely *)
(* on, BudgetInv what the daily counters may hold.  Most actions leave the *)
(* budget alone (BudgetKept), so only the close, the release, the rollover *)
(* and the ways a position appears need an argument about it.              *)
(***************************************************************************)
EXTENDS EngineControlProperties, TLAPS

-----------------------------------------------------------------------------
(* The operators keep their types.                                         *)

LEMMA DayTypes == Days \subseteq Nat /\ NoDay \notin Days
BY DomainAssumption DEF NoDay

LEMMA LimitTypes ==
    ASSUME stage \in LiveStage
    PROVE  Limits \in [loss : Nat \ {0}, trades : Nat \ {0}]
BY LimitAssumption DEF Limits, LimitsFor

LEMMA CounterType ==
    ASSUME NEW r \in RiskStates(Days), NEW x \in Int, NEW n \in Nat
    PROVE  [r EXCEPT !.realized = x, !.trades = n] \in RiskStates(Days)
BY DEF RiskStates

LEMMA RolloverType ==
    ASSUME NEW r \in RiskStates(Days), NEW day \in Days
    PROVE  Rollover(r, day) \in RiskStates(Days)
<1>. DEFINE dated == [r EXCEPT !.day = day]
            fresh == [dated EXCEPT !.realized = 0, !.trades = 0]
<1>1. dated \in RiskStates(Days)
    BY DEF RiskStates
<1>2. fresh \in RiskStates(Days)
    <2>1. \A x \in Int, n \in Nat :
            [dated EXCEPT !.realized = x, !.trades = n] \in RiskStates(Days)
        BY <1>1, CounterType
    <2>2. 0 \in Int /\ 0 \in Nat
        OBVIOUS
    <2>3. QED
        BY <2>1, <2>2, Zenon
<1>3. Release(fresh) \in RiskStates(Days)
    BY <1>2 DEF RiskStates, Release
<1>4. Rollover(r, day) \in {r, dated, fresh, Release(fresh)}
    BY DEF Rollover
<1>5. QED
    BY <1>1, <1>2, <1>3, <1>4

LEMMA RiskTypes ==
    ASSUME NEW r \in RiskStates(Days)
    PROVE  /\ EngageOperationalHalt(r) \in RiskStates(Days)
           /\ EngageKillSwitch(r) \in RiskStates(Days)
           /\ Release(r) \in RiskStates(Days)
           /\ \A day \in Days : Rollover(r, day) \in RiskStates(Days)
           /\ Rollover(r, r.day) = r
<1>1. EngageOperationalHalt(r) \in RiskStates(Days)
    BY DEF RiskStates, EngageOperationalHalt, Engage, KillSwitchReason
<1>2. EngageKillSwitch(r) \in RiskStates(Days)
    BY DEF RiskStates, EngageKillSwitch, Engage, KillSwitchReason
<1>3. Release(r) \in RiskStates(Days)
    BY DEF RiskStates, Release
<1>4. Rollover(r, r.day) = r
    BY DEF Rollover
<1>5. QED
    BY <1>1, <1>2, <1>3, <1>4, RolloverType

LEMMA RecordCloseType ==
    ASSUME NEW r \in RiskStates(Days), NEW limits, NEW pnl \in Int
    PROVE  RecordCloseAt(r, limits, r.day, pnl) \in RiskStates(Days)
<1>. DEFINE counted == [r EXCEPT !.realized = @ + pnl, !.trades = @ + 1]
<1>1. counted \in RiskStates(Days)
    <2>1. r.realized + pnl \in Int /\ r.trades + 1 \in Nat
        BY DEF RiskStates
    <2>2. QED
        BY <2>1, CounterType
<1>2. Engage(counted, "DailyLoss") \in RiskStates(Days)
    BY <1>1 DEF RiskStates, Engage, KillSwitchReason
<1>3. RecordCloseAt(r, limits, r.day, pnl) \in {counted, Engage(counted, "DailyLoss")}
    BY RiskTypes DEF RecordCloseAt, RecordClose
<1>4. QED
    BY <1>1, <1>2, <1>3

LEMMA EngineTypes ==
    ASSUME NEW e \in EngineStates
    PROVE  /\ Halt(e) \in EngineStates
           /\ Resume(e) \in EngineStates
           /\ Close(e) \in EngineStates
           /\ MarkSelling(e) \in EngineStates
           /\ ConsiderEntry(e) \in EngineStates
           /\ MarkBuying(e) \in EngineStates
           /\ \A p \in Position : OpenPosition(e, p) \in EngineStates
BY DEF EngineStates, Halt, Resume, Close, MarkSelling, ConsiderEntry, MarkBuying,
   OpenPosition, EngineNew, TradingState, NoPosition, Position

USE DEF control, session, link, history, vars, At, BetweenSteps, HaltRisk, HaltTrading,
        BlockReconciliation, QuarantineOrder, OrderPhases

LEMMA InitType == Init => TypeOK
<1>1. \A x \in Int, n \in Nat :
        [realized |-> x, trades |-> n, kill |-> FALSE, reason |-> NoReason, day |-> NoDay]
            \in RiskStates(Days)
    BY DEF RiskStates
<1>2. 0 \in Int /\ 0 \in Nat
    OBVIOUS
<1>3. RiskDefault \in RiskStates(Days)
    BY <1>1, <1>2, Zenon DEF RiskDefault
<1>4. EngineNew \in EngineStates
    BY DEF EngineNew, EngineStates, NoPosition, TradingState
<1>5. QED
    BY <1>2, <1>3, <1>4 DEF Init, TypeOK, LiveStage, Phases

LEMMA AccountType ==
    ASSUME TypeOK, ApplyAccount
    PROVE  /\ risk' \in RiskStates(Days)
           /\ engine' \in EngineStates
           /\ blocked' \in BOOLEAN
           /\ clear' \in BOOLEAN
           /\ adopted' \in Nat
           /\ owed' \subseteq {"Manual", "Operational"}
<1>1. CASE AccountBlocks
    BY <1>1, RiskTypes, EngineTypes DEF AccountBlocks, TypeOK
<1>2. CASE AccountClean
    BY <1>2 DEF AccountClean, TypeOK
<1>3. CASE AccountMatches
    BY <1>3, EngineTypes DEF AccountMatches, TypeOK
<1>4. CASE AccountAdopts
    <2>1. {"Adopted", "Unverified"} \subseteq Position
        BY DEF Position
    <2>2. adopted + 1 \in Nat
        BY DEF TypeOK
    <2>3. PICK origin \in Position : engine' = OpenPosition(engine, origin)
        BY <1>4, <2>1 DEF AccountAdopts
    <2>4. engine' \in EngineStates
        BY <2>3, EngineTypes DEF TypeOK
    <2>5. risk' \in RiskStates(Days) /\ owed' \subseteq {"Manual", "Operational"}
        BY <1>4, RiskTypes DEF AccountAdopts, TypeOK
    <2>6. QED
        BY <1>4, <2>2, <2>4, <2>5 DEF AccountAdopts, TypeOK
<1>5. QED
    BY <1>1, <1>2, <1>3, <1>4 DEF ApplyAccount

LEMMA ShutdownType ==
    ASSUME TypeOK, NEW requested, NEW isBlocked, NEW isPending, NEW isFlat, NEW killed,
           ShutdownWith(requested, isBlocked, isPending, isFlat, killed)
    PROVE  /\ run' = "Stopped" /\ blocked' \in BOOLEAN
           /\ returnPending' \in BOOLEAN /\ clean' \in BOOLEAN
<1>1. run' = "Stopped" /\ returnPending' \in BOOLEAN
    BY DEF ShutdownWith, TypeOK
<1>2. blocked' \in BOOLEAN
    BY DEF ShutdownWith, TypeOK
<1>3. clean' \in BOOLEAN
    BY DEF ShutdownWith, TypeOK
<1>4. QED
    BY <1>1, <1>2, <1>3

LEMMA StartStepType == TypeOK /\ StartStep => TypeOK'
<1>. SUFFICES ASSUME TypeOK, StartStep PROVE TypeOK'
    OBVIOUS
<1>1. CASE LoadContext
    BY <1>1, ConfigAssumption DEF LoadContext, TypeOK, Live, Phases
<1>2. CASE StorageExhausted
    BY <1>2, RiskTypes, EngineTypes DEF StorageExhausted, TypeOK, Phases
<1>3. CASE FrameUnreachable
    <2>1. CASE Tui
        BY <1>3, <2>1 DEF FrameUnreachable, TypeOK, Phases
    <2>2. CASE ~Tui
        BY <1>3, <2>2, ShutdownType DEF FrameUnreachable, TypeOK
    <2>3. QED
        BY <2>1, <2>2
<1>4. CASE MarkNotOperational
    BY <1>4, RiskTypes, EngineTypes DEF MarkNotOperational, TypeOK, Phases
<1>5. CASE \E day \in Days : ReceiveFrame(day)
    BY <1>5, RiskTypes DEF ReceiveFrame, TypeOK, Phases
<1>6. QED
    BY <1>1, <1>2, <1>3, <1>4, <1>5 DEF StartStep

LEMMA ReconcileType == TypeOK /\ Reconcile => TypeOK'
<1>. SUFFICES ASSUME TypeOK, Reconcile PROVE TypeOK'
    OBVIOUS
<1>1. CASE AlreadyReconciled
    BY <1>1 DEF AlreadyReconciled, TypeOK, Phases
<1>2. CASE ReconcileReadonly
    BY <1>2, RiskTypes, EngineTypes DEF ReconcileReadonly, TypeOK, Phases
<1>3. CASE ReconcileAccount
    BY <1>3, AccountType DEF ReconcileAccount, TypeOK, Phases
<1>4. CASE RefreshNotDue
    BY <1>4 DEF RefreshNotDue, TypeOK, Phases
<1>5. CASE RefreshAccount
    BY <1>5, AccountType DEF RefreshAccount, TypeOK, Phases
<1>6. CASE AccountUnreachable
    <2>1. CASE Tui
        BY <1>6, <2>1 DEF AccountUnreachable, TypeOK, Phases
    <2>2. CASE ~Tui
        BY <1>6, <2>2, ShutdownType DEF AccountUnreachable, TypeOK
    <2>3. QED
        BY <2>1, <2>2
<1>7. CASE DegradeStage
    BY <1>7 DEF DegradeStage, ApplyReturn, TypeOK, LiveStage
<1>8. CASE StaleUnderlying
    BY <1>8, RiskTypes, EngineTypes DEF StaleUnderlying, TypeOK, Phases
<1>9. CASE FreshUnderlying
    BY <1>9 DEF FreshUnderlying, TypeOK, Phases
<1>10. QED
    BY <1>1, <1>2, <1>3, <1>4, <1>5, <1>6, <1>7, <1>8, <1>9 DEF Reconcile

LEMMA RefuseSaleType == TypeOK /\ RefuseSale => TypeOK'
<1>. SUFFICES ASSUME TypeOK, RefuseSale PROVE TypeOK'
    OBVIOUS
<1>1. risk' \in RiskStates(Days) /\ engine' \in EngineStates
    BY RiskTypes, EngineTypes DEF RefuseSale, TypeOK
<1>2. run' = "Stopped" /\ blocked' \in BOOLEAN /\ returnPending' \in BOOLEAN /\ clean' \in BOOLEAN
    BY ShutdownType DEF RefuseSale
<1>3. QED
    BY <1>1, <1>2 DEF RefuseSale, TypeOK

LEMMA StartSaleType ==
    ASSUME TypeOK, NEW next \in Phases, StartSale(next)
    PROVE  TypeOK'
BY EngineTypes DEF StartSale, TypeOK

LEMMA UnfilledType ==
    ASSUME TypeOK, NEW filledSome \in BOOLEAN, NEW stillVerified \in BOOLEAN,
           NEW next \in Phases, Unfilled(filledSome, stillVerified, next)
    PROVE  TypeOK'
<1>1. CASE RealRoute /\ stillVerified /\ filledSome
    BY <1>1, RiskTypes, EngineTypes DEF Unfilled, TypeOK
<1>2. CASE ~(RealRoute /\ stillVerified /\ filledSome)
    BY <1>2, EngineTypes DEF Unfilled, TypeOK
<1>3. QED
    BY <1>1, <1>2

LEMMA ExitType == TypeOK /\ Exit => TypeOK'
<1>. SUFFICES ASSUME TypeOK, Exit PROVE TypeOK'
    OBVIOUS
<1>. AfterSale \in Phases
    BY DEF AfterSale, Phases
<1>1. CASE HoldPosition
    BY <1>1 DEF HoldPosition, TypeOK, Phases
<1>2. CASE ExitImpossible
    BY <1>2, RiskTypes, EngineTypes DEF ExitImpossible, TypeOK, Phases
<1>3. CASE ExitPosition
    <2>. "selling" \in Phases
        BY DEF Phases
    <2>. QED
        BY <1>3, StartSaleType, RefuseSaleType DEF ExitPosition
<1>4. CASE SaleUnfilled
    BY <1>4, UnfilledType DEF SaleUnfilled
<1>5. CASE LearningReportFails
    BY <1>5, EngineTypes, ShutdownType DEF LearningReportFails, TypeOK, Phases
<1>6. CASE OrderUnknown
    <2>1. risk' \in RiskStates(Days) /\ engine' \in EngineStates
        BY <1>6, RiskTypes, EngineTypes DEF OrderUnknown, TypeOK
    <2>2. run' = "Stopped" /\ blocked' \in BOOLEAN /\ returnPending' \in BOOLEAN
          /\ clean' \in BOOLEAN
        BY <1>6, ShutdownType DEF OrderUnknown
    <2>3. QED
        BY <1>6, <2>1, <2>2 DEF OrderUnknown, TypeOK
<1>7. ASSUME NEW pnl \in PnLs, SaleFilled(pnl) PROVE TypeOK'
    <2>1. risk' \in RiskStates(Days)
        BY <1>7, DomainAssumption, RecordCloseType DEF SaleFilled, TypeOK
    <2>2. engine' \in EngineStates
        BY <1>7, EngineTypes DEF SaleFilled, TypeOK
    <2>3. returnPending' \in BOOLEAN
        BY <1>7 DEF SaleFilled, TypeOK
    <2>4. QED
        BY <1>7, <2>1, <2>2, <2>3 DEF SaleFilled, TypeOK
<1>8. QED
    BY <1>1, <1>2, <1>3, <1>4, <1>5, <1>6, <1>7 DEF Exit

LEMMA PromoteType == TypeOK /\ Promote => TypeOK'
<1>. SUFFICES ASSUME TypeOK, Promote PROVE TypeOK'
    OBVIOUS
<1>1. CASE ReturnToLearning
    <2>1. stage' \in LiveStage
        BY <1>1 DEF ReturnToLearning, ApplyReturn, TypeOK, LiveStage
    <2>2. returnPending' \in BOOLEAN
        BY <1>1 DEF ReturnToLearning, ApplyReturn, TypeOK
    <2>3. QED
        BY <1>1, <2>1, <2>2 DEF ReturnToLearning, TypeOK, Phases
<1>2. CASE KeepStage
    BY <1>2 DEF KeepStage, TypeOK, Phases
<1>3. CASE PromoteOnEvidence
    BY <1>3 DEF PromoteOnEvidence, TypeOK, LiveStage, Phases
<1>4. CASE PreflightAccount
    BY <1>4, AccountType DEF PreflightAccount, TypeOK, Phases
<1>5. CASE PromoteOnPreflight
    BY <1>5 DEF PromoteOnPreflight, TypeOK, LiveStage, Phases
<1>6. QED
    BY <1>1, <1>2, <1>3, <1>4, <1>5 DEF Promote

LEMMA EnterType == TypeOK /\ Enter => TypeOK'
<1>. SUFFICES ASSUME TypeOK, Enter PROVE TypeOK'
    OBVIOUS
<1>1. CASE SkipEntry
    BY <1>1 DEF SkipEntry, TypeOK, Phases
<1>2. CASE ConsiderSimulatedEntry
    BY <1>2 DEF ConsiderSimulatedEntry, TypeOK, Phases
<1>3. CASE ConsiderRealEntry
    BY <1>3, AccountType DEF ConsiderRealEntry, TypeOK, Phases
<1>4. CASE RejectEntry
    BY <1>4, EngineTypes DEF RejectEntry, TypeOK, Phases
<1>5. CASE SubmitEntry
    BY <1>5, EngineTypes DEF SubmitEntry, TypeOK, Phases
<1>6. CASE RefuseBuy
    BY <1>6, RiskTypes, EngineTypes, ShutdownType DEF RefuseBuy, TypeOK, LiveStage
<1>7. CASE BuyFilled
    <2>1. "Bought" \in Position /\ "Paper" \in Position /\ "idle" \in Phases
        BY DEF Position, Phases
    <2>2. QED
        BY <1>7, <2>1, EngineTypes DEF BuyFilled, TypeOK
<1>8. CASE BuyUnfilled
    <2>. "idle" \in Phases
        BY DEF Phases
    <2>. QED
        BY <1>8, UnfilledType DEF BuyUnfilled
<1>9. QED
    BY <1>1, <1>2, <1>3, <1>4, <1>5, <1>6, <1>7, <1>8 DEF Enter

LEMMA OperatorType == TypeOK /\ Operator => TypeOK'
<1>. SUFFICES ASSUME TypeOK, Operator PROVE TypeOK'
    OBVIOUS
<1>1. CASE TogglePause
    BY <1>1 DEF TogglePause, TypeOK
<1>2. CASE EngageKey
    BY <1>2, RiskTypes, EngineTypes DEF EngageKey, TypeOK
<1>3. CASE ReleaseKey
    BY <1>3, RiskTypes, EngineTypes, ShutdownType DEF ReleaseKey, TypeOK
<1>4. CASE ManualClose
    <2>. "manual" \in Phases
        BY DEF Phases
    <2>. QED
        BY <1>4, StartSaleType, RefuseSaleType DEF ManualClose
<1>5. CASE ManualCloseBlocked
    BY <1>5, ShutdownType DEF ManualCloseBlocked, TypeOK
<1>6. CASE Quit
    BY <1>6, ShutdownType DEF Quit, TypeOK
<1>7. CASE Interrupt
    BY <1>7, ShutdownType DEF Interrupt, TypeOK
<1>8. CASE StepFails
    <2>1. pc' \in Phases
        BY <1>8 DEF StepFails, TypeOK, Phases
    <2>2. run' = "Stopped" /\ blocked' \in BOOLEAN /\ returnPending' \in BOOLEAN
          /\ clean' \in BOOLEAN
        BY <1>8, ShutdownType DEF StepFails
    <2>3. QED
        BY <1>8, <2>1, <2>2 DEF StepFails, TypeOK
<1>9. QED
    BY <1>1, <1>2, <1>3, <1>4, <1>5, <1>6, <1>7, <1>8 DEF Operator

LEMMA RestartType == TypeOK /\ Restart => TypeOK'
<1>. SUFFICES ASSUME TypeOK, Restart PROVE TypeOK'
    OBVIOUS
<1>1. stage' \in LiveStage /\ returnPending' \in BOOLEAN
    BY DEF Restart, TypeOK, LiveStage
<1>2. QED
    BY <1>1 DEF Restart, TypeOK, Phases

\* Every variable of the loop keeps its type.
THEOREM TypeCorrect == Spec => []TypeOK
<1>1. TypeOK /\ [Next]_vars => TypeOK'
    <2>1. TypeOK /\ UNCHANGED vars => TypeOK'
        BY DEF TypeOK
    <2>2. QED
        BY <2>1, StartStepType, ReconcileType, ExitType, PromoteType, EnterType,
           OperatorType, RestartType DEF Next
<1>2. QED
    BY <1>1, InitType, PTL DEF Spec

USE DEF control, session, link, history, vars, At, BetweenSteps, HaltRisk, HaltTrading,
        BlockReconciliation, QuarantineOrder, OrderPhases

-----------------------------------------------------------------------------
(* What the operators do to the fields the invariants look at.             *)

LEMMA EngineFields ==
    ASSUME NEW e \in EngineStates
    PROVE  /\ Halt(e).state = "Halted" /\ (Flat(Halt(e)) <=> Flat(e))
           /\ Flat(Resume(e)) <=> Flat(e)
           /\ Resume(e).state # "Halted"
           /\ Flat(Close(e))
           /\ ~Flat(e) => Close(e).state = "Idle"
           /\ Flat(MarkSelling(e)) <=> Flat(e)
           /\ Flat(ConsiderEntry(e)) <=> Flat(e)
           /\ MarkBuying(ConsiderEntry(e)).state = "Buying"
           /\ Flat(MarkBuying(ConsiderEntry(e))) <=> Flat(e)
           /\ \A p \in Position : ~Flat(OpenPosition(e, p))
BY DEF EngineStates, Flat, Halt, Resume, Close, MarkSelling, ConsiderEntry, MarkBuying,
   OpenPosition, EngineNew, NoPosition, Position

LEMMA RiskFields ==
    ASSUME NEW r \in RiskStates(Days)
    PROVE  /\ EngageOperationalHalt(r).kill
           /\ EngageOperationalHalt(r).reason = "Operational"
           /\ EngageOperationalHalt(r).realized = r.realized
           /\ EngageOperationalHalt(r).trades = r.trades
           /\ EngageOperationalHalt(r).day = r.day
           /\ EngageKillSwitch(r).kill
           /\ EngageKillSwitch(r).realized = r.realized
           /\ EngageKillSwitch(r).trades = r.trades
           /\ EngageKillSwitch(r).day = r.day
           /\ ~Release(r).kill
           /\ Release(r).realized = r.realized
           /\ Release(r).trades = r.trades
           /\ Release(r).day = r.day
BY DEF RiskStates, EngageOperationalHalt, EngageKillSwitch, Engage, Release

LEMMA RolloverFields ==
    ASSUME NEW r \in RiskStates(Days), NEW day \in Days
    PROVE  /\ Rollover(r, day).day = day
           /\ r.day \in {day, NoDay} =>
                /\ Rollover(r, day).realized = r.realized
                /\ Rollover(r, day).trades = r.trades
                /\ Rollover(r, day).kill = r.kill
           /\ r.day \notin {day, NoDay} =>
                /\ Rollover(r, day).realized = 0
                /\ Rollover(r, day).trades = 0
           /\ Rollover(r, day).kill => r.kill
           /\ r.kill /\ r.reason # "DailyLoss" => Rollover(r, day).kill
           /\ r.reason # "DailyLoss" => Rollover(r, day).reason = r.reason
BY DEF RiskStates, Rollover, Release

LEMMA CloseFields ==
    ASSUME risk \in RiskStates(Days), NEW pnl \in Int,
           risk' = RecordCloseAt(risk, Limits, risk.day, pnl)
    PROVE  /\ risk'.realized = risk.realized + pnl
           /\ risk'.trades = risk.trades + 1
           /\ risk'.day = risk.day
           /\ risk.kill => risk'.kill
           /\ risk.realized + pnl <= -Limits.loss => risk'.kill
           /\ risk'.reason \in {risk.reason, "DailyLoss"}
<1>1. RecordCloseAt(risk, Limits, risk.day, pnl) = RecordClose(risk, Limits, pnl)
    BY RiskTypes DEF RecordCloseAt
<1>2. QED
    BY <1>1 DEF RiskStates, RecordClose, LossReached, Engage

\* Every stage's limits lie within the general ones.
LEMMA LimitsBelowGeneral ==
    /\ Limits.loss \in Nat /\ 0 < Limits.loss /\ Limits.loss <= MaxDailyLoss
    /\ Limits.trades \in Nat /\ 0 < Limits.trades /\ Limits.trades <= MaxTradesPerDay
    /\ MaxDailyLoss \in Nat /\ MaxTradesPerDay \in Nat
BY LimitAssumption DEF Limits, LimitsFor

\* The loss allowance grows by one trade at a time.
LEMMA Allowance ==
    ASSUME NEW n \in Nat
    PROVE  /\ WorstLoss * n \in Nat
           /\ WorstLoss * (n + 1) = WorstLoss * n + WorstLoss
           /\ WorstLoss \in Nat
BY DomainAssumption

-----------------------------------------------------------------------------
(* The daily budget.                                                       *)

\* The step leaves the counters alone, releases nothing and opens or closes no
\* position.
BudgetKept ==
    /\ risk'.realized = risk.realized
    /\ risk'.trades = risk.trades
    /\ risk'.day = risk.day
    /\ risk.kill => risk'.kill
    /\ adopted' = adopted
    /\ Flat(engine') <=> Flat(engine)
    /\ risk.day = NoDay /\ run' = "Running" => pc' \in {"idle", "retry"}

LEMMA KeptBudget == TypeOK /\ BudgetInv /\ BudgetKept => BudgetInv'
<1>. SUFFICES ASSUME TypeOK, BudgetInv, BudgetKept PROVE BudgetInv'
    OBVIOUS
<1>1. BeforeFirstFrame'
    BY DEF BudgetInv, BudgetKept, BeforeFirstFrame
<1>2. DailyLossLatched'
    BY DEF BudgetInv, BudgetKept, DailyLossLatched
<1>3. DailyTradesBounded'
    BY DEF BudgetInv, BudgetKept, DailyTradesBounded
<1>4. DailyLossBounded'
    BY DEF BudgetInv, BudgetKept, DailyLossBounded
<1>5. QED
    BY <1>1, <1>2, <1>3, <1>4 DEF BudgetInv

\* Halting, with or without the risk manager's halt, keeps the budget.
LEMMA HaltKeepsBudget ==
    ASSUME TypeOK
    PROVE  /\ Flat(Halt(engine)) <=> Flat(engine)
           /\ EngageOperationalHalt(risk).realized = risk.realized
           /\ EngageOperationalHalt(risk).trades = risk.trades
           /\ EngageOperationalHalt(risk).day = risk.day
           /\ EngageOperationalHalt(risk).kill
BY EngineFields, RiskFields DEF TypeOK

\* A position appears: bought while the budget allowed it, or adopted.
LEMMA OpenBudget ==
    ASSUME TypeOK, BudgetInv, Flat(engine), ~Flat(engine'),
           risk'.realized = risk.realized, risk'.trades = risk.trades,
           risk'.day = risk.day, risk.kill => risk'.kill,
           risk.day # NoDay,
           \/ adopted' = adopted + 1
           \/ /\ adopted' = adopted
              /\ risk.trades < MaxTradesPerDay
              /\ risk.realized > -MaxDailyLoss
    PROVE  BudgetInv'
<1>. risk.realized \in Int /\ risk.trades \in Nat /\ adopted \in Nat
    BY DEF TypeOK, RiskStates
<1>1. BeforeFirstFrame'
    BY DEF BeforeFirstFrame
<1>2. DailyLossLatched'
    BY DEF BudgetInv, DailyLossLatched
<1>3. DailyTradesBounded'
    BY LimitsBelowGeneral DEF BudgetInv, DailyTradesBounded
<1>4. DailyLossBounded'
    <2>. DEFINE Allowed(n) == risk.realized > -MaxDailyLoss - WorstLoss * n
    <2>1. Allowed(adopted')
        <3>1. CASE adopted' = adopted + 1
            BY <3>1 DEF BudgetInv, DailyLossBounded
        <3>2. CASE adopted' = adopted /\ risk.realized > -MaxDailyLoss
            <4>1. WorstLoss * adopted \in Nat
                BY Allowance, Zenon
            <4>2. risk.realized > -MaxDailyLoss - WorstLoss * adopted
                BY <3>2, <4>1, LimitsBelowGeneral
            <4>3. QED
                BY <3>2, <4>2, Zenon
        <3>3. QED
            BY <3>1, <3>2
    <2>2. adopted' + 0 = adopted'
        OBVIOUS
    <2>3. QED
        BY <2>1, <2>2 DEF DailyLossBounded
<1>5. QED
    BY <1>1, <1>2, <1>3, <1>4 DEF BudgetInv

\* A position disappears: the close counts it and latches the loss.
LEMMA CloseBudget ==
    ASSUME TypeOK, BudgetInv, ~Flat(engine), Flat(engine'), adopted' = adopted,
           NEW pnl \in PnLs,
           risk' = RecordCloseAt(risk, Limits, risk.day, pnl)
    PROVE  BudgetInv'
<1>. risk.realized \in Int /\ risk.trades \in Nat /\ adopted \in Nat /\ pnl \in Int
    BY DomainAssumption DEF TypeOK, RiskStates
<1>0. /\ risk'.realized = risk.realized + pnl
      /\ risk'.trades = risk.trades + 1
      /\ risk'.day = risk.day
      /\ risk.realized + pnl <= -Limits.loss => risk'.kill
    BY CloseFields DEF TypeOK
<1>1. BeforeFirstFrame'
    BY <1>0 DEF BudgetInv, BeforeFirstFrame
<1>2. DailyLossLatched'
    BY <1>0, LimitsBelowGeneral DEF DailyLossLatched
<1>3. DailyTradesBounded'
    BY <1>0, LimitsBelowGeneral DEF BudgetInv, DailyTradesBounded
<1>4. DailyLossBounded'
    <2>1. risk.realized > -MaxDailyLoss - WorstLoss * (adopted + 0)
        BY DEF BudgetInv, DailyLossBounded
    <2>2. pnl >= -WorstLoss
        BY DomainAssumption
    <2>3. risk.realized + pnl > -MaxDailyLoss - WorstLoss * (adopted + 1)
        <3>. DEFINE spent == WorstLoss * adopted
        <3>1. spent \in Int /\ WorstLoss * (adopted + 1) = spent + WorstLoss
              /\ WorstLoss \in Int /\ MaxDailyLoss \in Int /\ adopted + 0 = adopted
            <4>1. WorstLoss * adopted \in Nat /\ WorstLoss \in Nat
                  /\ WorstLoss * (adopted + 1) = WorstLoss * adopted + WorstLoss
                BY Allowance, Zenon
            <4>2. QED
                BY <4>1, LimitsBelowGeneral
        <3>2. risk.realized > -MaxDailyLoss - spent
            BY <2>1, <3>1
        <3>. HIDE DEF spent
        <3>3. risk.realized + pnl > -MaxDailyLoss - (spent + WorstLoss)
            BY <2>2, <3>1, <3>2
        <3>4. QED
            BY <3>1, <3>3
    <2>4. QED
        BY <1>0, <2>3 DEF DailyLossBounded
<1>5. QED
    BY <1>1, <1>2, <1>3, <1>4 DEF BudgetInv

LEMMA AccountBudget ==
    ASSUME TypeOK, BudgetInv, ApplyAccount, risk.day # NoDay
    PROVE  BudgetInv'
<1>1. CASE AccountBlocks
    BY <1>1, HaltKeepsBudget, KeptBudget DEF AccountBlocks, BudgetKept
<1>2. CASE AccountClean
    BY <1>2, KeptBudget DEF AccountClean, BudgetKept
<1>3. CASE AccountMatches
    BY <1>3, EngineFields, KeptBudget DEF AccountMatches, BudgetKept, TypeOK
<1>4. CASE AccountAdopts
    <2>1. Flat(engine) /\ ~Flat(engine')
        BY <1>4, EngineFields DEF AccountAdopts, TypeOK, Position
    <2>2. /\ risk'.realized = risk.realized /\ risk'.trades = risk.trades
          /\ risk'.day = risk.day /\ (risk.kill => risk'.kill)
        BY <1>4, HaltKeepsBudget DEF AccountAdopts
    <2>3. QED
        BY <1>4, <2>1, <2>2, OpenBudget DEF AccountAdopts
<1>5. QED
    BY <1>1, <1>2, <1>3, <1>4 DEF ApplyAccount

-----------------------------------------------------------------------------
(* The control.                                                            *)

\* Nothing is asked of a program that stopped.
LEMMA StoppedControl == run' = "Stopped" => ControlInv'
BY DEF ControlInv, PhaseInv, BuyInFlightIsAuthorised,
   BlockedIsFrozen

\* The operational halt freezes the loop.
LEMMA HaltFreezes ==
    ASSUME TypeOK, risk' = EngageOperationalHalt(risk), engine' = Halt(engine)
    PROVE  /\ Frozen' /\ engine'.state = "Halted"
           /\ (Flat(engine') <=> Flat(engine))
BY RiskFields, EngineFields DEF TypeOK, Frozen

\* An answer about the account keeps a frozen loop frozen; when it blocks it
\* freezes, and it leaves no engine killed, flat and awake that was not so before.
LEMMA AccountControl ==
    ASSUME TypeOK, ApplyAccount
    PROVE  /\ Frozen => Frozen'
           /\ blocked' => blocked \/ Frozen'
           /\ KilledIdle' => KilledIdle
<1>1. CASE AccountBlocks
    BY <1>1, HaltFreezes DEF AccountBlocks, KilledIdle
<1>2. CASE AccountClean
    BY <1>2 DEF AccountClean, Frozen, KilledIdle
<1>3. CASE AccountMatches
    BY <1>3, EngineFields DEF AccountMatches, TypeOK, Frozen, KilledIdle
<1>4. CASE AccountAdopts
    BY <1>4, EngineFields, RiskFields DEF AccountAdopts, TypeOK, Position, Frozen, KilledIdle
<1>5. QED
    BY <1>1, <1>2, <1>3, <1>4 DEF ApplyAccount

USE DEF ControlInv, PhaseInv, BlockedIsFrozen

LEMMA StartStepSafe == LoopInv /\ StartStep => ControlInv' /\ BudgetInv'
<1>. SUFFICES ASSUME LoopInv, StartStep PROVE ControlInv' /\ BudgetInv'
    OBVIOUS
<1>. TypeOK /\ ControlInv /\ BudgetInv
    BY DEF LoopInv
<1>1. CASE LoadContext
    <2>1. ControlInv'
        BY <1>1 DEF LoadContext, BuyInFlightIsAuthorised, Loaded, Frozen
    <2>2. BudgetKept
        BY <1>1 DEF LoadContext, BudgetKept
    <2>3. QED
        BY <2>1, <2>2, KeptBudget
<1>2. CASE StorageExhausted
    <2>1. ControlInv'
        BY <1>2, HaltFreezes DEF StorageExhausted, BuyInFlightIsAuthorised, Frozen, KilledIdle
    <2>2. BudgetKept
        BY <1>2, HaltKeepsBudget DEF StorageExhausted, BudgetKept
    <2>3. QED
        BY <2>1, <2>2, KeptBudget
<1>3. CASE FrameUnreachable
    <2>1. ControlInv'
        <3>1. CASE Tui
            BY <1>3, <3>1 DEF FrameUnreachable, BuyInFlightIsAuthorised, Frozen, KilledIdle
        <3>2. CASE ~Tui
            BY <1>3, <3>2, StoppedControl, ShutdownType DEF FrameUnreachable
        <3>3. QED
            BY <3>1, <3>2
    <2>2. BudgetKept
        BY <1>3, ShutdownType DEF FrameUnreachable, BudgetKept
    <2>3. QED
        BY <2>1, <2>2, KeptBudget
<1>4. CASE MarkNotOperational
    <2>1. ControlInv'
        BY <1>4, HaltFreezes DEF MarkNotOperational, BuyInFlightIsAuthorised, Frozen, KilledIdle
    <2>2. BudgetKept
        BY <1>4, HaltKeepsBudget DEF MarkNotOperational, BudgetKept
    <2>3. QED
        BY <2>1, <2>2, KeptBudget
<1>5. ASSUME NEW day \in Days, ReceiveFrame(day) PROVE ControlInv' /\ BudgetInv'
    <2>. risk \in RiskStates(Days) /\ engine' = engine /\ risk' = Rollover(risk, day)
        BY <1>5 DEF ReceiveFrame, TypeOK
    <2>1. ControlInv'
        BY <1>5, RolloverFields DEF ReceiveFrame, BuyInFlightIsAuthorised, Frozen, KilledIdle
    <2>2. CASE risk.day = day
        <3>1. risk' = risk /\ adopted' = adopted /\ risk.day # NoDay
            BY <1>5, <2>2, DayTypes DEF ReceiveFrame, Rollover
        <3>2. QED
            BY <2>1, <3>1, KeptBudget DEF BudgetKept
    <2>3. CASE risk.day = NoDay /\ day # NoDay
        <3>1. /\ risk'.realized = risk.realized /\ risk'.trades = risk.trades
              /\ risk'.day # NoDay /\ (risk.kill => risk'.kill)
            BY <2>3, RolloverFields
        <3>2. adopted' = adopted
            BY <1>5, <2>3 DEF ReceiveFrame, BudgetInv, BeforeFirstFrame
        <3>3. QED
            BY <2>1, <3>1, <3>2 DEF BudgetInv, BeforeFirstFrame, DailyLossLatched,
               DailyTradesBounded, DailyLossBounded
    <2>4. CASE risk.day \notin {day, NoDay}
        <3>1. /\ risk'.realized = 0 /\ risk'.trades = 0 /\ risk'.day # NoDay
              /\ adopted' = 0
            BY <1>5, <2>4, RolloverFields, DayTypes DEF ReceiveFrame
        <3>2. WorstLoss * (0 + 0) = 0 /\ WorstLoss * (0 + 1) = WorstLoss /\ WorstLoss \in Nat
            BY Allowance
        <3>3. BudgetInv'
            BY <3>1, <3>2, LimitsBelowGeneral DEF BudgetInv, BeforeFirstFrame,
               DailyLossLatched, DailyTradesBounded, DailyLossBounded
        <3>4. QED
            BY <2>1, <3>3
    <2>5. QED
        BY <2>2, <2>3, <2>4, DayTypes
<1>6. QED
    BY <1>1, <1>2, <1>3, <1>4, <1>5 DEF StartStep

LEMMA ReconcileSafe == LoopInv /\ Reconcile => ControlInv' /\ BudgetInv'
<1>. SUFFICES ASSUME LoopInv, Reconcile PROVE ControlInv' /\ BudgetInv'
    OBVIOUS
<1>. TypeOK /\ ControlInv /\ BudgetInv
    BY DEF LoopInv
<1>1. risk.day = NoDay /\ run = "Running" => pc \in {"idle", "retry"}
    BY DEF BudgetInv, BeforeFirstFrame
<1>2. CASE AlreadyReconciled
    <2>1. ControlInv'
        BY <1>2 DEF AlreadyReconciled, BuyInFlightIsAuthorised, Frozen, KilledIdle
    <2>2. QED
        BY <1>1, <1>2, <2>1, KeptBudget DEF AlreadyReconciled, BudgetKept
<1>3. CASE ReconcileReadonly
    <2>1. ControlInv'
        BY <1>3, HaltFreezes DEF ReconcileReadonly, BuyInFlightIsAuthorised, Frozen, KilledIdle
    <2>2. BudgetKept
        BY <1>1, <1>3, HaltKeepsBudget DEF ReconcileReadonly, BudgetKept
    <2>3. QED
        BY <2>1, <2>2, KeptBudget
<1>4. CASE ReconcileAccount
    <2>1. ControlInv'
        BY <1>4, AccountControl DEF ReconcileAccount, BuyInFlightIsAuthorised, Frozen, KilledIdle
    <2>2. BudgetInv'
        BY <1>1, <1>4, AccountBudget DEF ReconcileAccount
    <2>3. QED
        BY <2>1, <2>2
<1>5. CASE RefreshNotDue
    <2>1. ControlInv'
        BY <1>5 DEF RefreshNotDue, BuyInFlightIsAuthorised, Frozen, KilledIdle
    <2>2. QED
        BY <1>1, <1>5, <2>1, KeptBudget DEF RefreshNotDue, BudgetKept
<1>6. CASE RefreshAccount
    <2>1. ControlInv'
        BY <1>6, AccountControl DEF RefreshAccount, BuyInFlightIsAuthorised, Frozen, KilledIdle
    <2>2. BudgetInv'
        BY <1>1, <1>6, AccountBudget DEF RefreshAccount
    <2>3. QED
        BY <2>1, <2>2
<1>7. CASE AccountUnreachable
    <2>1. ControlInv'
        BY <1>7, StoppedControl, ShutdownType DEF AccountUnreachable, BuyInFlightIsAuthorised,
           AccountPhases, Frozen
    <2>2. BudgetKept
        BY <1>1, <1>7 DEF AccountUnreachable, BudgetKept, AccountPhases
    <2>3. QED
        BY <2>1, <2>2, KeptBudget
<1>8. CASE DegradeStage
    <2>1. ControlInv'
        BY <1>8 DEF DegradeStage, BuyInFlightIsAuthorised, Frozen, KilledIdle
    <2>2. QED
        BY <1>1, <1>8, <2>1, KeptBudget DEF DegradeStage, BudgetKept
<1>9. CASE StaleUnderlying
    <2>1. ControlInv'
        BY <1>9, HaltFreezes DEF StaleUnderlying, BuyInFlightIsAuthorised, Frozen, KilledIdle
    <2>2. BudgetKept
        BY <1>1, <1>9, HaltKeepsBudget DEF StaleUnderlying, BudgetKept
    <2>3. QED
        BY <2>1, <2>2, KeptBudget
<1>10. CASE FreshUnderlying
    <2>1. ControlInv'
        BY <1>10 DEF FreshUnderlying, BuyInFlightIsAuthorised, Frozen, KilledIdle
    <2>2. QED
        BY <1>1, <1>10, <2>1, KeptBudget DEF FreshUnderlying, BudgetKept
<1>11. QED
    BY <1>2, <1>3, <1>4, <1>5, <1>6, <1>7, <1>8, <1>9, <1>10 DEF Reconcile

\* A sale that starts moves no counter and needs a position nobody blocked.
LEMMA StartSaleSafe ==
    ASSUME LoopInv, NEW next \in {"selling", "manual"}, StartSale(next),
           run = "Running", ~Flat(engine), ~blocked, risk.day # NoDay
    PROVE  ControlInv' /\ BudgetInv'
<1>. TypeOK /\ ControlInv /\ BudgetInv
    BY DEF LoopInv
<1>1. Flat(engine') <=> Flat(engine)
    BY EngineFields DEF StartSale, TypeOK
<1>2. ControlInv'
    BY <1>1 DEF StartSale, BuyInFlightIsAuthorised, Frozen, KilledIdle
<1>3. BudgetKept
    BY <1>1 DEF StartSale, BudgetKept
<1>4. QED
    BY <1>2, <1>3, KeptBudget

LEMMA RefuseSaleSafe == LoopInv /\ RefuseSale => ControlInv' /\ BudgetInv'
<1>. SUFFICES ASSUME LoopInv, RefuseSale PROVE ControlInv' /\ BudgetInv'
    OBVIOUS
<1>. TypeOK /\ BudgetInv
    BY DEF LoopInv
<1>1. run' = "Stopped"
    BY ShutdownType DEF RefuseSale
<1>2. BudgetKept
    BY <1>1, HaltKeepsBudget DEF RefuseSale, BudgetKept
<1>3. QED
    BY <1>1, <1>2, StoppedControl, KeptBudget

LEMMA UnfilledSafe ==
    ASSUME LoopInv, NEW filledSome \in BOOLEAN, NEW stillVerified \in BOOLEAN,
           NEW next \in {"return", "idle"}, Unfilled(filledSome, stillVerified, next),
           run = "Running", ~blocked, risk.day # NoDay
    PROVE  ControlInv' /\ BudgetInv'
<1>. TypeOK /\ ControlInv /\ BudgetInv
    BY DEF LoopInv
<1>1. CASE RealRoute /\ stillVerified /\ filledSome
    <2>1. ControlInv'
        BY <1>1, HaltFreezes DEF Unfilled, BuyInFlightIsAuthorised, Frozen, KilledIdle
    <2>2. BudgetKept
        BY <1>1, HaltKeepsBudget DEF Unfilled, BudgetKept
    <2>3. QED
        BY <2>1, <2>2, KeptBudget
<1>2. CASE ~(RealRoute /\ stillVerified /\ filledSome)
    <2>1. Flat(engine') <=> Flat(engine)
        BY <1>2, EngineFields DEF Unfilled, TypeOK
    <2>2. ControlInv'
        BY <1>2, <2>1 DEF Unfilled, BuyInFlightIsAuthorised, Frozen, KilledIdle
    <2>3. BudgetKept
        BY <1>2, <2>1 DEF Unfilled, BudgetKept
    <2>4. QED
        BY <2>2, <2>3, KeptBudget
<1>3. QED
    BY <1>1, <1>2

LEMMA ExitSafe == LoopInv /\ Exit => ControlInv' /\ BudgetInv'
<1>. SUFFICES ASSUME LoopInv, Exit PROVE ControlInv' /\ BudgetInv'
    OBVIOUS
<1>. TypeOK /\ ControlInv /\ BudgetInv
    BY DEF LoopInv
<1>. AfterSale \in {"return", "idle"}
    BY DEF AfterSale
<1>1. risk.day = NoDay /\ run = "Running" => pc \in {"idle", "retry"}
    BY DEF BudgetInv, BeforeFirstFrame
<1>2. Selling => /\ run = "Running" /\ ~blocked /\ ~Flat(engine)
                 /\ risk.day # NoDay
    BY DEF Selling, BudgetInv, BeforeFirstFrame
<1>3. CASE HoldPosition
    <2>1. ControlInv'
        BY <1>3 DEF HoldPosition, BuyInFlightIsAuthorised, Frozen, KilledIdle
    <2>2. QED
        BY <1>1, <1>3, <2>1, KeptBudget DEF HoldPosition, BudgetKept
<1>4. CASE ExitImpossible
    <2>1. ControlInv'
        BY <1>4, HaltFreezes DEF ExitImpossible, BuyInFlightIsAuthorised, Frozen, KilledIdle
    <2>2. BudgetKept
        BY <1>1, <1>4, HaltKeepsBudget DEF ExitImpossible, BudgetKept
    <2>3. QED
        BY <2>1, <2>2, KeptBudget
<1>5. CASE ExitPosition
    BY <1>1, <1>5, StartSaleSafe, RefuseSaleSafe DEF ExitPosition
<1>6. CASE SaleUnfilled
    BY <1>2, <1>6, UnfilledSafe DEF SaleUnfilled
<1>7. CASE LearningReportFails
    <2>1. run' = "Stopped" /\ risk' = risk /\ adopted' = adopted
        BY <1>7, ShutdownType DEF LearningReportFails
    <2>2. ~Flat(engine) /\ Flat(engine') /\ risk.day # NoDay
        BY <1>2, <1>7, EngineFields DEF LearningReportFails, TypeOK
    <2>3. BeforeFirstFrame' /\ DailyLossLatched'
        BY <2>1, <2>2 DEF BudgetInv, BeforeFirstFrame, DailyLossLatched
    <2>4. DailyTradesBounded'
        BY <2>1, <2>2, LimitsBelowGeneral
           DEF BudgetInv, DailyTradesBounded, TypeOK, RiskStates
    <2>5. DailyLossBounded'
        <3>1. /\ risk.realized > -MaxDailyLoss - WorstLoss * (adopted + 0)
              /\ risk.realized \in Int /\ adopted \in Nat /\ adopted + 0 = adopted
            BY <2>2 DEF BudgetInv, DailyLossBounded, TypeOK, RiskStates
        <3>2. /\ WorstLoss * (adopted + 1) = WorstLoss * adopted + WorstLoss
              /\ WorstLoss * adopted \in Nat /\ WorstLoss \in Nat
            BY <3>1, Allowance, Zenon
        <3>3. risk.realized > -MaxDailyLoss - WorstLoss * (adopted + 1)
            BY <3>1, <3>2, LimitsBelowGeneral
        <3>4. QED
            BY <2>1, <2>2, <3>3 DEF DailyLossBounded
    <2>6. QED
        BY <2>1, <2>3, <2>4, <2>5, StoppedControl DEF BudgetInv
<1>8. CASE OrderUnknown
    <2>1. run' = "Stopped"
        BY <1>8, ShutdownType DEF OrderUnknown
    <2>2. BudgetKept
        BY <1>8, <2>1, HaltKeepsBudget DEF OrderUnknown, BudgetKept
    <2>3. QED
        BY <2>1, <2>2, StoppedControl, KeptBudget
<1>9. ASSUME NEW pnl \in PnLs, SaleFilled(pnl) PROVE ControlInv' /\ BudgetInv'
    <2>1. Flat(engine') /\ (risk'.kill => engine'.state = "Halted")
        BY <1>9, EngineFields, EngineTypes DEF SaleFilled, TypeOK
    <2>2. BudgetInv'
        BY <1>2, <1>9, <2>1, CloseBudget DEF SaleFilled
    <2>3. ControlInv'
        BY <1>2, <1>9, <2>1 DEF SaleFilled, BuyInFlightIsAuthorised, Frozen, KilledIdle
    <2>4. QED
        BY <2>2, <2>3
<1>10. QED
    BY <1>3, <1>4, <1>5, <1>6, <1>7, <1>8, <1>9 DEF Exit

LEMMA PromoteSafe == LoopInv /\ Promote => ControlInv' /\ BudgetInv'
<1>. SUFFICES ASSUME LoopInv, Promote PROVE ControlInv' /\ BudgetInv'
    OBVIOUS
<1>. TypeOK /\ ControlInv /\ BudgetInv
    BY DEF LoopInv
<1>1. risk.day = NoDay /\ run = "Running" => pc \in {"idle", "retry"}
    BY DEF BudgetInv, BeforeFirstFrame
<1>2. CASE ReturnToLearning
    <2>1. ControlInv'
        BY <1>2 DEF ReturnToLearning, BuyInFlightIsAuthorised, Frozen, KilledIdle
    <2>2. QED
        BY <1>1, <1>2, <2>1, KeptBudget DEF ReturnToLearning, BudgetKept
<1>3. CASE KeepStage
    <2>1. ControlInv'
        BY <1>3 DEF KeepStage, BuyInFlightIsAuthorised, Frozen, KilledIdle
    <2>2. QED
        BY <1>1, <1>3, <2>1, KeptBudget DEF KeepStage, BudgetKept
<1>4. CASE PromoteOnEvidence
    <2>1. ControlInv'
        BY <1>4 DEF PromoteOnEvidence, BuyInFlightIsAuthorised, Frozen, KilledIdle
    <2>2. QED
        BY <1>1, <1>4, <2>1, KeptBudget DEF PromoteOnEvidence, BudgetKept
<1>5. CASE PreflightAccount
    <2>1. CASE ApplyAccount
        <3>1. ControlInv'
            BY <1>5, <2>1, AccountControl
               DEF PreflightAccount, MayPromote, BuyInFlightIsAuthorised, Frozen, KilledIdle
        <3>2. BudgetInv'
            BY <1>1, <1>5, <2>1, AccountBudget DEF PreflightAccount
        <3>3. QED
            BY <3>1, <3>2
    <2>2. CASE UNCHANGED <<risk, engine, blocked, clear, adopted, owed>>
        <3>1. ControlInv'
            BY <1>5, <2>2 DEF PreflightAccount, BuyInFlightIsAuthorised, Frozen, KilledIdle
        <3>2. QED
            BY <1>1, <1>5, <2>2, <3>1, KeptBudget DEF PreflightAccount, BudgetKept
    <2>3. QED
        BY <1>5, <2>1, <2>2 DEF PreflightAccount
<1>6. CASE PromoteOnPreflight
    <2>1. ControlInv'
        BY <1>6 DEF PromoteOnPreflight, BuyInFlightIsAuthorised, Frozen, KilledIdle
    <2>2. QED
        BY <1>1, <1>6, <2>1, KeptBudget DEF PromoteOnPreflight, BudgetKept
<1>7. QED
    BY <1>2, <1>3, <1>4, <1>5, <1>6 DEF Promote

LEMMA EnterSafe == LoopInv /\ Enter => ControlInv' /\ BudgetInv'
<1>. SUFFICES ASSUME LoopInv, Enter PROVE ControlInv' /\ BudgetInv'
    OBVIOUS
<1>. TypeOK /\ ControlInv /\ BudgetInv
    BY DEF LoopInv
<1>1. risk.day = NoDay /\ run = "Running" => pc \in {"idle", "retry"}
    BY DEF BudgetInv, BeforeFirstFrame
<1>2. CASE SkipEntry
    <2>1. ControlInv'
        BY <1>2 DEF SkipEntry, BuyInFlightIsAuthorised, Frozen, KilledIdle
    <2>2. QED
        BY <1>1, <1>2, <2>1, KeptBudget DEF SkipEntry, BudgetKept
<1>3. CASE ConsiderSimulatedEntry
    <2>1. ControlInv'
        BY <1>3 DEF ConsiderSimulatedEntry, EntryGuard, BuyInFlightIsAuthorised, Frozen, KilledIdle
    <2>2. QED
        BY <1>1, <1>3, <2>1, KeptBudget DEF ConsiderSimulatedEntry, BudgetKept
<1>4. CASE ConsiderRealEntry
    <2>1. ControlInv'
        BY <1>4, AccountControl
           DEF ConsiderRealEntry, EntryGuard, BuyInFlightIsAuthorised, Frozen, KilledIdle
    <2>2. BudgetInv'
        BY <1>1, <1>4, AccountBudget DEF ConsiderRealEntry
    <2>3. QED
        BY <2>1, <2>2
<1>5. CASE RejectEntry
    <2>1. /\ Flat(engine') <=> Flat(engine)
          /\ ~CanConsiderEntry(engine) => engine' = engine
        BY <1>5, EngineFields, EngineTypes DEF RejectEntry, TypeOK
    <2>2. CanConsiderEntry(engine) => Flat(engine) /\ ~risk.kill /\ ~blocked
        BY <1>5 DEF RejectEntry, CanConsiderEntry, Frozen, KilledIdle
    <2>3. ControlInv'
        BY <1>5, <2>1, <2>2 DEF RejectEntry, BuyInFlightIsAuthorised, Frozen, KilledIdle
    <2>4. BudgetKept
        BY <1>1, <1>5, <2>1 DEF RejectEntry, BudgetKept
    <2>5. QED
        BY <2>3, <2>4, KeptBudget
<1>6. CASE SubmitEntry
    <2>1. /\ Flat(engine) /\ ~risk.kill /\ ~blocked
          /\ ~LossReached(risk, Limits) /\ risk.trades < Limits.trades
        BY <1>6, RiskTypes DEF SubmitEntry, CanConsiderEntry, AllowEntry, Frozen, TypeOK
    <2>2. engine'.state = "Buying" /\ (Flat(engine') <=> Flat(engine))
        BY <1>6, EngineFields DEF SubmitEntry, TypeOK
    <2>3. ControlInv'
        BY <1>6, <2>1, <2>2 DEF SubmitEntry, BuyInFlightIsAuthorised, Limits
    <2>4. BudgetKept
        BY <1>1, <1>6, <2>2 DEF SubmitEntry, BudgetKept
    <2>5. QED
        BY <2>3, <2>4, KeptBudget
<1>7. CASE RefuseBuy
    <2>1. run' = "Stopped"
        BY <1>7, ShutdownType DEF RefuseBuy
    <2>2. BudgetKept
        <3>1. (Flat(engine') <=> Flat(engine)) /\ adopted' = adopted
            <4>. DEFINE buying == MarkBuying(ConsiderEntry(engine))
            <4>1. engine \in EngineStates /\ buying \in EngineStates
                BY EngineTypes DEF TypeOK
            <4>2. (Flat(buying) <=> Flat(engine)) /\ (Flat(Halt(buying)) <=> Flat(buying))
                BY <4>1, EngineFields, Zenon
            <4>3. engine' \in {buying, Halt(buying)} /\ adopted' = adopted
                BY <1>7 DEF RefuseBuy
            <4>. HIDE DEF buying
            <4>4. QED
                BY <4>2, <4>3
        <3>2. /\ risk'.realized = risk.realized /\ risk'.trades = risk.trades
              /\ risk'.day = risk.day /\ (risk.kill => risk'.kill)
            BY <1>7, HaltKeepsBudget DEF RefuseBuy
        <3>3. QED
            BY <2>1, <3>1, <3>2 DEF BudgetKept
    <2>3. QED
        BY <2>1, <2>2, StoppedControl, KeptBudget
<1>8. CASE BuyFilled
    <2>1. /\ ~risk.kill /\ ~blocked /\ Flat(engine)
          /\ risk.trades < Limits.trades /\ ~LossReached(risk, Limits)
        BY <1>8 DEF BuyFilled, BuyInFlightIsAuthorised
    <2>2. risk.trades < MaxTradesPerDay /\ risk.realized > -MaxDailyLoss
        BY <2>1, LimitsBelowGeneral DEF LossReached, TypeOK, RiskStates
    <2>3. ~Flat(engine')
        BY <1>8, EngineFields DEF BuyFilled, TypeOK, Position
    <2>4. BudgetInv'
        BY <1>1, <1>8, <2>1, <2>2, <2>3, OpenBudget DEF BuyFilled
    <2>5. ControlInv'
        BY <1>8, <2>1, <2>3 DEF BuyFilled, BuyInFlightIsAuthorised, Frozen, KilledIdle
    <2>6. QED
        BY <2>4, <2>5
<1>9. CASE BuyUnfilled
    BY <1>1, <1>9, UnfilledSafe DEF BuyUnfilled, BuyInFlightIsAuthorised
<1>10. QED
    BY <1>2, <1>3, <1>4, <1>5, <1>6, <1>7, <1>8, <1>9 DEF Enter

\* The shutdown of any state keeps the budget.
LEMMA ShutdownSafe ==
    ASSUME LoopInv, run' = "Stopped", UNCHANGED <<risk, engine, adopted>>
    PROVE  ControlInv' /\ BudgetInv'
<1>1. BudgetKept
    BY DEF BudgetKept
<1>2. QED
    BY <1>1, StoppedControl, KeptBudget DEF LoopInv

LEMMA OperatorSafe == LoopInv /\ Operator => ControlInv' /\ BudgetInv'
<1>. SUFFICES ASSUME LoopInv, Operator PROVE ControlInv' /\ BudgetInv'
    OBVIOUS
<1>. TypeOK /\ ControlInv /\ BudgetInv
    BY DEF LoopInv
<1>1. CASE TogglePause
    <2>1. ControlInv'
        BY <1>1 DEF TogglePause, BuyInFlightIsAuthorised, Frozen, KilledIdle
    <2>2. QED
        BY <1>1, <2>1, KeptBudget DEF TogglePause, BudgetKept
<1>2. CASE EngageKey
    <2>1. /\ risk'.realized = risk.realized /\ risk'.trades = risk.trades
          /\ risk'.day = risk.day /\ (Flat(engine') <=> Flat(engine))
          /\ Flat(engine) => engine'.state = "Halted"
        BY <1>2, RiskFields, EngineFields DEF EngageKey, TypeOK
    <2>2. ControlInv'
        BY <1>2, <2>1 DEF EngageKey, BuyInFlightIsAuthorised, Frozen, KilledIdle
    <2>3. BudgetKept
        BY <1>2, <2>1 DEF EngageKey, BudgetKept
    <2>4. QED
        BY <2>2, <2>3, KeptBudget
<1>3. CASE ReleaseKey
    <2>1. CASE MayResume(risk, Limits)
        <3>1. /\ risk'.realized = risk.realized /\ risk'.trades = risk.trades
              /\ risk'.day = risk.day /\ ~risk'.kill
              /\ Flat(engine') <=> Flat(engine)
            BY <1>3, <2>1, RiskFields, EngineFields DEF ReleaseKey, TypeOK
        <3>2. risk.realized > -MaxDailyLoss
            BY <2>1, LimitsBelowGeneral DEF MayResume, LossReached, TypeOK, RiskStates
        <3>3. ControlInv'
            BY <1>3, <2>1, <3>1 DEF ReleaseKey, BuyInFlightIsAuthorised, Frozen, KilledIdle
        <3>4. BeforeFirstFrame'
            BY <1>3, <2>1, <3>1 DEF ReleaseKey, BudgetInv, BeforeFirstFrame
        <3>5. DailyLossLatched'
            BY <3>1, <3>2, LimitsBelowGeneral DEF DailyLossLatched, TypeOK, RiskStates
        <3>6. DailyTradesBounded' /\ DailyLossBounded'
            BY <1>3, <3>1 DEF ReleaseKey, BudgetInv, DailyTradesBounded, DailyLossBounded
        <3>7. QED
            BY <3>3, <3>4, <3>5, <3>6 DEF BudgetInv
    <2>2. CASE ~MayResume(risk, Limits)
        BY <1>3, <2>2, ShutdownType, ShutdownSafe DEF ReleaseKey
    <2>3. QED
        BY <2>1, <2>2
<1>4. CASE ManualClose
    BY <1>4, StartSaleSafe, RefuseSaleSafe DEF ManualClose, BudgetInv, BeforeFirstFrame
<1>5. CASE ManualCloseBlocked
    BY <1>5, ShutdownType, ShutdownSafe DEF ManualCloseBlocked
<1>6. CASE Quit
    BY <1>6, ShutdownType, ShutdownSafe DEF Quit
<1>7. CASE Interrupt
    BY <1>7, ShutdownType, ShutdownSafe DEF Interrupt
<1>8. CASE StepFails
    BY <1>8, ShutdownType, ShutdownSafe DEF StepFails
<1>9. QED
    BY <1>1, <1>2, <1>3, <1>4, <1>5, <1>6, <1>7, <1>8 DEF Operator

-----------------------------------------------------------------------------
(* The theorems.                                                           *)

\* A restart brings the counters back as they were and blocks nothing.
LEMMA RestartSafe == LoopInv /\ Restart => ControlInv' /\ BudgetInv'
<1>. SUFFICES ASSUME LoopInv, Restart PROVE ControlInv' /\ BudgetInv'
    OBVIOUS
<1>. TypeOK /\ BudgetInv
    BY DEF LoopInv
<1>1. ControlInv'
    BY DEF Restart, BuyInFlightIsAuthorised, Frozen, KilledIdle
<1>2. BudgetKept
    BY DEF Restart, BudgetKept
<1>3. QED
    BY <1>1, <1>2, KeptBudget

LEMMA InitSafe == Init => ControlInv /\ BudgetInv
<1>. SUFFICES ASSUME Init PROVE ControlInv /\ BudgetInv
    OBVIOUS
<1>1. /\ risk.realized = 0 /\ risk.trades = 0 /\ ~risk.kill /\ risk.day = NoDay
      /\ Flat(engine) /\ adopted = 0 /\ ~blocked /\ pc = "idle" /\ run = "Running"
    BY DEF Init, RiskDefault, EngineNew, Flat, NoPosition
<1>2. WorstLoss * (0 + 1) = WorstLoss * 0 + WorstLoss /\ WorstLoss \in Nat /\ WorstLoss * 0 = 0
    BY Allowance
<1>3. ControlInv
    BY <1>1 DEF BuyInFlightIsAuthorised
<1>4. BudgetInv
    BY <1>1, <1>2, LimitsBelowGeneral
       DEF BudgetInv, BeforeFirstFrame, DailyLossLatched, DailyTradesBounded, DailyLossBounded
<1>5. QED
    BY <1>3, <1>4

\* The whole invariant is inductive.
LEMMA LoopInvInductive == LoopInv /\ [Next]_vars => LoopInv'
<1>. SUFFICES ASSUME LoopInv, [Next]_vars PROVE LoopInv'
    OBVIOUS
<1>1. CASE Next
    <2>1. TypeOK'
        BY <1>1, StartStepType, ReconcileType, ExitType, PromoteType, EnterType,
           OperatorType, RestartType DEF Next, LoopInv
    <2>2. ControlInv' /\ BudgetInv'
        BY <1>1, StartStepSafe, ReconcileSafe, ExitSafe, PromoteSafe, EnterSafe,
           OperatorSafe, RestartSafe DEF Next
    <2>3. QED
        BY <2>1, <2>2 DEF LoopInv
<1>2. CASE UNCHANGED vars
    BY <1>2 DEF LoopInv, TypeOK, BuyInFlightIsAuthorised, Frozen, KilledIdle, BudgetInv, BeforeFirstFrame,
       DailyLossLatched, DailyTradesBounded, DailyLossBounded, Limits
<1>3. QED
    BY <1>1, <1>2

THEOREM LoopInvariant == Spec => []LoopInv
<1>1. Init => LoopInv
    BY InitType, InitSafe DEF LoopInv
<1>2. QED
    BY <1>1, LoopInvInductive, PTL DEF Spec

\* A buy in flight is authorised by the state it is in flight in.
THEOREM BuyAuthorisation == Spec => []BuyInFlightIsAuthorised
BY LoopInvariant, PTL DEF LoopInv, ControlInv

\* A block freezes the loop for good.
THEOREM BlockFreezes == Spec => []BlockedIsFrozen
BY LoopInvariant, PTL DEF LoopInv, ControlInv

\* The daily loss latches, and the day's trades and loss stay within the
\* budget plus what the account adds.
THEOREM LossLatches == Spec => []DailyLossLatched
BY LoopInvariant, PTL DEF LoopInv, BudgetInv

THEOREM TradesBounded == Spec => []DailyTradesBounded
BY LoopInvariant, PTL DEF LoopInv, BudgetInv

THEOREM LossBounded == Spec => []DailyLossBounded
BY LoopInvariant, PTL DEF LoopInv, BudgetInv

\* While an operational halt is on, a step leaves the risk state alone, halts
\* again, rolls the day over or counts a close.
LEMMA StepsOfHaltedRisk ==
    ASSUME Next, risk.kill, risk.reason = "Operational"
    PROVE  \/ risk' = risk
           \/ risk' = EngageOperationalHalt(risk)
           \/ \E day \in Days : risk' = Rollover(risk, day)
           \/ \E pnl \in PnLs : risk' = RecordCloseAt(risk, Limits, risk.day, pnl)
<1>1. ApplyAccount => risk' \in {risk, EngageOperationalHalt(risk)}
    BY DEF ApplyAccount, AccountBlocks, AccountClean, AccountMatches, AccountAdopts
<1>2. \A some, verified, next :
        Unfilled(some, verified, next) => risk' \in {risk, EngageOperationalHalt(risk)}
    BY DEF Unfilled
<1>3. CASE StartStep
    BY <1>3 DEF StartStep, LoadContext, StorageExhausted, FrameUnreachable,
       MarkNotOperational, ReceiveFrame
<1>4. CASE Reconcile
    BY <1>1, <1>4 DEF Reconcile, AlreadyReconciled, ReconcileReadonly, ReconcileAccount,
       RefreshNotDue, RefreshAccount, AccountUnreachable, DegradeStage, StaleUnderlying,
       FreshUnderlying
<1>5. CASE Exit
    BY <1>2, <1>5 DEF Exit, HoldPosition, ExitImpossible, ExitPosition, StartSale, RefuseSale,
       SaleUnfilled, LearningReportFails, OrderUnknown, SaleFilled
<1>6. CASE Promote
    BY <1>1, <1>6 DEF Promote, ReturnToLearning, KeepStage, PromoteOnEvidence,
       PreflightAccount, PromoteOnPreflight
<1>7. CASE Enter
    BY <1>1, <1>2, <1>7 DEF Enter, SkipEntry, ConsiderSimulatedEntry, ConsiderRealEntry,
       RejectEntry, SubmitEntry, RefuseBuy, BuyFilled, BuyUnfilled
<1>8. CASE Operator
    BY <1>8 DEF Operator, TogglePause, EngageKey, ReleaseKey, MayResume, ManualClose,
       StartSale, RefuseSale, ManualCloseBlocked, Quit, Interrupt, StepFails
<1>9. CASE Restart
    BY <1>9 DEF Restart
<1>10. QED
    BY <1>3, <1>4, <1>5, <1>6, <1>7, <1>8, <1>9 DEF Next

LEMMA OperationalHaltStep ==
    ASSUME TypeOK, Next, risk.kill, risk.reason = "Operational"
    PROVE  risk'.kill /\ risk'.reason \in {"Operational", "DailyLoss"}
<1>. risk \in RiskStates(Days)
    BY DEF TypeOK
<1>1. CASE risk' = risk
    BY <1>1
<1>2. CASE risk' = EngageOperationalHalt(risk)
    BY <1>2, RiskFields
<1>3. ASSUME NEW day \in Days, risk' = Rollover(risk, day)
      PROVE  risk'.kill /\ risk'.reason = "Operational"
    BY <1>3, RolloverFields
<1>4. ASSUME NEW pnl \in PnLs, risk' = RecordCloseAt(risk, Limits, risk.day, pnl)
      PROVE  risk'.kill /\ risk'.reason \in {"Operational", "DailyLoss"}
    <2>1. pnl \in Int
        BY DomainAssumption
    <2>2. QED
        BY <1>4, <2>1, CloseFields
<1>5. QED
    BY <1>1, <1>2, <1>3, <1>4, StepsOfHaltedRisk

\* No step turns an operational halt into anything but a daily-loss halt, and
\* none releases it: not the key, not a new day, not an account answer.
THEOREM OperationalHaltIsSticky == Spec => OperationalHaltStays
<1>1. TypeOK /\ [Next]_vars =>
        [risk.kill /\ risk.reason = "Operational" =>
            risk'.kill /\ risk'.reason \in {"Operational", "DailyLoss"}]_vars
    BY OperationalHaltStep
<1>2. QED
    BY <1>1, TypeCorrect, PTL DEF Spec, OperationalHaltStays

\* A blocked step starts no order and lifts no block.
LEMMA BlockedStep ==
    ASSUME LoopInv, Next, blocked, run # "Stopped"
    PROVE  blocked' /\ (pc' \in OrderPhases => pc' = pc)
<1>. TypeOK /\ ControlInv
    BY DEF LoopInv
<1>0. ApplyAccount => blocked'
    BY DEF ApplyAccount, AccountBlocks, AccountClean, AccountMatches, AccountAdopts
<1>1. \A requested, isPending, isFlat, killed :
        /\ ShutdownWith(requested, blocked, isPending, isFlat, killed) => blocked'
        /\ ShutdownWith(requested, TRUE, isPending, isFlat, killed) => blocked'
    BY DEF ShutdownWith
<1>2. \A some, verified, next : Unfilled(some, verified, next) => blocked'
    BY DEF Unfilled
<1>3. CASE StartStep
    BY <1>1, <1>3 DEF StartStep, LoadContext, StorageExhausted, FrameUnreachable,
       MarkNotOperational, ReceiveFrame
<1>4. CASE Reconcile
    BY <1>0, <1>1, <1>4 DEF Reconcile, AlreadyReconciled, ReconcileReadonly,
       ReconcileAccount, RefreshNotDue, RefreshAccount, AccountUnreachable, DegradeStage,
       StaleUnderlying, FreshUnderlying
<1>5. CASE Exit
    BY <1>1, <1>5 DEF Exit, HoldPosition, ExitImpossible, ExitPosition, Selling,
       SaleUnfilled, LearningReportFails, OrderUnknown, SaleFilled, BuyInFlightIsAuthorised
<1>6. CASE Promote
    BY <1>0, <1>6 DEF Promote, ReturnToLearning, KeepStage, PromoteOnEvidence,
       PreflightAccount, PromoteOnPreflight
<1>7. CASE Enter
    <2>1. pc # "buying" \/ run # "Running"
        BY DEF BuyInFlightIsAuthorised
    <2>2. run = "Running" /\ pc = "select" => ~CanConsiderEntry(engine)
        BY DEF CanConsiderEntry, Frozen
    <2>3. QED
        BY <1>0, <1>1, <1>7, <2>1, <2>2 DEF Enter, SkipEntry, ConsiderSimulatedEntry,
           ConsiderRealEntry, RejectEntry, SubmitEntry, RefuseBuy, BuyFilled, BuyUnfilled
<1>8. CASE Operator
    BY <1>1, <1>8 DEF Operator, TogglePause, EngageKey, ReleaseKey, ManualClose,
       ManualCloseBlocked, Quit, Interrupt, StepFails
<1>9. CASE Restart
    BY <1>9 DEF Restart
<1>10. QED
    BY <1>3, <1>4, <1>5, <1>6, <1>7, <1>8, <1>9 DEF Next

\* Nothing short of a restart lifts a block, and no order leaves under it.
THEOREM BlockNeedsRestart == Spec => BlockIsFinal
<1>1. LoopInv /\ [Next]_vars =>
        [blocked /\ run # "Stopped" =>
            blocked' /\ (pc' \in OrderPhases => pc' = pc)]_vars
    BY BlockedStep
<1>2. QED
    BY <1>1, LoopInvariant, PTL DEF Spec, BlockIsFinal

\* Whichever handler engages the switch or closes the position also halts.
LEMMA KillHaltsStep ==
    ASSUME LoopInv, Next, run = "Running", run' # "Stopped", KilledIdle'
    PROVE  KilledIdle
<1>. TypeOK /\ ControlInv
    BY DEF LoopInv
<1>0. risk' = risk /\ engine' = engine => KilledIdle
    BY DEF KilledIdle
<1>1. \A requested, isBlocked, isPending, isFlat, killed :
        ~ShutdownWith(requested, isBlocked, isPending, isFlat, killed)
    BY DEF ShutdownWith
<1>2. ~HaltTrading
    BY HaltFreezes DEF KilledIdle
<1>3. ~Flat(engine) /\ ~Flat(engine') => FALSE
    BY DEF KilledIdle
<1>4. \A some, verified, next :
        ~Flat(engine) \/ ~risk.kill => ~Unfilled(some, verified, next)
    BY <1>2, EngineFields DEF Unfilled, KilledIdle, TypeOK
<1>5. \A next : ~Flat(engine) => ~StartSale(next)
    BY <1>3, EngineFields DEF StartSale, TypeOK
<1>6. CASE StartStep
    <2>1. CASE \E day \in Days : ReceiveFrame(day)
        BY <2>1, RolloverFields DEF ReceiveFrame, KilledIdle, TypeOK
    <2>2. QED
        BY <1>0, <1>1, <1>2, <1>6, <2>1 DEF StartStep, LoadContext, StorageExhausted,
           FrameUnreachable, MarkNotOperational
<1>7. CASE Reconcile
    BY <1>0, <1>1, <1>2, <1>7, AccountControl DEF Reconcile, AlreadyReconciled,
       ReconcileReadonly, ReconcileAccount, RefreshNotDue, RefreshAccount,
       AccountUnreachable, DegradeStage, StaleUnderlying, FreshUnderlying
<1>8. CASE Exit
    <2>1. pc \in {"exit", "selling", "manual"} => ~Flat(engine)
        OBVIOUS
    <2>2. ~(\E pnl \in PnLs : SaleFilled(pnl))
        <3>1. Halt(Close(engine)).state = "Halted"
            BY EngineFields, EngineTypes DEF TypeOK
        <3>2. ASSUME NEW pnl \in PnLs, SaleFilled(pnl) PROVE FALSE
            BY <3>1, <3>2 DEF SaleFilled, KilledIdle
        <3>3. QED
            BY <3>2
    <2>3. QED
        BY <1>0, <1>1, <1>2, <1>4, <1>5, <1>8, <2>1, <2>2 DEF Exit, HoldPosition,
           ExitImpossible, ExitPosition, RefuseSale, Selling, SaleUnfilled,
           LearningReportFails, OrderUnknown
<1>9. CASE Promote
    BY <1>0, <1>9, AccountControl DEF Promote, ReturnToLearning, KeepStage,
       PromoteOnEvidence, PreflightAccount, PromoteOnPreflight
<1>10. CASE Enter
    <2>1. ~SubmitEntry
        BY DEF SubmitEntry, AllowEntry, CanConsiderEntry, KilledIdle
    <2>2. RejectEntry => engine' = engine
        BY DEF RejectEntry, CanConsiderEntry, KilledIdle
    <2>3. ~BuyFilled /\ ~BuyUnfilled
        BY <1>4 DEF BuyFilled, BuyUnfilled, BuyInFlightIsAuthorised, KilledIdle
    <2>4. QED
        BY <1>0, <1>1, <1>10, <2>1, <2>2, <2>3, AccountControl DEF Enter, SkipEntry,
           ConsiderSimulatedEntry, ConsiderRealEntry, RejectEntry, RefuseBuy
<1>11. CASE Operator
    <2>1. ~EngageKey
        BY EngineFields DEF EngageKey, KilledIdle, TypeOK
    <2>2. ReleaseKey => risk' = risk /\ engine' = engine
        BY <1>1, RiskFields DEF ReleaseKey, KilledIdle, TypeOK
    <2>3. QED
        BY <1>0, <1>1, <1>5, <1>11, <2>1, <2>2 DEF Operator, TogglePause, ManualClose,
           RefuseSale, ManualCloseBlocked, Quit, Interrupt, StepFails
<1>12. CASE Restart
    BY <1>12 DEF Restart
<1>13. QED
    BY <1>6, <1>7, <1>8, <1>9, <1>10, <1>11, <1>12 DEF Next

\* No handler leaves a killed engine awake with nothing to close.
THEOREM KillHalts == Spec => KillHaltsTheFlatEngine
<1>1. LoopInv /\ [Next]_vars =>
        [run = "Running" /\ run' # "Stopped" /\ KilledIdle' => KilledIdle]_vars
    BY KillHaltsStep
<1>2. QED
    BY <1>1, LoopInvariant, PTL DEF Spec, KillHaltsTheFlatEngine
=============================================================================
