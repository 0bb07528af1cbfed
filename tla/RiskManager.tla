---------------------------- MODULE RiskManager ----------------------------
(***************************************************************************)
(* The daily risk manager (src/src/risk.rs) as operators over its state.   *)
(*                                                                         *)
(* A risk state is a record                                                *)
(*   realized  net result of the trades closed in the current session day  *)
(*   trades    trades closed in the current session day                    *)
(*   kill      the kill switch                                             *)
(*   reason    why it is on, NoReason when the code holds None             *)
(*   day       Argentine session day of the last observation, NoDay = None *)
(* and limits are a record [loss, trades] (max_daily_loss and              *)
(* max_trades_per_day).  Money is an integer number of units; the texts of *)
(* last_rejection are left out.                                            *)
(***************************************************************************)
EXTENDS Integers

NoReason == "None"
NoDay == 0
KillSwitchReason == {"Manual", "DailyLoss", "Operational"}

RiskStates(Days) ==
    [realized : Int, trades : Nat, kill : BOOLEAN,
     reason : KillSwitchReason \cup {NoReason}, day : Days \cup {NoDay}]

RiskDefault ==
    [realized |-> 0, trades |-> 0, kill |-> FALSE,
     reason |-> NoReason, day |-> NoDay]

\* Mutant: the loss limit must be exceeded, not reached.
LossExceeded(r, limits) == r.realized < -limits.loss

\* The loss limit has been reached: the test record_close, resume and
\* allow_entry share.
LossReached(r, limits) == r.realized <= -limits.loss

\* Mutant: one trade too many is let in.
AllowOneTradeMore(r, limits, notionalFits) ==
    ~r.kill /\ notionalFits /\ ~LossReached(r, limits) /\ r.trades <= limits.trades

\* allow_entry: the tests that do not look at the order itself.  The notional
\* tests are the caller's input.
AllowEntry(r, limits, notionalFits) ==
    /\ ~r.kill
    /\ notionalFits
    /\ ~LossReached(r, limits)
    /\ r.trades < limits.trades

\* Engage(r, why): the kill switch goes on and the reason is overwritten.
Engage(r, why) == [r EXCEPT !.kill = TRUE, !.reason = why]
EngageKillSwitch(r) == Engage(r, "Manual")
EngageOperationalHalt(r) == Engage(r, "Operational")

Release(r) == [r EXCEPT !.kill = FALSE, !.reason = NoReason]

\* Mutant: the counter runs down.
RecordCloseDown(r, limits, pnl) ==
    LET counted == [r EXCEPT !.realized = @ + pnl, !.trades = @ - 1]
    IN  IF LossReached(counted, limits) THEN Engage(counted, "DailyLoss") ELSE counted

\* record_close: the loss latch replaces whatever reason was there.
RecordClose(r, limits, pnl) ==
    LET counted == [r EXCEPT !.realized = @ + pnl, !.trades = @ + 1]
    IN  IF LossReached(counted, limits)
        THEN Engage(counted, "DailyLoss")
        ELSE counted

\* rollover: the first observation only records the day; a new day resets the
\* counters and releases a daily-loss halt.
Rollover(r, day) ==
    LET dated == [r EXCEPT !.day = day]
        fresh == [dated EXCEPT !.realized = 0, !.trades = 0]
    IN  IF r.day = day THEN r
        ELSE IF r.day = NoDay THEN dated
        ELSE IF r.reason = "DailyLoss" THEN Release(fresh)
        ELSE fresh

RecordCloseAt(r, limits, day, pnl) == RecordClose(Rollover(r, day), limits, pnl)

\* Mutants: resume forgets one of its two refusals.
MayResumeDespiteLoss(r, limits) == r.reason # "Operational"
MayResumeDespiteHalt(r, limits) == ~LossReached(r, limits)

\* resume: refused while the loss limit holds or the halt is operational.
MayResume(r, limits) == ~LossReached(r, limits) /\ r.reason # "Operational"
=============================================================================
